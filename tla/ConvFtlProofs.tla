--------------------------- MODULE ConvFtlProofs ---------------------------
(***************************************************************************)
(* Proofs about ConvFtl: the tables, lists, counts, frontiers and the      *)
(* progress of a collection first, the write credits after them.           *)
(***************************************************************************)
EXTENDS ConvFtl, FiniteSetTheorems, TLAPS

-----------------------------------------------------------------------------
(***************************************************************************)
(* Facts about page numbers, slots and pages.                              *)
(***************************************************************************)

\* pg + 1 is a counter value, and a page number as long as it is in the block.
LEMMA NextPgType ==
  ASSUME NEW pg \in Pgs
  PROVE  /\ NextPg(pg) \in Counters
         /\ InBlk(NextPg(pg)) => NextPg(pg) \in Pgs
BY GeometryAssumption DEF NextPg, InBlk, Pgs, Counters

\* A counter value that is still inside the block is a page number.
LEMMA CounterInBlk ==
  ASSUME NEW c \in Counters, InBlk(c)
  PROVE  c \in Pgs
BY GeometryAssumption DEF InBlk, Pgs, Counters

\* The page under a write pointer is a page.
LEMMA NewPageType ==
  ASSUME NEW w \in WritePointer
  PROVE  NewPage(w) \in Pages
BY DEF NewPage, WritePointer, Pages, Slots

LEMMA PageParts ==
  ASSUME NEW p \in Pages
  PROVE  p[1] \in Lines /\ p[2] \in Slots /\ p = <<p[1], p[2]>>
BY DEF Pages

\* The zero counter starts an empty line.
LEMMA ZeroPg == <<0, 0>> \in Pgs /\ <<0, 0>> \in Counters
BY GeometryAssumption DEF Pgs, Counters

LEMMA DieZero == 0 \in Dies
<1>1. NrChs * LunsPerCh >= 1
  BY GeometryAssumption
<1>2. NrChs * LunsPerCh \in Int
  BY GeometryAssumption
<1> QED BY <1>1, <1>2 DEF Dies

\* A line has finitely many pages, and at least one.
LEMMA SlotsFinite ==
  /\ IsFiniteSet(Slots)
  /\ PgsPerLine \in Int
  /\ PgsPerLine >= 1
<1>1. IsFiniteSet(Dies)
  <2>1. 0 \in Int /\ NrChs * LunsPerCh - 1 \in Int
    BY GeometryAssumption
  <2> QED BY <2>1, FS_Interval DEF Dies
<1>2. IsFiniteSet(0 .. WlsPerBlk - 1) /\ IsFiniteSet(0 .. PgsPerOneshot - 1)
  BY FS_Interval, GeometryAssumption
<1>3. IsFiniteSet(Pgs)
  BY <1>2, FS_Product DEF Pgs
<1>4. IsFiniteSet(Slots)
  BY <1>1, <1>3, FS_Product DEF Slots
<1>5. <<0, <<0, 0>>>> \in Slots
  BY DieZero, ZeroPg DEF Slots
<1>6. PgsPerLine \in Nat
  BY <1>4, FS_CardinalityType DEF PgsPerLine
<1>7. PgsPerLine # 0
  BY <1>4, <1>5, FS_EmptySet DEF PgsPerLine
<1> QED BY <1>4, <1>6, <1>7

-----------------------------------------------------------------------------
(***************************************************************************)
(* Type correctness.                                                       *)
(***************************************************************************)
LEMMA TypeInit == Init => TypeOK
<1> SUFFICES ASSUME Init PROVE TypeOK
  OBVIOUS
<1>1. free \in Seq(Lines)
  BY GeometryAssumption DEF Init, Lines
<1>2. wp \in WritePointer /\ gc_wp \in WritePointer
  BY DieZero, ZeroPg, GeometryAssumption DEF Init, WritePointer, Lines
<1>3. PgsPerLine \in Int
  BY SlotsFinite
<1> QED
  BY <1>1, <1>2, <1>3, ZeroPg, DieZero DEF Init, TypeOK, PCs, Writers

LEMMA TypeStep == TypeOK /\ [Next]_vars => TypeOK'
<1> SUFFICES ASSUME TypeOK, [Next]_vars PROVE TypeOK'
  OBVIOUS
<1> USE DEF mapVars, lineVars, wfcVars, gcVars, reqVars
<1>1. ASSUME NEW l \in Lpns, NEW w \in Writers, WritePage(l, w) PROVE TypeOK'
  <2>1. CASE maptbl[l] # UNMAPPED
    <3>1. maptbl[l] \in Pages /\ maptbl[l][1] \in Lines
      BY <2>1, PageParts DEF TypeOK
    <3>2. InvalidateOld(maptbl[l])
      BY <1>1, <2>1 DEF WritePage
    <3>3. /\ status' \in [Pages -> {"FREE", "VALID", "INVALID"}]
          /\ rmap' \in [Pages -> Lpns \cup {UNMAPPED}]
          /\ full' \in SUBSET Lines /\ victim' \in SUBSET Lines
      BY <3>1, <3>2 DEF InvalidateOld, TypeOK
    <3>4. vpc' \in [Lines -> Int] /\ ipc' \in [Lines -> Int]
      BY <3>1, <3>2 DEF InvalidateOld, TypeOK
    <3> QED BY <1>1, <3>3, <3>4 DEF TypeOK, WritePage, PCs, Writers
  <2>2. CASE maptbl[l] = UNMAPPED
    BY <1>1, <2>2 DEF TypeOK, WritePage, PCs, Writers
  <2> QED BY <2>1, <2>2
<1>2. ASSUME ProgramPage PROVE TypeOK'
  <2>1. NewPage(wp) \in Pages /\ NewPage(wp)[1] \in Lines
    BY NewPageType, PageParts DEF TypeOK
  <2> QED BY <1>2, <2>1 DEF TypeOK, ProgramPage, Map, PCs, Writers
<1>3. ASSUME pc = "advance"
      PROVE  /\ UserCounter \in [Dies -> Counters]
             /\ wp.die \in Dies /\ wp.pg \in Pgs /\ wp.line \in Lines
             /\ wp = [line |-> wp.line, die |-> wp.die, pg |-> wp.pg]
  <2>1. wp.die \in Dies /\ wp.pg \in Pgs /\ wp.line \in Lines
    BY DEF TypeOK, WritePointer
  <2>2. page_counter[wp.die] = wp.pg
    BY <1>3 DEF TypeOK
  <2>3. UserCounter \in [Dies -> Counters]
    BY <2>1, <2>2, NextPgType DEF TypeOK, UserCounter
  <2> QED BY <2>1, <2>3 DEF TypeOK, WritePointer
<1>31. ASSUME pc = "advance", ConsumeCredit
       PROVE  credits' \in Int /\ refill' \in Int /\ pc' \in {"idle", "refill"}
  BY <1>31 DEF ConsumeCredit, TypeOK
<1>32. ASSUME NEW i \in Lines, RetireLine(i)
       PROVE  full' \in SUBSET Lines /\ victim' \in SUBSET Lines
  BY <1>32 DEF RetireLine, TypeOK
<1>33. ASSUME UserStay PROVE TypeOK'
  <2> DEFINE next == UserCounter[wp.die]
  <2>1. pc = "advance" /\ ConsumeCredit /\ InBlk(next)
    BY <1>33 DEF UserStay
  <2>2. next \in Pgs
    BY <1>3, <2>1, CounterInBlk
  <2>3. wp' = [line |-> wp.line, die |-> wp.die, pg |-> next]
    BY <1>33, <2>1, <1>3 DEF UserStay
  <2>4. wp' \in WritePointer /\ wp'.pg = UserCounter[wp'.die]
    BY <2>3, <2>2, <2>1, <1>3 DEF WritePointer
  <2> QED BY <1>33, <2>1, <2>4, <1>3, <1>31
          DEF UserStay, EndOfRequest, TypeOK, PCs, Writers
<1>34. ASSUME NEW d \in Dies, UserNextDie(d) PROVE TypeOK'
  <2>1. pc = "advance" /\ ConsumeCredit
    BY <1>34 DEF UserNextDie
  <2>2. UserCounter[d] \in Pgs
    BY <1>34, <1>3, <2>1, CounterInBlk DEF UserNextDie, NextDie
  <2>3. wp' = [line |-> wp.line, die |-> d, pg |-> UserCounter[d]]
    BY <1>34, <2>1, <1>3 DEF UserNextDie
  <2>4. wp' \in WritePointer /\ wp'.pg = UserCounter[wp'.die]
    BY <2>3, <2>2, <2>1, <1>3 DEF WritePointer
  <2> QED BY <1>34, <2>1, <2>4, <1>3, <1>31
          DEF UserNextDie, EndOfRequest, TypeOK, PCs, Writers
<1>35. ASSUME UserNextLine PROVE TypeOK'
  <2>1. pc = "advance" /\ RetireLine(wp.line) /\ wp.line \in Lines
    BY <1>35, <1>3 DEF UserNextLine
  <2>2. page_counter' \in [Dies -> Counters]
    BY <1>35, ZeroPg DEF UserNextLine
  <2>3. full' \in SUBSET Lines /\ victim' \in SUBSET Lines
    BY <2>1, <1>32
  <2>4. CASE free = << >>
    BY <1>35, <2>1, <2>2, <2>3, <2>4
       DEF UserNextLine, EndOfRequest, TypeOK, PCs, Writers
  <2>5. CASE free # << >>
    <3>1. Head(free) \in Lines /\ Tail(free) \in Seq(Lines)
      BY <2>5 DEF TypeOK
    <3>2. wp' = [line |-> Head(free), die |-> 0, pg |-> <<0, 0>>]
      BY <1>35, <2>5 DEF UserNextLine
    <3>3. wp' \in WritePointer /\ page_counter'[wp'.die] = wp'.pg
      BY <1>35, <3>1, <3>2, ZeroPg, DieZero DEF WritePointer, UserNextLine
    <3>4. ConsumeCredit /\ free' = Tail(free)
      BY <1>35, <2>5 DEF UserNextLine
    <3> QED BY <1>35, <2>1, <2>2, <2>3, <3>1, <3>3, <3>4, <1>31
            DEF UserNextLine, EndOfRequest, TypeOK, PCs, Writers
  <2> QED BY <2>4, <2>5
<1>4. ASSUME RefillOnly PROVE TypeOK'
  BY <1>4 DEF TypeOK, RefillOnly, PCs, Writers
<1>5. ASSUME NEW i \in victim, SelectVictim(i) PROVE TypeOK'
  BY <1>5 DEF TypeOK, SelectVictim, PCs, Writers
<1>6. ASSUME NEW s \in todo, GcSkip(s) PROVE TypeOK'
  BY <1>6 DEF TypeOK, GcSkip, LeaveSlot, EraseBlk, PCs, Writers
<1>7. ASSUME NEW s \in todo, GcCopy(s) PROVE TypeOK'
  <2>1. NewPage(gc_wp) \in Pages /\ NewPage(gc_wp)[1] \in Lines
    BY NewPageType, PageParts DEF TypeOK
  <2>2. <<gcline, s>> \in Pages
    BY <1>7 DEF GcCopy, TypeOK, Pages
  <2>3. /\ maptbl' \in [Lpns -> Pages \cup {UNMAPPED}]
        /\ rmap' \in [Pages -> Lpns \cup {UNMAPPED}]
        /\ status' \in [Pages -> {"FREE", "VALID", "INVALID"}]
    BY <1>7, <2>1, <2>2 DEF TypeOK, GcCopy, Map
  <2>4. vpc' \in [Lines -> Int]
    BY <1>7, <2>1 DEF TypeOK, GcCopy, Map
  <2> QED BY <1>7, <2>3, <2>4 DEF TypeOK, GcCopy, PCs, Writers
<1>80. ASSUME NEW s \in todo, LeaveSlot(s), pc = "gcadvance"
       PROVE  /\ status' \in [Pages -> {"FREE", "VALID", "INVALID"}]
              /\ todo' \in SUBSET Slots
              /\ pc' = "gc"
  BY <1>80 DEF LeaveSlot, EraseBlk, TypeOK
<1>81. /\ gc_wp.die \in Dies /\ gc_wp.pg \in Pgs /\ gc_wp.line \in Lines
       /\ gc_wp = [line |-> gc_wp.line, die |-> gc_wp.die, pg |-> gc_wp.pg]
  BY DEF TypeOK, WritePointer
<1>82. ASSUME NEW s \in todo, GcWithinLine(s) PROVE TypeOK'
  <2>1. pc = "gcadvance" /\ LeaveSlot(s)
    BY <1>82 DEF GcWithinLine
  <2>2. gc_wp' \in WritePointer
    <3>1. NextPg(gc_wp.pg)[2] # 0 => NextPg(gc_wp.pg) \in Pgs
      BY <1>81, GeometryAssumption DEF Pgs, NextPg
    <3>2. InBlk(NextPg(gc_wp.pg)) => NextPg(gc_wp.pg) \in Pgs
      BY <1>81, NextPgType
    <3>3. <<gc_wp.pg[1], 0>> \in Pgs
      BY <1>81, GeometryAssumption DEF Pgs
    <3> QED BY <1>82, <1>81, <3>1, <3>2, <3>3, DieZero DEF GcWithinLine, WritePointer
  <2> QED BY <1>82, <2>1, <2>2, <1>80 DEF GcWithinLine, GcAdvanced, TypeOK, PCs
<1>83. ASSUME NEW s \in todo, GcNextLine(s) PROVE TypeOK'
  <2>1. pc = "gcadvance" /\ RetireLine(gc_wp.line)
    BY <1>83 DEF GcNextLine
  <2>3. full' \in SUBSET Lines /\ victim' \in SUBSET Lines
    BY <2>1, <1>32, <1>81
  <2>4. CASE free = << >>
    BY <1>83, <2>1, <2>3, <2>4 DEF GcNextLine, GcAdvanced, TypeOK, PCs
  <2>5. CASE free # << >>
    <3>1. Head(free) \in Lines /\ Tail(free) \in Seq(Lines)
      BY <2>5 DEF TypeOK
    <3>2. gc_wp' \in WritePointer
      BY <1>83, <2>5, <3>1, ZeroPg, DieZero, SMTT(30) DEF WritePointer, GcNextLine
    <3>4. LeaveSlot(s) /\ free' = Tail(free)
      BY <1>83, <2>5 DEF GcNextLine
    <3>5. UNCHANGED <<maptbl, rmap, vpc, ipc, wp, page_counter, credits, refill,
                      gcline, cur, writer>>
      BY <1>83 DEF GcNextLine, GcAdvanced, mapVars, wfcVars, reqVars
    <3> QED BY <2>1, <2>3, <3>1, <3>2, <3>4, <3>5, <1>80 DEF TypeOK, PCs
  <2> QED BY <2>4, <2>5
<1>9. ASSUME GcDone PROVE TypeOK'
  BY <1>9 DEF TypeOK, GcDone, PCs, Writers
<1>10. CASE UNCHANGED vars
  BY <1>10 DEF TypeOK, vars
<1> QED
  BY <1>1, <1>2, <1>33, <1>34, <1>35, <1>4, <1>5, <1>6, <1>7, <1>82, <1>83,
     <1>9, <1>10 DEF Next

(***************************************************************************)
(* The FTL's state keeps its type: write pointers stay inside a line and a *)
(* block (the check_addr assertions), page_counter inside the block, and   *)
(* the user pointer agrees with page_counter between requests.             *)
(***************************************************************************)
THEOREM TypeCorrect == Spec => []TypeOK
BY TypeInit, TypeStep, PTL DEF Spec

-----------------------------------------------------------------------------
(***************************************************************************)
(* Counting the pages of a line.                                           *)
(***************************************************************************)
LEMMA CardSlots ==
  ASSUME NEW S \in SUBSET Slots
  PROVE  /\ IsFiniteSet(S)
         /\ Cardinality(S) \in Nat
         /\ Cardinality(S) <= PgsPerLine
         /\ Cardinality(S) = PgsPerLine <=> S = Slots
BY SlotsFinite, FS_Subset, FS_CardinalityType DEF PgsPerLine

LEMMA CardAdd ==
  ASSUME NEW S \in SUBSET Slots, NEW s \in Slots, s \notin S
  PROVE  Cardinality(S \cup {s}) = Cardinality(S) + 1
BY CardSlots, FS_AddElement

LEMMA CardRemove ==
  ASSUME NEW S \in SUBSET Slots, NEW s \in S
  PROVE  Cardinality(S \ {s}) = Cardinality(S) - 1
BY CardSlots, FS_RemoveElement

\* Two disjoint sets of slots together.
LEMMA CardTwo ==
  ASSUME NEW S \in SUBSET Slots, NEW T \in SUBSET Slots, S \cap T = {}
  PROVE  /\ Cardinality(S) + Cardinality(T) \in Nat
         /\ Cardinality(S) + Cardinality(T) <= PgsPerLine
         /\ Cardinality(S) + Cardinality(T) = PgsPerLine <=> S \cup T = Slots
<1>1. IsFiniteSet(S) /\ IsFiniteSet(T)
  BY CardSlots
<1>2. Cardinality(S \cup T)
        = Cardinality(S) + Cardinality(T) - Cardinality(S \cap T)
  BY <1>1, FS_Union
<1>3. Cardinality(S \cap T) = 0
  BY FS_EmptySet
<1>4. Cardinality(S) \in Nat /\ Cardinality(T) \in Nat
  BY CardSlots
<1>5. Cardinality(S \cup T) = Cardinality(S) + Cardinality(T)
  BY <1>2, <1>3, <1>4
<1>6. S \cup T \in SUBSET Slots
  OBVIOUS
<1> QED BY <1>4, <1>5, <1>6, CardSlots

(***************************************************************************)
(* What the counters of a line say about its pages.                        *)
(***************************************************************************)
LEMMA CountsOfLine ==
  ASSUME TypeOK, LineCounts, NEW i \in Lines, i # gcline
  PROVE  /\ vpc[i] \in 0 .. PgsPerLine
         /\ ipc[i] \in 0 .. PgsPerLine
         /\ vpc[i] + ipc[i] <= PgsPerLine
         /\ vpc[i] = PgsPerLine <=> \A s \in Slots : status[<<i, s>>] = "VALID"
         /\ vpc[i] + ipc[i] = PgsPerLine <=>
               \A s \in Slots : status[<<i, s>>] # "FREE"
         /\ ipc[i] > 0 <=> \E s \in Slots : status[<<i, s>>] = "INVALID"
<1> DEFINE V == PagesWith(i, "VALID")
           I == PagesWith(i, "INVALID")
<1>1. V \in SUBSET Slots /\ I \in SUBSET Slots /\ V \cap I = {}
  BY DEF PagesWith
<1>2. vpc[i] = Cardinality(V) /\ ipc[i] = Cardinality(I)
  BY DEF LineCounts
<1>3. V = Slots <=> \A s \in Slots : status[<<i, s>>] = "VALID"
  BY DEF PagesWith
<1>4. V \cup I = Slots <=> \A s \in Slots : status[<<i, s>>] # "FREE"
  <2>1. \A s \in Slots : status[<<i, s>>] \in {"FREE", "VALID", "INVALID"}
    BY DEF TypeOK, Pages
  <2> QED BY <2>1 DEF PagesWith
<1>5. I = {} <=> ~\E s \in Slots : status[<<i, s>>] = "INVALID"
  BY DEF PagesWith
<1>6. Cardinality(I) = 0 <=> I = {}
  BY <1>1, CardSlots, FS_EmptySet
<1> HIDE DEF V, I
<1>7. Cardinality(V) \in Nat /\ Cardinality(I) \in Nat /\ PgsPerLine \in Int
  BY <1>1, CardSlots, SlotsFinite
<1>8. Cardinality(V) <= PgsPerLine /\ Cardinality(I) <= PgsPerLine
  BY <1>1, CardSlots
<1>9. Cardinality(V) = PgsPerLine <=> V = Slots
  BY <1>1, CardSlots
<1>10. /\ Cardinality(V) + Cardinality(I) <= PgsPerLine
       /\ Cardinality(V) + Cardinality(I) = PgsPerLine <=> V \cup I = Slots
  BY <1>1, CardTwo
<1> QED
  BY <1>2, <1>3, <1>4, <1>5, <1>6, <1>7, <1>8, <1>9, <1>10

(***************************************************************************)
(* The status of one page p changes to x: the sets of pages of its line    *)
(* change accordingly, those of the other lines do not.                    *)
(***************************************************************************)
LEMMA StatusSet ==
  ASSUME TypeOK, NEW i \in Lines, NEW s \in Slots,
         NEW x \in {"FREE", "VALID", "INVALID"},
         NEW old \in {"FREE", "VALID", "INVALID"},
         status[<<i, s>>] = old, old # x,
         status' = [status EXCEPT ![<<i, s>>] = x]
  PROVE  /\ PagesWith(i, x)' = PagesWith(i, x) \cup {s}
         /\ s \notin PagesWith(i, x)
         /\ PagesWith(i, old)' = PagesWith(i, old) \ {s}
         /\ s \in PagesWith(i, old)
         /\ \A y : y \notin {x, old} => PagesWith(i, y)' = PagesWith(i, y)
         /\ \A j \in Lines, y \in {"FREE", "VALID", "INVALID"} : j # i =>
               PagesWith(j, y)' = PagesWith(j, y)
<1>1. \A j \in Lines, t \in Slots :
        status'[<<j, t>>] = IF j = i /\ t = s THEN x ELSE status[<<j, t>>]
  BY DEF TypeOK, Pages
<1>2. PagesWith(i, x)' = PagesWith(i, x) \cup {s}
  BY <1>1 DEF PagesWith
<1>3. PagesWith(i, old)' = PagesWith(i, old) \ {s}
  BY <1>1 DEF PagesWith
<1>4. \A y : y \notin {x, old} => PagesWith(i, y)' = PagesWith(i, y)
  BY <1>1 DEF PagesWith
<1>5. \A j \in Lines, y \in {"FREE", "VALID", "INVALID"} : j # i =>
        PagesWith(j, y)' = PagesWith(j, y)
  BY <1>1 DEF PagesWith
<1> QED BY <1>2, <1>3, <1>4, <1>5 DEF PagesWith

-----------------------------------------------------------------------------
(***************************************************************************)
(* The free list: what taking its head and appending a line do to it.      *)
(***************************************************************************)
Distinct(f) == \A j, k \in DOMAIN f : j # k => f[j] # f[k]

LEMMA TakeHead ==
  ASSUME free \in Seq(Lines), free # << >>, Distinct(free), free' = Tail(free)
  PROVE  /\ Head(free) \in Lines
         /\ InFree(Head(free))
         /\ \A i : InFree(i)' <=> InFree(i) /\ i # Head(free)
         /\ Distinct(free')
         /\ Len(free') = Len(free) - 1
<1>1. /\ Len(free) \in Nat /\ Len(free) > 0 /\ DOMAIN free = 1 .. Len(free)
      /\ Len(Tail(free)) = Len(free) - 1
      /\ DOMAIN Tail(free) = 1 .. Len(free) - 1
      /\ \A k \in 1 .. Len(free) - 1 : Tail(free)[k] = free[k + 1]
      /\ Head(free) = free[1]
  OBVIOUS
<1>2. \A i : InFree(i)' => InFree(i) /\ i # Head(free)
  BY <1>1 DEF InFree, Distinct
<1>3. ASSUME NEW i, InFree(i), i # Head(free) PROVE InFree(i)'
  <2>1. PICK k \in 1 .. Len(free) : free[k] = i
    BY <1>1, <1>3 DEF InFree
  <2>2. k - 1 \in 1 .. Len(free) - 1 /\ Tail(free)[k - 1] = i
    BY <1>1, <1>3, <2>1
  <2> QED BY <1>1, <2>2 DEF InFree
<1>4. Distinct(free')
  BY <1>1 DEF Distinct
<1>5. Head(free) \in Lines
  OBVIOUS
<1>6. InFree(Head(free))
  BY <1>1 DEF InFree
<1>7. \A i : InFree(i)' <=> InFree(i) /\ i # Head(free)
  BY <1>2, <1>3
<1>8. Len(free') = Len(free) - 1
  BY <1>1
<1> QED BY <1>4, <1>5, <1>6, <1>7, <1>8

LEMMA AppendLine ==
  ASSUME free \in Seq(Lines), NEW g \in Lines, Distinct(free), ~InFree(g),
         free' = Append(free, g)
  PROVE  /\ \A i : InFree(i)' <=> InFree(i) \/ i = g
         /\ Distinct(free')
         /\ Len(free') = Len(free) + 1
<1>1. /\ Len(free) \in Nat /\ DOMAIN free = 1 .. Len(free)
      /\ DOMAIN Append(free, g) = 1 .. Len(free) + 1
      /\ Len(Append(free, g)) = Len(free) + 1
      /\ \A k \in 1 .. Len(free) : Append(free, g)[k] = free[k]
      /\ Append(free, g)[Len(free) + 1] = g
  OBVIOUS
<1> QED BY <1>1 DEF InFree, Distinct

(***************************************************************************)
(* Page numbers in order.                                                  *)
(***************************************************************************)
LEMMA PassedNext ==
  ASSUME NEW pg \in Pgs, NEW c \in Pgs
  PROVE  Passed(pg, NextPg(c)) <=> Passed(pg, c) \/ pg = c
<1>1. /\ pg[1] \in Int /\ pg[2] \in Int /\ c[1] \in Int /\ c[2] \in Int
      /\ pg[2] < PgsPerOneshot /\ c[2] < PgsPerOneshot
      /\ pg[2] >= 0 /\ c[2] >= 0
      /\ PgsPerOneshot \in Int
      /\ pg = <<pg[1], pg[2]>> /\ c = <<c[1], c[2]>>
  BY GeometryAssumption DEF Pgs
<1>2. pg = c <=> pg[1] = c[1] /\ pg[2] = c[2]
  BY <1>1
<1>3. CASE c[2] + 1 = PgsPerOneshot
  BY <1>1, <1>2, <1>3 DEF NextPg, Passed
<1>4. CASE c[2] + 1 # PgsPerOneshot
  BY <1>1, <1>2, <1>4 DEF NextPg, Passed
<1> QED BY <1>3, <1>4

\* A counter outside the block has passed every page of the block.
LEMMA PassedAll ==
  ASSUME NEW pg \in Pgs, NEW c \in Counters, ~InBlk(c)
  PROVE  Passed(pg, c)
BY GeometryAssumption DEF Pgs, Counters, InBlk, Passed

LEMMA PassedNone ==
  ASSUME NEW pg \in Pgs
  PROVE  ~Passed(pg, <<0, 0>>) /\ ~Passed(pg, pg)
BY GeometryAssumption DEF Pgs, Passed

-----------------------------------------------------------------------------
(***************************************************************************)
(* Consequences of the structural invariant.                               *)
(***************************************************************************)

\* The page under a write pointer is free until it is programmed.
LEMMA PointersFree ==
  ASSUME Core, pc # "oops"
  PROVE  /\ pc # "advance" => status[NewPage(wp)] = "FREE"
         /\ pc # "gcadvance" => status[NewPage(gc_wp)] = "FREE"
<1>1. /\ wp.die \in Dies /\ wp.pg \in Pgs
      /\ gc_wp.die \in Dies /\ gc_wp.pg \in Pgs
  BY DEF Core, TypeOK, WritePointer
<1>2. pc # "advance" => ~UserPassed(wp.die, wp.pg)
  BY <1>1, PassedNone DEF Core, TypeOK, UserPassed
<1>3. pc # "gcadvance" => ~GcPassed(gc_wp.die, gc_wp.pg)
  BY <1>1, GeometryAssumption DEF GcPassed, Dies, Pgs
<1> QED BY <1>1, <1>2, <1>3 DEF Core, Frontiers, NewPage

\* Between two requests exactly the full lines have no page but valid ones.
LEMMA FullIff ==
  ASSUME Core, pc = "idle", NEW i \in Lines
  PROVE  vpc[i] = PgsPerLine <=> i \in full
<1>1. i # gcline
  BY LpnsAssumption DEF Core, TypeOK
<1>2. vpc[i] = PgsPerLine <=> \A s \in Slots : status[<<i, s>>] = "VALID"
  BY <1>1, CountsOfLine DEF Core
<1>3. i \in full => \A s \in Slots : status[<<i, s>>] = "VALID"
  BY DEF Core, ListContents
<1> DEFINE s0 == <<0, <<0, 0>>>>
<1>4. s0 \in Slots
  BY DieZero, ZeroPg DEF Slots
<1>5. InFree(i) => status[<<i, s0>>] # "VALID"
  BY <1>4 DEF Core, ListContents
<1>6. i \in victim => \E s \in Slots : status[<<i, s>>] # "VALID"
  BY DEF Core, ListContents
<1>7. /\ <<wp.die, wp.pg>> \in Slots
      /\ <<gc_wp.die, gc_wp.pg>> \in Slots
  BY DEF Core, TypeOK, WritePointer, Slots
<1>8. i = wp.line => status[<<i, <<wp.die, wp.pg>>>>] # "VALID"
  BY PointersFree DEF NewPage
<1>9. i = gc_wp.line => status[<<i, <<gc_wp.die, gc_wp.pg>>>>] # "VALID"
  BY PointersFree DEF NewPage
<1>10. InFree(i) \/ i \in full \cup victim \cup {wp.line, gc_wp.line}
  BY <1>1 DEF Core, LinePlaces, InUse
<1> QED BY <1>2, <1>3, <1>4, <1>5, <1>6, <1>7, <1>8, <1>9, <1>10

-----------------------------------------------------------------------------
(***************************************************************************)
(* The structural invariant holds initially and every action keeps it.     *)
(***************************************************************************)
LEMMA CoreInit == Init => Core
<1> SUFFICES ASSUME Init PROVE Core
  OBVIOUS
<1>1. TypeOK
  BY TypeInit
<1>2. \A i : InFree(i) <=> i \in 2 .. TtLines - 1
  <2>1. DOMAIN free = 1 .. TtLines - 2 /\ \A k \in 1 .. TtLines - 2 : free[k] = k + 1
    BY DEF Init
  <2>2. ASSUME NEW i \in 2 .. TtLines - 1 PROVE InFree(i)
    <3>1. i - 1 \in 1 .. TtLines - 2 /\ free[i - 1] = i
      BY <2>1, GeometryAssumption
    <3> QED BY <2>1, <3>1 DEF InFree
  <2>3. ASSUME NEW i, InFree(i) PROVE i \in 2 .. TtLines - 1
    BY <2>1, <2>3, GeometryAssumption DEF InFree
  <2> QED BY <2>2, <2>3
<1>3. LinePlaces
  <2>1. \A j, k \in DOMAIN free : j # k => free[j] # free[k]
    BY GeometryAssumption DEF Init
  <2>2. 0 \in Lines /\ 1 \in Lines /\ UNMAPPED \notin Lines
    BY GeometryAssumption, LpnsAssumption DEF Lines
  <2>3. \A i \in Lines : i = 0 \/ i = 1 \/ i \in 2 .. TtLines - 1
    BY GeometryAssumption DEF Lines
  <2>4. InUse = {0, 1, UNMAPPED} /\ full = {} /\ victim = {}
    BY DEF Init, InUse
  <2>5. wp.line = 0 /\ gc_wp.line = 1 /\ gcline = UNMAPPED
    BY DEF Init
  <2>6. \A i \in Lines : InFree(i) => i \notin {0, 1, UNMAPPED}
    BY <1>2, <2>2
  <2>7. \A i \in Lines : InFree(i) \/ i \in {0, 1, UNMAPPED}
    BY <1>2, <2>3
  <2> QED BY <2>1, <2>2, <2>4, <2>5, <2>6, <2>7 DEF LinePlaces
<1>4. \A i \in Lines, s \in Slots : status[<<i, s>>] = "FREE"
  BY DEF Init, Pages
<1>5. ListContents
  BY <1>4 DEF ListContents, Init
<1>6. LineCounts
  <2>1. \A i \in Lines : PagesWith(i, "VALID") = {} /\ PagesWith(i, "INVALID") = {}
    BY <1>4 DEF PagesWith
  <2> QED BY <2>1, FS_EmptySet DEF LineCounts, Init
<1>7. Frontiers
  <2>1. \A d \in Dies, pg \in Pgs : ~UserPassed(d, pg)
    BY PassedNone DEF Init, UserPassed
  <2>2. \A d \in Dies, pg \in Pgs : ~GcPassed(d, pg)
    BY GeometryAssumption DEF Init, GcPassed, Dies, Pgs
  <2>3. \A d \in Dies, pg \in Pgs : <<d, pg>> \in Slots
    BY DEF Slots
  <2>4. wp.line \in Lines /\ gc_wp.line \in Lines
    BY <1>1 DEF TypeOK, WritePointer
  <2> QED BY <1>4, <2>1, <2>2, <2>3, <2>4 DEF Frontiers
<1>8. VictimProgress
  BY DEF Init, VictimProgress
<1>9. MapConsistent
  BY DEF Init, MapConsistent
<1> QED BY <1>1, <1>3, <1>5, <1>6, <1>7, <1>8, <1>9 DEF Core

LEMMA PageLine ==
  ASSUME NEW p \in Pages
  PROVE  p[1] # UNMAPPED
BY PageParts, LpnsAssumption

LEMMA CoreWritePage ==
  ASSUME Core, NEW l \in Lpns, NEW w \in Writers, WritePage(l, w)
  PROVE  Core'
<1> USE DEF mapVars, lineVars, wfcVars, gcVars, reqVars
<1>0. TypeOK'
  BY TypeStep DEF Core, Next
<1>1. /\ pc = "idle" /\ pc' = "program" /\ cur' = l
      /\ UNCHANGED <<maptbl, free, wp, gc_wp, page_counter, credits, refill,
                     gcline, todo>>
      /\ gcline = UNMAPPED /\ todo = {}
  BY DEF WritePage, Core, TypeOK
<1>3. VictimProgress'
  BY <1>1 DEF VictimProgress
<1>4. CASE maptbl[l] = UNMAPPED
  <2>1. UNCHANGED <<status, rmap, ipc, vpc, full, victim>>
    BY <1>4 DEF WritePage
  <2>2. LinePlaces'
    BY <1>1, <2>1 DEF Core, LinePlaces, InFree, InUse
  <2>3. ListContents'
    BY <1>1, <2>1 DEF Core, ListContents, InFree
  <2>4. LineCounts'
    BY <1>1, <2>1 DEF Core, LineCounts, PagesWith
  <2>5. Frontiers'
    BY <1>1, <2>1 DEF Core, Frontiers, UserPassed, GcPassed
  <2>6. MapConsistent'
    BY <1>1, <1>4, <2>1, PageLine DEF Core, TypeOK, MapConsistent, InFlight, CopiedAway
  <2> QED BY <1>0, <1>3, <2>2, <2>3, <2>4, <2>5, <2>6 DEF Core
<1>5. CASE maptbl[l] # UNMAPPED
  <2>0. PICK p \in Pages : p = maptbl[l]
    BY <1>5 DEF Core, TypeOK
  <2>00. PICK i \in Lines, s \in Slots : p = <<i, s>>
    BY PageParts
  <2>2. status[p] = "VALID" /\ rmap[p] = l
    BY <1>1, <1>5, <2>0 DEF Core, MapConsistent, InFlight
  <2>3. /\ status' = [status EXCEPT ![p] = "INVALID"]
        /\ rmap' = [rmap EXCEPT ![p] = UNMAPPED]
        /\ ipc' = [ipc EXCEPT ![i] = @ + 1]
        /\ vpc' = [vpc EXCEPT ![i] = @ - 1]
        /\ IF vpc[i] = PgsPerLine
           THEN full' = full \ {i} /\ victim' = victim \cup {i}
           ELSE UNCHANGED <<full, victim>>
    BY <1>5, <2>0, <2>00 DEF WritePage, InvalidateOld
  <2>4. IF i \in full
        THEN full' = full \ {i} /\ victim' = victim \cup {i}
        ELSE UNCHANGED <<full, victim>>
    BY <2>3, <1>1, FullIff
  <2>5. \A j \in Lines, t \in Slots :
          status'[<<j, t>>] = IF j = i /\ t = s THEN "INVALID" ELSE status[<<j, t>>]
    BY <2>00, <2>3 DEF Core, TypeOK, Pages
  <2>6. ~InFree(i)
    BY <2>00, <2>2, <1>1 DEF Core, ListContents
  <2>7. LinePlaces'
    <3>1. \A j : InFree(j)' <=> InFree(j)
      BY <1>1 DEF InFree
    <3>2. InUse' = InUse
      BY <1>1 DEF InUse
    <3> QED BY <1>1, <2>4, <2>6, <3>1, <3>2 DEF Core, LinePlaces
  <2>8. ListContents'
    <3>0. full \in SUBSET Lines /\ victim \in SUBSET Lines
      BY DEF Core, TypeOK
    <3>1. \A j \in Lines, t \in Slots : InFree(j)' => status'[<<j, t>>] = "FREE"
      BY <1>1, <2>5, <2>6 DEF Core, ListContents, InFree
    <3>2. \A j \in full', t \in Slots : status'[<<j, t>>] = "VALID"
      <4>1. \A j \in full' : j \in full /\ j \in Lines /\ j # i
        BY <2>4, <3>0
      <4>2. \A j \in full, t \in Slots : status[<<j, t>>] = "VALID"
        BY <1>1 DEF Core, ListContents
      <4> QED BY <2>5, <4>1, <4>2
    <3>3. \A j \in victim', t \in Slots : status'[<<j, t>>] # "FREE"
      <4>1. \A j \in victim' : j \in Lines /\ (j \in victim \/ j \in full)
        BY <2>4, <3>0
      <4>2. /\ \A j \in full, t \in Slots : status[<<j, t>>] = "VALID"
            /\ \A j \in victim, t \in Slots : status[<<j, t>>] # "FREE"
        BY <1>1 DEF Core, ListContents
      <4> QED BY <2>5, <4>1, <4>2
    <3>4. \A j \in victim' : \E t \in Slots : status'[<<j, t>>] = "INVALID"
      BY <1>1, <2>4, <2>5, <3>0 DEF Core, ListContents
    <3> QED BY <3>1, <3>2, <3>3, <3>4 DEF ListContents
  <2>9. LineCounts'
    <3>1. /\ PagesWith(i, "INVALID")' = PagesWith(i, "INVALID") \cup {s}
          /\ s \notin PagesWith(i, "INVALID")
          /\ PagesWith(i, "VALID")' = PagesWith(i, "VALID") \ {s}
          /\ s \in PagesWith(i, "VALID")
          /\ \A j \in Lines, y \in {"FREE", "VALID", "INVALID"} : j # i =>
               PagesWith(j, y)' = PagesWith(j, y)
      BY <2>00, <2>2, <2>3, StatusSet DEF Core
    <3>2. vpc'[i] = vpc[i] - 1 /\ ipc'[i] = ipc[i] + 1
      BY <2>3 DEF Core, TypeOK
    <3>3. \A j \in Lines : j # i => vpc'[j] = vpc[j] /\ ipc'[j] = ipc[j]
      BY <2>3 DEF Core, TypeOK
    <3>4. /\ PagesWith(i, "INVALID") \in SUBSET Slots
          /\ PagesWith(i, "VALID") \in SUBSET Slots
      BY DEF PagesWith
    <3>5. /\ Cardinality(PagesWith(i, "VALID")') = Cardinality(PagesWith(i, "VALID")) - 1
          /\ Cardinality(PagesWith(i, "INVALID")') = Cardinality(PagesWith(i, "INVALID")) + 1
      BY <3>1, <3>4, CardAdd, CardRemove
    <3>6. i # gcline
      BY <1>1, LpnsAssumption
    <3> QED BY <1>1, <3>1, <3>2, <3>3, <3>5, <3>6 DEF Core, LineCounts
  <2>10. Frontiers'
    <3>1. \A j \in Lines, t \in Slots : status'[<<j, t>>] = "FREE" <=> status[<<j, t>>] = "FREE"
      BY <2>00, <2>2, <2>5
    <3>2. wp.line \in Lines /\ gc_wp.line \in Lines
      BY DEF Core, TypeOK, WritePointer
    <3>3. \A d \in Dies, pg \in Pgs : <<d, pg>> \in Slots
      BY DEF Slots
    <3> QED BY <1>1, <3>1, <3>2, <3>3 DEF Core, Frontiers, UserPassed, GcPassed
  <2>11. MapConsistent'
    <3>1. \A q \in Pages : status'[q] = IF q = p THEN "INVALID" ELSE status[q]
      BY <2>3 DEF Core, TypeOK
    <3>2. \A q \in Pages : rmap'[q] = IF q = p THEN UNMAPPED ELSE rmap[q]
      BY <2>3 DEF Core, TypeOK
    <3>3. \A m \in Lpns : maptbl[m] \in Pages \cup {UNMAPPED}
      BY DEF Core, TypeOK
    <3>4. \A m \in Lpns : maptbl[m] # UNMAPPED =>
            status[maptbl[m]] = "VALID" /\ rmap[maptbl[m]] = m
      BY <1>1 DEF Core, MapConsistent, InFlight
    <3>5. \A q \in Pages : status[q] = "VALID" => rmap[q] \in Lpns /\ maptbl[rmap[q]] = q
      BY <1>1, PageLine DEF Core, MapConsistent, CopiedAway
    <3>6. \A m \in Lpns : maptbl[m] # UNMAPPED /\ m # l =>
            status'[maptbl[m]] = "VALID" /\ rmap'[maptbl[m]] = m
      BY <2>2, <3>1, <3>2, <3>3, <3>4
    <3>7. \A q \in Pages : status'[q] = "VALID" => rmap'[q] \in Lpns /\ maptbl[rmap'[q]] = q
      BY <3>1, <3>2, <3>5
    <3>8. status'[maptbl[l]] = "INVALID"
      BY <2>0, <3>1
    <3> QED BY <1>1, <3>3, <3>6, <3>7, <3>8, PageLine DEF MapConsistent, InFlight, CopiedAway
  <2> QED BY <1>0, <1>3, <2>7, <2>8, <2>9, <2>10, <2>11 DEF Core
<1> QED BY <1>4, <1>5

(***************************************************************************)
(* A page that was free is mapped: ProgramPage and GcCopy.                 *)
(***************************************************************************)
LEMMA MapCounts ==
  ASSUME Core, NEW w \in WritePointer, status[NewPage(w)] = "FREE",
         NEW m, Map(m, NewPage(w)), UNCHANGED <<ipc, gcline>>
  PROVE  LineCounts'
<1>0. PICK i \in Lines, s \in Slots : NewPage(w) = <<i, s>>
  BY NewPageType, PageParts
<1>1. /\ PagesWith(i, "VALID")' = PagesWith(i, "VALID") \cup {s}
      /\ s \notin PagesWith(i, "VALID")
      /\ PagesWith(i, "INVALID")' = PagesWith(i, "INVALID")
      /\ \A j \in Lines, y \in {"FREE", "VALID", "INVALID"} : j # i =>
           PagesWith(j, y)' = PagesWith(j, y)
  <2>1. status[<<i, s>>] = "FREE" /\ status' = [status EXCEPT ![<<i, s>>] = "VALID"]
    BY <1>0 DEF Map
  <2>2. TypeOK /\ "FREE" # "VALID" /\ "INVALID" \notin {"VALID", "FREE"}
    BY DEF Core
  <2> HIDE <1>0
  <2> QED BY <2>1, <2>2, StatusSet
<1>2. vpc'[i] = vpc[i] + 1 /\ \A j \in Lines : j # i => vpc'[j] = vpc[j]
  BY <1>0 DEF Core, TypeOK, Map
<1>3. PagesWith(i, "VALID") \in SUBSET Slots
  BY DEF PagesWith
<1>4. Cardinality(PagesWith(i, "VALID")') = Cardinality(PagesWith(i, "VALID")) + 1
  BY <1>1, <1>3, CardAdd
<1> QED BY <1>1, <1>2, <1>4 DEF Core, LineCounts

\* An action that changes no list and no page of a listed line.
LEMMA ListsKept ==
  ASSUME Core, pc # "oops", UNCHANGED <<free, full, victim>>,
         \A j \in Lines, t \in Slots : InFree(j) \/ j \in full \/ j \in victim =>
            status'[<<j, t>>] = status[<<j, t>>]
  PROVE  ListContents'
<1>1. /\ \A j \in full : j \in Lines
      /\ \A j \in victim : j \in Lines
      /\ \A j \in Lines : InFree(j)' <=> InFree(j)
  BY DEF Core, TypeOK, InFree
<1>2. /\ \A j \in Lines, t \in Slots : InFree(j) => status[<<j, t>>] = "FREE"
      /\ \A j \in full, t \in Slots : status[<<j, t>>] = "VALID"
      /\ \A j \in victim, t \in Slots : status[<<j, t>>] # "FREE"
      /\ \A j \in victim : \E t \in Slots : status[<<j, t>>] = "INVALID"
  BY DEF Core, ListContents
<1>3. \A j \in Lines, t \in Slots : InFree(j)' => status'[<<j, t>>] = "FREE"
  BY <1>1, <1>2
<1>4. \A j \in Lines, t \in Slots : j \in full \/ j \in victim =>
        status'[<<j, t>>] = status[<<j, t>>]
  OBVIOUS
<1>5. full' = full /\ victim' = victim
  OBVIOUS
<1>6. ASSUME NEW j \in full, NEW t \in Slots PROVE status'[<<j, t>>] = "VALID"
  <2>1. status'[<<j, t>>] = status[<<j, t>>]
    BY <1>1, <1>4
  <2> QED BY <1>2, <2>1
<1>7. ASSUME NEW j \in victim, NEW t \in Slots PROVE status'[<<j, t>>] # "FREE"
  <2>1. status'[<<j, t>>] = status[<<j, t>>]
    BY <1>1, <1>4
  <2> QED BY <1>2, <2>1
<1>8. ASSUME NEW j \in victim PROVE \E t \in Slots : status'[<<j, t>>] = "INVALID"
  <2>1. PICK t \in Slots : status[<<j, t>>] = "INVALID"
    BY <1>2
  <2>2. status'[<<j, t>>] = status[<<j, t>>]
    BY <1>1, <1>4
  <2> QED BY <2>1, <2>2
<1> QED BY <1>3, <1>5, <1>6, <1>7, <1>8 DEF ListContents

LEMMA CoreProgramPage ==
  ASSUME Core, ProgramPage
  PROVE  Core'
<1> USE DEF mapVars, lineVars, wfcVars, gcVars, reqVars
<1>0. TypeOK'
  BY TypeStep DEF Core, Next
<1>1. /\ pc = "program" /\ pc' = "advance" /\ cur \in Lpns
      /\ Map(cur, NewPage(wp))
      /\ UNCHANGED <<ipc, free, full, victim, wp, gc_wp, page_counter, credits,
                     refill, gcline, todo, cur, writer>>
      /\ gcline = UNMAPPED /\ todo = {}
  BY DEF ProgramPage, Core, TypeOK
<1>2. /\ wp \in WritePointer /\ wp.line \in Lines /\ wp.die \in Dies /\ wp.pg \in Pgs
      /\ gc_wp.line \in Lines
  BY DEF Core, TypeOK, WritePointer
<1>3. status[NewPage(wp)] = "FREE"
  BY <1>1, PointersFree
<1>4. PICK p \in Pages : p = NewPage(wp)
  BY <1>2, NewPageType
<1>5. PICK i \in Lines, s \in Slots : /\ p = <<i, s>> /\ i = wp.line
                                     /\ s = <<wp.die, wp.pg>>
  BY <1>2, <1>4 DEF NewPage, Slots
<1>6. \A j \in Lines, t \in Slots :
        status'[<<j, t>>] = IF j = i /\ t = s THEN "VALID" ELSE status[<<j, t>>]
  BY <1>1, <1>4, <1>5 DEF Core, TypeOK, Pages, Map
<1>7. LinePlaces'
  BY <1>1 DEF Core, LinePlaces, InFree, InUse
<1>8. /\ ~InFree(i) /\ i \notin full /\ i \notin victim /\ i # gc_wp.line
  BY <1>1, <1>5 DEF Core, LinePlaces, InUse
<1>9. ListContents'
  BY <1>1, <1>6, <1>8, ListsKept
<1>10. LineCounts'
  BY <1>1, <1>2, <1>3, MapCounts
<1>11. Frontiers'
  <2>1. \A d \in Dies, pg \in Pgs : <<d, pg>> \in Slots
    BY DEF Slots
  <2>2. ASSUME NEW d \in Dies, NEW pg \in Pgs
        PROVE  status'[<<wp.line, <<d, pg>>>>] = "FREE" <=> ~UserPassed(d, pg)'
    <3>1. status[<<wp.line, <<d, pg>>>>] = "FREE" <=> ~Passed(pg, page_counter[d])
      BY <1>1 DEF Core, Frontiers, UserPassed
    <3>2. UserPassed(d, pg)' <=> Passed(pg, page_counter[d]) \/ (d = wp.die /\ pg = wp.pg)
      BY <1>1 DEF UserPassed, Passed
    <3>3. status'[<<wp.line, <<d, pg>>>>]
            = IF <<d, pg>> = s THEN "VALID" ELSE status[<<wp.line, <<d, pg>>>>]
      BY <1>2, <1>5, <1>6, <2>1
    <3>4. <<d, pg>> = s <=> d = wp.die /\ pg = wp.pg
      BY <1>5
    <3> QED BY <3>1, <3>2, <3>3, <3>4
  <2>3. ASSUME NEW d \in Dies, NEW pg \in Pgs
        PROVE  status'[<<gc_wp.line, <<d, pg>>>>] = "FREE" <=> ~GcPassed(d, pg)'
    <3>1. status'[<<gc_wp.line, <<d, pg>>>>] = status[<<gc_wp.line, <<d, pg>>>>]
      BY <1>2, <1>6, <1>8, <2>1
    <3>2. GcPassed(d, pg)' <=> GcPassed(d, pg)
      BY <1>1 DEF GcPassed
    <3> QED BY <1>1, <3>1, <3>2 DEF Core, Frontiers
  <2> QED BY <1>1, <2>2, <2>3 DEF Frontiers
<1>12. VictimProgress'
  BY <1>1 DEF VictimProgress
<1>13. MapConsistent'
  <2>1. /\ \A q \in Pages : status'[q] = IF q = p THEN "VALID" ELSE status[q]
        /\ \A q \in Pages : rmap'[q] = IF q = p THEN cur ELSE rmap[q]
        /\ \A m \in Lpns : maptbl'[m] = IF m = cur THEN p ELSE maptbl[m]
    BY <1>1, <1>4 DEF Core, TypeOK, Map
  <2>2. \A m \in Lpns : maptbl[m] \in Pages \cup {UNMAPPED}
    BY DEF Core, TypeOK
  <2>3. \A m \in Lpns : maptbl[m] # UNMAPPED /\ m # cur =>
          status[maptbl[m]] = "VALID" /\ rmap[maptbl[m]] = m
    BY <1>1 DEF Core, MapConsistent, InFlight
  <2>4. maptbl[cur] # UNMAPPED => status[maptbl[cur]] = "INVALID"
    BY <1>1 DEF Core, MapConsistent, InFlight
  <2>5. \A q \in Pages : status[q] = "VALID" => rmap[q] \in Lpns /\ maptbl[rmap[q]] = q
    BY <1>1, PageLine DEF Core, MapConsistent, CopiedAway
  <2>6. \A m \in Lpns : maptbl'[m] # UNMAPPED =>
          maptbl'[m] \in Pages /\ status'[maptbl'[m]] = "VALID" /\ rmap'[maptbl'[m]] = m
    BY <1>1, <1>3, <1>4, <2>1, <2>2, <2>3
  <2>7. \A q \in Pages : status'[q] = "VALID" => rmap'[q] \in Lpns /\ maptbl'[rmap'[q]] = q
    BY <1>1, <1>3, <1>4, <2>1, <2>4, <2>5, LpnsAssumption
  <2> QED BY <1>1, <2>6, <2>7, PageLine DEF MapConsistent, InFlight, CopiedAway
<1> QED BY <1>0, <1>7, <1>9, <1>10, <1>11, <1>12, <1>13 DEF Core

(***************************************************************************)
(* A step that leaves tables and pages alone, outside of a collection.     *)
(***************************************************************************)
LEMMA MapsKept ==
  ASSUME Core, pc # "program", pc' # "program", gcline = UNMAPPED,
         UNCHANGED <<maptbl, rmap, status, gcline>>
  PROVE  MapConsistent'
<1>1. \A m \in Lpns : maptbl[m] \in Pages \cup {UNMAPPED}
  BY DEF Core, TypeOK
<1>2. \A m \in Lpns : maptbl[m] # UNMAPPED =>
        status[maptbl[m]] = "VALID" /\ rmap[maptbl[m]] = m
  BY DEF Core, MapConsistent, InFlight
<1>3. \A q \in Pages : status[q] = "VALID" => rmap[q] \in Lpns /\ maptbl[rmap[q]] = q
  BY PageLine DEF Core, MapConsistent, CopiedAway
<1> QED BY <1>1, <1>2, <1>3, PageLine DEF MapConsistent, InFlight, CopiedAway

(***************************************************************************)
(* The user pointer moves within its line: UserStay and UserNextDie.       *)
(***************************************************************************)
LEMMA CoreUserMove ==
  ASSUME Core, TypeOK', pc = "advance", pc' \in {"idle", "refill"},
         page_counter' = UserCounter, wp'.line = wp.line,
         UNCHANGED <<maptbl, rmap, status, vpc, ipc, free, full, victim, gc_wp,
                     gcline, todo>>
  PROVE  Core'
<1>1. gcline = UNMAPPED
  BY DEF Core, TypeOK
<1>2. LinePlaces'
  BY DEF Core, LinePlaces, InFree, InUse
<1>3. ListContents'
  BY DEF Core, ListContents, InFree
<1>4. LineCounts'
  BY DEF Core, LineCounts, PagesWith
<1>5. ASSUME NEW d \in Dies, NEW pg \in Pgs
      PROVE  /\ UserPassed(d, pg)' <=> UserPassed(d, pg)
             /\ GcPassed(d, pg)' <=> GcPassed(d, pg)
  <2>1. /\ wp.die \in Dies /\ wp.pg \in Pgs /\ page_counter[wp.die] = wp.pg
        /\ page_counter \in [Dies -> Counters]
    BY DEF Core, TypeOK, WritePointer
  <2>2. page_counter'[d] = IF d = wp.die THEN NextPg(wp.pg) ELSE page_counter[d]
    BY <2>1 DEF UserCounter
  <2>3. UserPassed(d, pg)' <=> Passed(pg, page_counter'[d])
    BY DEF UserPassed, Passed
  <2>4. Passed(pg, NextPg(wp.pg)) <=> Passed(pg, wp.pg) \/ pg = wp.pg
    BY <2>1, PassedNext
  <2>5. UserPassed(d, pg)' <=> UserPassed(d, pg)
    BY <2>1, <2>2, <2>3, <2>4 DEF UserPassed
  <2>6. GcPassed(d, pg)' <=> GcPassed(d, pg)
    BY DEF GcPassed
  <2> QED BY <2>5, <2>6
<1>6. Frontiers'
  <2>1. \A d \in Dies, pg \in Pgs :
          /\ status[<<wp.line, <<d, pg>>>>] = "FREE" <=> ~UserPassed(d, pg)
          /\ status[<<gc_wp.line, <<d, pg>>>>] = "FREE" <=> ~GcPassed(d, pg)
    BY DEF Core, Frontiers
  <2>2. status' = status /\ wp'.line = wp.line /\ gc_wp' = gc_wp
    OBVIOUS
  <2> QED BY <1>5, <2>1, <2>2 DEF Frontiers
<1>7. VictimProgress'
  BY DEF VictimProgress
<1>8. MapConsistent'
  BY <1>1, MapsKept
<1> QED BY <1>2, <1>3, <1>4, <1>6, <1>7, <1>8 DEF Core

LEMMA CoreUserStay == ASSUME Core, UserStay PROVE Core'
<1>1. TypeOK'
  BY TypeStep DEF Core, Next
<1>2. wp'.line = wp.line
  BY DEF UserStay, Core, TypeOK, WritePointer
<1>3. pc' \in {"idle", "refill"}
  BY DEF UserStay, ConsumeCredit
<1> QED
  BY <1>1, <1>2, <1>3, CoreUserMove DEF UserStay, EndOfRequest, mapVars, gcVars

LEMMA CoreUserNextDie == ASSUME Core, NEW d \in Dies, UserNextDie(d) PROVE Core'
<1>1. TypeOK'
  BY TypeStep DEF Core, Next
<1>2. wp'.line = wp.line
  BY DEF UserNextDie, Core, TypeOK, WritePointer
<1>3. pc' \in {"idle", "refill"}
  BY DEF UserNextDie, ConsumeCredit
<1> QED
  BY <1>1, <1>2, <1>3, CoreUserMove DEF UserNextDie, EndOfRequest, mapVars, gcVars

(***************************************************************************)
(* A used-up line is retired to the right list.                            *)
(***************************************************************************)
LEMMA RetiredPlace ==
  ASSUME Core, pc # "oops", NEW i \in Lines, i # gcline, RetireLine(i),
         i \notin full \cup victim,
         \A t \in Slots : status[<<i, t>>] # "FREE"
  PROVE  /\ full' \cup victim' = full \cup victim \cup {i}
         /\ full' \cap victim' = {}
         /\ \A j \in full', t \in Slots : status[<<j, t>>] = "VALID"
         /\ \A j \in victim', t \in Slots : status[<<j, t>>] # "FREE"
         /\ \A j \in victim' : \E t \in Slots : status[<<j, t>>] = "INVALID"
<1>1. /\ full \cap victim = {}
      /\ \A j \in full, t \in Slots : status[<<j, t>>] = "VALID"
      /\ \A j \in victim, t \in Slots : status[<<j, t>>] # "FREE"
      /\ \A j \in victim : \E t \in Slots : status[<<j, t>>] = "INVALID"
  BY DEF Core, LinePlaces, ListContents
<1>2. vpc[i] = PgsPerLine <=> \A t \in Slots : status[<<i, t>>] = "VALID"
  BY CountsOfLine DEF Core
<1>3. CASE vpc[i] = PgsPerLine
  <2>1. full' = full \cup {i} /\ victim' = victim
    BY <1>3 DEF RetireLine
  <2> QED BY <1>1, <1>2, <1>3, <2>1
<1>4. CASE vpc[i] # PgsPerLine
  <2>1. victim' = victim \cup {i} /\ full' = full
    BY <1>4 DEF RetireLine
  <2>2. \A t \in Slots : status[<<i, t>>] \in {"FREE", "VALID", "INVALID"}
    BY DEF Core, TypeOK, Pages
  <2>3. \E t \in Slots : status[<<i, t>>] = "INVALID"
    BY <1>2, <1>4, <2>2
  <2> QED BY <1>1, <2>1, <2>3
<1> QED BY <1>3, <1>4

\* When no die has room, the line under the user pointer is used up.
LEMMA UserLineUsed ==
  ASSUME Core, UserNextLine
  PROVE  \A t \in Slots : status[<<wp.line, t>>] # "FREE"
<1>1. pc = "advance" /\ \A d \in Dies : ~InBlk(UserCounter[d])
  BY DEF UserNextLine
<1>2. /\ wp.die \in Dies /\ wp.pg \in Pgs
      /\ page_counter[wp.die] = wp.pg /\ page_counter \in [Dies -> Counters]
  BY <1>1 DEF Core, TypeOK, WritePointer
<1>3. ASSUME NEW d \in Dies, NEW pg \in Pgs PROVE UserPassed(d, pg)
  <2>1. UserCounter[d] = IF d = wp.die THEN NextPg(wp.pg) ELSE page_counter[d]
    BY <1>2 DEF UserCounter
  <2>2. UserCounter[d] \in Counters
    BY <1>2, <2>1, NextPgType
  <2>3. Passed(pg, UserCounter[d])
    BY <1>1, <2>2, PassedAll
  <2>4. Passed(pg, NextPg(wp.pg)) <=> Passed(pg, wp.pg) \/ pg = wp.pg
    BY <1>2, PassedNext
  <2> QED BY <1>1, <1>2, <2>1, <2>3, <2>4 DEF UserPassed
<1>4. \A d \in Dies, pg \in Pgs : status[<<wp.line, <<d, pg>>>>] # "FREE"
  BY <1>1, <1>3 DEF Core, Frontiers
<1> QED BY <1>4 DEF Slots

LEMMA CoreUserNextLine == ASSUME Core, UserNextLine PROVE Core'
<1> USE DEF mapVars, lineVars, wfcVars, gcVars, reqVars
<1>0. TypeOK'
  BY TypeStep DEF Core, Next
<1>1. /\ pc = "advance" /\ gcline = UNMAPPED
      /\ UNCHANGED <<maptbl, rmap, status, vpc, ipc, gc_wp, gcline, todo>>
      /\ RetireLine(wp.line)
      /\ page_counter' = [d \in Dies |-> <<0, 0>>]
      /\ \A d \in Dies : ~InBlk(UserCounter[d])
  BY DEF UserNextLine, EndOfRequest, Core, TypeOK
<1>2. pc' \in {"idle", "refill", "oops"}
  BY DEF UserNextLine, ConsumeCredit
<1>3. MapConsistent'
  BY <1>1, <1>2, MapsKept
<1>4. VictimProgress'
  BY <1>2 DEF VictimProgress
<1>5. LineCounts'
  BY <1>1 DEF Core, LineCounts, PagesWith
<1>6. CASE free = << >>
  <2>1. pc' = "oops"
    BY <1>6 DEF UserNextLine
  <2> QED
    BY <1>0, <1>3, <1>4, <1>5, <2>1
       DEF Core, LinePlaces, ListContents, Frontiers
<1>7. CASE free # << >>
  <2>1. /\ wp' = [line |-> Head(free), die |-> 0, pg |-> <<0, 0>>]
        /\ free' = Tail(free)
        /\ pc' # "oops" /\ pc' # "advance" /\ pc' # "gcadvance"
    BY <1>7 DEF UserNextLine, ConsumeCredit
  <2>2. /\ wp.line \in Lines /\ wp.die \in Dies /\ wp.pg \in Pgs
        /\ page_counter[wp.die] = wp.pg /\ page_counter \in [Dies -> Counters]
        /\ gc_wp.line \in Lines
        /\ wp.line # gcline
    BY <1>1, LpnsAssumption DEF Core, TypeOK, WritePointer
  <2>3. \A t \in Slots : status[<<wp.line, t>>] # "FREE"
    BY UserLineUsed
  <2>4. PICK i \in Lines : i = wp.line
    BY <2>2
  <2>5. PICK h \in Lines : h = Head(free)
    BY <1>7 DEF Core, TypeOK
  <2>6. /\ InFree(h)
        /\ \A j : InFree(j)' <=> InFree(j) /\ j # h
        /\ Distinct(free')
    BY <1>1, <1>7, <2>1, <2>5, TakeHead DEF Core, TypeOK, LinePlaces, Distinct
  <2>7. /\ \A j \in Lines : InFree(j) \/ j \in full \cup victim \cup {i, gc_wp.line}
        /\ \A j \in Lines : InFree(j) => j \notin full \cup victim \cup {i, gc_wp.line}
        /\ {i, gc_wp.line} \cap (full \cup victim) = {}
        /\ i # gc_wp.line
    BY <1>1, <2>4, LpnsAssumption DEF Core, LinePlaces, InUse
  <2>8. /\ full' \cup victim' = full \cup victim \cup {i}
        /\ full' \cap victim' = {}
        /\ \A j \in full', t \in Slots : status[<<j, t>>] = "VALID"
        /\ \A j \in victim', t \in Slots : status[<<j, t>>] # "FREE"
        /\ \A j \in victim' : \E t \in Slots : status[<<j, t>>] = "INVALID"
    <3>1. RetireLine(i) /\ i # gcline /\ i \notin full \cup victim
      BY <1>1, <2>2, <2>4, <2>7
    <3> QED BY <1>1, <2>3, <2>4, <3>1, RetiredPlace
  <2>9. wp'.line = h /\ gc_wp' = gc_wp /\ gcline' = UNMAPPED
    BY <1>1, <2>1, <2>5
  <2>10. LinePlaces'
    <3>1. UNMAPPED \notin Lines /\ UNMAPPED \notin full' \cup victim'
      BY <1>0, LpnsAssumption DEF TypeOK
    <3>2. InUse' = {h, gc_wp.line, UNMAPPED}
      BY <2>9 DEF InUse
    <3>3. \A j \in Lines : InFree(j)' \/ j \in full' \cup victim' \cup InUse'
      BY <2>6, <2>7, <2>8, <3>2
    <3>4. \A j \in Lines : InFree(j)' => j \notin full' \cup victim' \cup InUse'
      BY <2>6, <2>7, <2>8, <3>1, <3>2
    <3>5. InUse' \cap (full' \cup victim') = {}
      BY <2>6, <2>7, <2>8, <3>1, <3>2
    <3>6. wp'.line # gc_wp'.line /\ gcline' \notin {wp'.line, gc_wp'.line}
      BY <2>2, <2>6, <2>7, <2>9, <3>1
    <3> QED BY <2>6, <2>8, <3>3, <3>4, <3>5, <3>6 DEF LinePlaces, Distinct
  <2>11. ListContents'
    <3>1. \A j \in Lines, t \in Slots : InFree(j) => status[<<j, t>>] = "FREE"
      BY <1>1 DEF Core, ListContents
    <3>2. status' = status
      BY <1>1
    <3> QED BY <2>6, <2>8, <3>1, <3>2 DEF ListContents
  <2>12. Frontiers'
    <3>1. ASSUME NEW d \in Dies, NEW pg \in Pgs
          PROVE  /\ status'[<<wp'.line, <<d, pg>>>>] = "FREE" <=> ~UserPassed(d, pg)'
                 /\ status'[<<gc_wp'.line, <<d, pg>>>>] = "FREE" <=> ~GcPassed(d, pg)'
      <4>1. <<d, pg>> \in Slots
        BY DEF Slots
      <4>2. status[<<h, <<d, pg>>>>] = "FREE"
        BY <1>1, <2>6, <4>1 DEF Core, ListContents
      <4>3. page_counter'[d] = <<0, 0>>
        BY <1>1
      <4>4. ~UserPassed(d, pg)'
        BY <2>1, <4>3, PassedNone DEF UserPassed, Passed
      <4>5. GcPassed(d, pg)' <=> GcPassed(d, pg)
        BY <1>1, <2>1 DEF GcPassed
      <4>6. status[<<gc_wp.line, <<d, pg>>>>] = "FREE" <=> ~GcPassed(d, pg)
        BY <1>1 DEF Core, Frontiers
      <4> QED BY <1>1, <2>9, <4>2, <4>4, <4>5, <4>6
    <3> QED BY <3>1 DEF Frontiers
  <2> QED BY <1>0, <1>3, <1>4, <1>5, <2>10, <2>11, <2>12 DEF Core
<1> QED BY <1>6, <1>7

-----------------------------------------------------------------------------
(***************************************************************************)
(* Flow control and the choice of a victim.                                *)
(***************************************************************************)
LEMMA CoreRefillOnly == ASSUME Core, RefillOnly PROVE Core'
<1> USE DEF mapVars, lineVars, wfcVars, gcVars, reqVars
<1>0. TypeOK'
  BY TypeStep DEF Core, Next
<1>1. /\ pc = "refill" /\ pc' = "idle" /\ gcline = UNMAPPED
      /\ UNCHANGED <<maptbl, rmap, status, vpc, ipc, free, full, victim, wp, gc_wp,
                     page_counter, gcline, todo>>
  BY DEF RefillOnly, Core, TypeOK
<1>2. LinePlaces'
  BY <1>1 DEF Core, LinePlaces, InFree, InUse
<1>3. ListContents'
  BY <1>1 DEF Core, ListContents, InFree
<1>4. LineCounts'
  BY <1>1 DEF Core, LineCounts, PagesWith
<1>5. Frontiers'
  BY <1>1 DEF Core, Frontiers, UserPassed, GcPassed
<1>6. VictimProgress'
  BY <1>1 DEF VictimProgress
<1>7. MapConsistent'
  BY <1>1, MapsKept
<1> QED BY <1>0, <1>2, <1>3, <1>4, <1>5, <1>6, <1>7 DEF Core

LEMMA CoreSelectVictim == ASSUME Core, NEW i \in victim, SelectVictim(i) PROVE Core'
<1> USE DEF mapVars, lineVars, wfcVars, gcVars, reqVars
<1>0. TypeOK'
  BY TypeStep DEF Core, Next
<1>1. /\ pc = "refill" /\ pc' = "gc" /\ gcline = UNMAPPED
      /\ gcline' = i /\ todo' = Slots /\ victim' = victim \ {i} /\ i \in Lines
      /\ UNCHANGED <<maptbl, rmap, status, vpc, ipc, free, full, wp, gc_wp,
                     page_counter>>
  BY DEF SelectVictim, Core, TypeOK
<1>2. LinePlaces'
  <2>1. InUse' = {wp.line, gc_wp.line, i} /\ InUse = {wp.line, gc_wp.line, UNMAPPED}
    BY <1>1 DEF InUse
  <2>2. \A j : InFree(j)' <=> InFree(j)
    BY <1>1 DEF InFree
  <2>3. i \notin full /\ i # wp.line /\ i # gc_wp.line /\ ~InFree(i) /\ UNMAPPED \notin Lines
    BY <1>1, LpnsAssumption DEF Core, LinePlaces, InUse
  <2> QED BY <1>1, <2>1, <2>2, <2>3 DEF Core, LinePlaces
<1>3. ListContents'
  BY <1>1 DEF Core, ListContents, InFree
<1>4. LineCounts'
  BY <1>1, LpnsAssumption DEF Core, LineCounts, PagesWith
<1>5. Frontiers'
  BY <1>1 DEF Core, Frontiers, UserPassed, GcPassed
<1>6. VictimProgress'
  <2>1. \A t \in Slots : status[<<i, t>>] # "FREE"
    BY <1>1 DEF Core, ListContents
  <2>2. \A d \in Dies : <<d, LastPg>> \in Slots
    BY GeometryAssumption DEF Slots, Pgs, LastPg
  <2> QED BY <1>1, <2>1, <2>2 DEF VictimProgress
<1>7. MapConsistent'
  <2>1. \A m \in Lpns : maptbl[m] \in Pages \cup {UNMAPPED}
    BY DEF Core, TypeOK
  <2>2. \A m \in Lpns : maptbl[m] # UNMAPPED =>
          status[maptbl[m]] = "VALID" /\ rmap[maptbl[m]] = m
    BY <1>1 DEF Core, MapConsistent, InFlight
  <2>3. \A q \in Pages : status[q] = "VALID" => rmap[q] \in Lpns /\ maptbl[rmap[q]] = q
    BY <1>1, PageLine DEF Core, MapConsistent, CopiedAway
  <2>4. \A q \in Pages : q[2] \in todo'
    BY <1>1, PageParts
  <2>5. \A q \in Pages : ~CopiedAway(q)'
    BY <1>1, <2>4 DEF CopiedAway
  <2>6. \A m : ~InFlight(m)'
    BY <1>1 DEF InFlight
  <2>7. maptbl' = maptbl /\ rmap' = rmap /\ status' = status
    BY <1>1
  <2> QED BY <2>1, <2>2, <2>3, <2>5, <2>6, <2>7 DEF MapConsistent
<1> QED BY <1>0, <1>2, <1>3, <1>4, <1>5, <1>6, <1>7 DEF Core

-----------------------------------------------------------------------------
(***************************************************************************)
(* Collection.  The scan order is strict, so at most one slot is the next  *)
(* one, and the last page of a block is the last one of its die.           *)
(***************************************************************************)
LEMMA ScanOrder ==
  ASSUME NEW s \in Slots, NEW t \in Slots
  PROVE  /\ ~(VisitedBefore(s, t) /\ VisitedBefore(t, s))
         /\ LastOfBlk(s) /\ t[1] = s[1] => ~VisitedBefore(s, t)
<1>1. /\ s[1] \in Int /\ t[1] \in Int /\ NrChs \in Nat \ {0}
      /\ s[2][1] \in Int /\ s[2][2] \in Int /\ t[2][1] \in Int /\ t[2][2] \in Int
      /\ t[2][1] <= WlsPerBlk - 1 /\ t[2][2] <= PgsPerOneshot - 1
      /\ WlsPerBlk \in Int /\ PgsPerOneshot \in Int
  BY GeometryAssumption DEF Slots, Dies, Pgs
<1>2. /\ s[1] % NrChs \in Int /\ t[1] % NrChs \in Int
      /\ s[1] \div NrChs \in Int /\ t[1] \div NrChs \in Int
  BY <1>1
<1>3. ~(VisitedBefore(s, t) /\ VisitedBefore(t, s))
  BY <1>1, <1>2 DEF VisitedBefore
<1>4. LastOfBlk(s) /\ t[1] = s[1] => ~VisitedBefore(s, t)
  <2>1. LastOfBlk(s) => s[2][1] = WlsPerBlk - 1 /\ s[2][2] = PgsPerOneshot - 1
    BY DEF LastOfBlk, LastPg
  <2> QED BY <1>1, <1>2, <2>1 DEF VisitedBefore
<1> QED BY <1>3, <1>4

LEMMA NextUnique ==
  ASSUME TypeOK, NEW s \in todo, NEW t \in todo, NextToVisit(s), NextToVisit(t)
  PROVE  s = t
<1>1. s \in Slots /\ t \in Slots
  BY DEF TypeOK
<1>2. s # t => VisitedBefore(s, t) /\ VisitedBefore(t, s)
  BY DEF NextToVisit
<1> QED BY <1>1, <1>2, ScanOrder

(***************************************************************************)
(* Leaving slot s: only a finished block of the victim is erased.          *)
(***************************************************************************)
LEMMA LeaveEffect ==
  ASSUME Core, pc \in {"gc", "gcadvance"}, NEW s \in todo, NextToVisit(s),
         LeaveSlot(s), gcline' = gcline
  PROVE  /\ \A j \in Lines, t \in Slots :
              status'[<<j, t>>] = IF LastOfBlk(s) /\ j = gcline /\ t[1] = s[1]
                                  THEN "FREE" ELSE status[<<j, t>>]
         /\ LastOfBlk(s) => \A t \in Slots : t[1] = s[1] => t \notin todo'
         /\ VictimProgress'
<1>1. /\ gcline \in Lines /\ s \in Slots /\ todo \in SUBSET Slots
      /\ todo' = todo \ {s} /\ pc' = "gc"
      /\ status' = IF LastOfBlk(s) THEN EraseBlk(status, gcline, s[1]) ELSE status
      /\ status \in [Pages -> {"FREE", "VALID", "INVALID"}]
  BY DEF Core, TypeOK, LeaveSlot
<1>2. \A j \in Lines, t \in Slots :
        status'[<<j, t>>] = IF LastOfBlk(s) /\ j = gcline /\ t[1] = s[1]
                            THEN "FREE" ELSE status[<<j, t>>]
  <2>1. \A j \in Lines, t \in Slots : <<j, t>> \in Pages
    BY DEF Pages
  <2>2. CASE LastOfBlk(s)
    BY <1>1, <2>1, <2>2 DEF EraseBlk
  <2>3. CASE ~LastOfBlk(s)
    BY <1>1, <2>3
  <2> QED BY <2>2, <2>3
<1>3. ASSUME LastOfBlk(s), NEW t \in Slots, t[1] = s[1] PROVE t \notin todo'
  <2>1. ~VisitedBefore(s, t)
    BY <1>1, <1>3, ScanOrder
  <2>2. t \in todo \ {s} => VisitedBefore(s, t)
    BY DEF NextToVisit
  <2> QED BY <1>1, <2>1, <2>2
<1>4. VictimProgress'
  <2>1. /\ \A t \in todo : status[<<gcline, t>>] # "FREE"
        /\ \A d \in Dies, pg \in Pgs : <<d, LastPg>> \notin todo =>
              <<d, pg>> \notin todo /\ status[<<gcline, <<d, pg>>>>] = "FREE"
    BY DEF Core, VictimProgress
  <2>2. ASSUME NEW t \in todo' PROVE status'[<<gcline, t>>] # "FREE"
    <3>1. t \in Slots /\ t \in todo
      BY <1>1
    <3>2. ~(LastOfBlk(s) /\ t[1] = s[1])
      BY <1>3, <3>1
    <3>3. status'[<<gcline, t>>] = status[<<gcline, t>>]
      BY <1>1, <1>2, <3>1, <3>2
    <3> QED BY <2>1, <3>1, <3>3
  <2>3. ASSUME NEW d \in Dies, NEW pg \in Pgs, <<d, LastPg>> \notin todo'
        PROVE  <<d, pg>> \notin todo' /\ status'[<<gcline, <<d, pg>>>>] = "FREE"
    <3>1. <<d, pg>> \in Slots /\ <<d, pg>>[1] = d
      BY DEF Slots
    <3>2. CASE <<d, LastPg>> \notin todo
      BY <1>1, <1>2, <2>1, <3>1, <3>2
    <3>3. CASE <<d, LastPg>> = s
      <4>1. LastOfBlk(s) /\ s[1] = d
        BY <3>3 DEF LastOfBlk
      <4>2. <<d, pg>> \notin todo'
        BY <1>3, <3>1, <4>1
      <4>3. status'[<<gcline, <<d, pg>>>>] = "FREE"
        BY <1>1, <1>2, <3>1, <4>1
      <4> QED BY <4>2, <4>3
    <3> QED BY <1>1, <2>3, <3>2, <3>3
  <2>4. gcline' = gcline
    OBVIOUS
  <2> QED BY <2>2, <2>3, <2>4 DEF VictimProgress
<1> QED BY <1>2, <1>3, <1>4

(***************************************************************************)
(* What do_gc leaves alone when it erases: everything but the victim.      *)
(***************************************************************************)
LEMMA VictimOnly ==
  ASSUME Core, pc \in {"gc", "gcadvance"}, UNCHANGED <<vpc, ipc, gcline>>,
         \A j \in Lines, t \in Slots : j # gcline => status'[<<j, t>>] = status[<<j, t>>]
  PROVE  LineCounts'
<1>1. \A j \in Lines \ {gcline}, st \in {"VALID", "INVALID"} :
        PagesWith(j, st)' = PagesWith(j, st)
  BY DEF PagesWith
<1> QED BY <1>1 DEF Core, LineCounts

(***************************************************************************)
(* Leaving a slot whose content is dead or copied keeps the maps.          *)
(***************************************************************************)
LEMMA LeaveMaps ==
  ASSUME Core, pc \in {"gc", "gcadvance"}, NEW s \in todo, NextToVisit(s),
         LeaveSlot(s), UNCHANGED <<maptbl, rmap, gcline>>,
         pc = "gc" => status[<<gcline, s>>] # "VALID"
  PROVE  MapConsistent'
<1>1. /\ gcline \in Lines /\ s \in Slots /\ todo \in SUBSET Slots
      /\ todo' = todo \ {s} /\ pc' = "gc"
  BY DEF Core, TypeOK, LeaveSlot
<1>2. ASSUME NEW q \in Pages
      PROVE  CopiedAway(q)' <=> CopiedAway(q) \/ q = <<gcline, s>>
  <2>1. q[1] \in Lines /\ q[2] \in Slots /\ q = <<q[1], q[2]>>
    BY PageParts
  <2>2. CopiedAway(q)' <=> q[1] = gcline /\ (q[2] \notin todo \/ q[2] = s)
    BY <1>1 DEF CopiedAway
  <2>3. pc = "gc" => (CopiedAway(q) <=> q[1] = gcline /\ q[2] \notin todo)
    BY DEF CopiedAway
  <2>4. pc = "gcadvance" =>
          (CopiedAway(q) <=> q[1] = gcline /\ (q[2] \notin todo \/ q[2] = s))
    BY NextUnique DEF CopiedAway, Core
  <2>5. q = <<gcline, s>> <=> q[1] = gcline /\ q[2] = s
    BY <2>1
  <2> QED BY <2>2, <2>3, <2>4, <2>5
<1>3. ASSUME NEW q \in Pages
      PROVE  status'[q] = status[q] \/ (status'[q] = "FREE" /\ CopiedAway(q)')
  <2>1. PICK j \in Lines, t \in Slots : q = <<j, t>>
    BY PageParts
  <2>2. /\ status'[<<j, t>>] = IF LastOfBlk(s) /\ j = gcline /\ t[1] = s[1]
                               THEN "FREE" ELSE status[<<j, t>>]
        /\ LastOfBlk(s) /\ t[1] = s[1] => t \notin todo'
    BY LeaveEffect
  <2>3. j = gcline /\ t \notin todo' => CopiedAway(q)'
    BY <2>1 DEF CopiedAway
  <2> QED BY <2>1, <2>2, <2>3
<1>4. \A m \in Lpns : maptbl[m] \in Pages \cup {UNMAPPED}
  BY DEF Core, TypeOK
<1>5. \A m \in Lpns : maptbl[m] # UNMAPPED =>
        /\ status[maptbl[m]] = "VALID"
        /\ rmap[maptbl[m]] = m
        /\ ~CopiedAway(maptbl[m])
  BY DEF Core, MapConsistent, InFlight
<1>6. pc = "gcadvance" => CopiedAway(<<gcline, s>>)
  BY DEF CopiedAway
<1>7. \A m \in Lpns : maptbl[m] # UNMAPPED =>
        status'[maptbl[m]] = "VALID" /\ ~CopiedAway(maptbl[m])'
  BY <1>2, <1>3, <1>4, <1>5, <1>6
<1>8. \A q \in Pages : status'[q] = "VALID" /\ ~CopiedAway(q)' =>
        rmap[q] \in Lpns /\ maptbl[rmap[q]] = q
  BY <1>2, <1>3 DEF Core, MapConsistent
<1>9. \A m : ~InFlight(m)'
  BY <1>1 DEF InFlight
<1>10. maptbl' = maptbl /\ rmap' = rmap
  OBVIOUS
<1> QED BY <1>5, <1>7, <1>8, <1>9, <1>10 DEF MapConsistent

\* Neither the lists nor the write pointers hold the victim.
LEMMA VictimApart ==
  ASSUME Core, pc \in {"gc", "gcadvance"}
  PROVE  /\ gcline \in Lines /\ ~InFree(gcline)
         /\ gcline \notin full /\ gcline \notin victim
         /\ gcline # wp.line /\ gcline # gc_wp.line
BY DEF Core, TypeOK, LinePlaces, InUse

LEMMA CoreGcSkip == ASSUME Core, NEW s \in todo, GcSkip(s) PROVE Core'
<1> USE DEF mapVars, lineVars, wfcVars, gcVars, reqVars
<1>0. TypeOK'
  BY TypeStep DEF Core, Next
<1>1. /\ pc = "gc" /\ pc' = "gc" /\ NextToVisit(s) /\ LeaveSlot(s)
      /\ status[<<gcline, s>>] # "VALID"
      /\ UNCHANGED <<maptbl, rmap, vpc, ipc, free, full, victim, wp, gc_wp,
                     page_counter, gcline>>
  BY DEF GcSkip, LeaveSlot
<1>2. \A j \in Lines, t \in Slots : j # gcline => status'[<<j, t>>] = status[<<j, t>>]
  BY <1>1, LeaveEffect
<1>3. VictimProgress'
  BY <1>1, LeaveEffect
<1>4. MapConsistent'
  BY <1>1, LeaveMaps
<1>5. LineCounts'
  BY <1>1, <1>2, VictimOnly
<1>6. LinePlaces'
  BY <1>1 DEF Core, LinePlaces, InFree, InUse
<1>7. ListContents'
  BY <1>1, <1>2, VictimApart, ListsKept
<1>8. Frontiers'
  <2>1. \A d \in Dies, pg \in Pgs : <<d, pg>> \in Slots
    BY DEF Slots
  <2>2. wp.line \in Lines /\ gc_wp.line \in Lines
    BY DEF Core, TypeOK, WritePointer
  <2>3. \A d \in Dies, pg \in Pgs :
          /\ status'[<<wp.line, <<d, pg>>>>] = status[<<wp.line, <<d, pg>>>>]
          /\ status'[<<gc_wp.line, <<d, pg>>>>] = status[<<gc_wp.line, <<d, pg>>>>]
    BY <1>1, <1>2, <2>1, <2>2, VictimApart
  <2> QED BY <1>1, <2>3 DEF Core, Frontiers, UserPassed, GcPassed
<1> QED BY <1>0, <1>3, <1>4, <1>5, <1>6, <1>7, <1>8 DEF Core

LEMMA CoreGcCopy == ASSUME Core, NEW s \in todo, GcCopy(s) PROVE Core'
<1> USE DEF mapVars, lineVars, wfcVars, gcVars, reqVars
<1>0. TypeOK'
  BY TypeStep DEF Core, Next
<1>1. /\ pc = "gc" /\ pc' = "gcadvance" /\ NextToVisit(s)
      /\ status[<<gcline, s>>] = "VALID"
      /\ Map(rmap[<<gcline, s>>], NewPage(gc_wp))
      /\ UNCHANGED <<ipc, free, full, victim, wp, gc_wp, page_counter, gcline, todo>>
  BY DEF GcCopy
<1>2. /\ gc_wp \in WritePointer /\ gc_wp.line \in Lines /\ gc_wp.die \in Dies
      /\ gc_wp.pg \in Pgs /\ wp.line \in Lines /\ s \in Slots
  BY DEF Core, TypeOK, WritePointer
<1>3. status[NewPage(gc_wp)] = "FREE"
  BY <1>1, PointersFree
<1>4. PICK p \in Pages : p = NewPage(gc_wp)
  BY <1>2, NewPageType
<1>5. PICK i \in Lines, u \in Slots : /\ p = <<i, u>> /\ i = gc_wp.line
                                      /\ u = <<gc_wp.die, gc_wp.pg>>
  BY <1>2, <1>4 DEF NewPage, Slots
<1>6. \A j \in Lines, t \in Slots :
        status'[<<j, t>>] = IF j = i /\ t = u THEN "VALID" ELSE status[<<j, t>>]
  BY <1>1, <1>4, <1>5 DEF Core, TypeOK, Pages, Map
<1>7. LinePlaces'
  BY <1>1 DEF Core, LinePlaces, InFree, InUse
<1>8. /\ ~InFree(i) /\ i \notin full /\ i \notin victim /\ i # wp.line /\ i # gcline
  BY <1>1, <1>5 DEF Core, LinePlaces, InUse
<1>9. ListContents'
  BY <1>1, <1>6, <1>8, ListsKept
<1>10. LineCounts'
  BY <1>1, <1>2, <1>3, MapCounts
<1>11. Frontiers'
  <2>1. \A d \in Dies, pg \in Pgs : <<d, pg>> \in Slots
    BY DEF Slots
  <2>2. ASSUME NEW d \in Dies, NEW pg \in Pgs
        PROVE  status'[<<wp.line, <<d, pg>>>>] = "FREE" <=> ~UserPassed(d, pg)'
    <3>1. status'[<<wp.line, <<d, pg>>>>] = status[<<wp.line, <<d, pg>>>>]
      BY <1>2, <1>6, <1>8, <2>1
    <3>2. UserPassed(d, pg)' <=> UserPassed(d, pg)
      BY <1>1 DEF UserPassed, Passed
    <3> QED BY <1>1, <3>1, <3>2 DEF Core, Frontiers
  <2>3. ASSUME NEW d \in Dies, NEW pg \in Pgs
        PROVE  status'[<<gc_wp.line, <<d, pg>>>>] = "FREE" <=> ~GcPassed(d, pg)'
    <3>1. status[<<gc_wp.line, <<d, pg>>>>] = "FREE" <=> ~GcPassed(d, pg)
      BY <1>1 DEF Core, Frontiers
    <3>2. GcPassed(d, pg)' <=> GcPassed(d, pg) \/ (d = gc_wp.die /\ pg = gc_wp.pg)
      BY <1>1 DEF GcPassed
    <3>3. status'[<<gc_wp.line, <<d, pg>>>>]
            = IF <<d, pg>> = u THEN "VALID" ELSE status[<<gc_wp.line, <<d, pg>>>>]
      BY <1>2, <1>5, <1>6, <2>1
    <3>4. <<d, pg>> = u <=> d = gc_wp.die /\ pg = gc_wp.pg
      BY <1>5
    <3> QED BY <3>1, <3>2, <3>3, <3>4
  <2> QED BY <1>1, <2>2, <2>3 DEF Frontiers
<1>12. VictimProgress'
  <2>1. gcline \in Lines /\ todo \in SUBSET Slots
    BY <1>1 DEF Core, TypeOK
  <2>2. \A t \in Slots : status'[<<gcline, t>>] = status[<<gcline, t>>]
    BY <1>6, <1>8, <2>1
  <2>3. \A d \in Dies, pg \in Pgs : <<d, pg>> \in Slots
    BY DEF Slots
  <2> QED BY <1>1, <2>1, <2>2, <2>3 DEF Core, VictimProgress
<1>13. MapConsistent'
  <2>1. gcline \in Lines
    BY <1>1 DEF Core, TypeOK
  <2>2. PICK g \in Pages : g = <<gcline, s>>
    BY <1>2, <2>1 DEF Pages
  <2>3. ~CopiedAway(g)
    BY <1>1, <2>2 DEF CopiedAway
  <2>4. PICK l \in Lpns : l = rmap[g] /\ maptbl[l] = g
    BY <1>1, <2>2, <2>3 DEF Core, MapConsistent
  <2>5. /\ \A q \in Pages : status'[q] = IF q = p THEN "VALID" ELSE status[q]
        /\ \A q \in Pages : rmap'[q] = IF q = p THEN l ELSE rmap[q]
        /\ \A m \in Lpns : maptbl'[m] = IF m = l THEN p ELSE maptbl[m]
    BY <1>1, <1>4, <2>2, <2>4 DEF Core, TypeOK, Map
  <2>6. p # g /\ p[1] # gcline
    BY <1>5, <1>8, <2>2
  <2>7. ASSUME NEW q \in Pages PROVE CopiedAway(q)' <=> CopiedAway(q) \/ q = g
    <3>1. q = <<q[1], q[2]>>
      BY PageParts
    <3>2. CopiedAway(q) <=> q[1] = gcline /\ q[2] \notin todo
      BY <1>1 DEF CopiedAway
    <3>3. CopiedAway(q)' <=> q[1] = gcline /\ (q[2] \notin todo \/ NextToVisit(q[2]))
      BY <1>1 DEF CopiedAway, NextToVisit
    <3>4. q[2] \in todo /\ NextToVisit(q[2]) <=> q[2] = s
      BY <1>1, NextUnique DEF Core
    <3> QED BY <2>2, <3>1, <3>2, <3>3, <3>4
  <2>8. \A m \in Lpns : maptbl[m] \in Pages \cup {UNMAPPED}
    BY DEF Core, TypeOK
  <2>9. \A m \in Lpns : maptbl[m] # UNMAPPED =>
          /\ status[maptbl[m]] = "VALID"
          /\ rmap[maptbl[m]] = m
          /\ ~CopiedAway(maptbl[m])
    BY <1>1 DEF Core, MapConsistent, InFlight
  <2>10. ~CopiedAway(p)
    BY <2>6 DEF CopiedAway
  <2>11. ASSUME NEW m \in Lpns, maptbl'[m] # UNMAPPED
         PROVE  /\ maptbl'[m] \in Pages
                /\ status'[maptbl'[m]] = "VALID"
                /\ rmap'[maptbl'[m]] = m
                /\ ~CopiedAway(maptbl'[m]) /\ maptbl'[m] # g
    <3>1. CASE m = l
      BY <2>5, <2>6, <2>10, <3>1
    <3>2. CASE m # l
      BY <1>3, <1>4, <2>4, <2>5, <2>8, <2>9, <2>11, <3>2
    <3> QED BY <3>1, <3>2
  <2>12. \A q \in Pages : status[q] = "VALID" /\ ~CopiedAway(q) =>
           rmap[q] \in Lpns /\ maptbl[rmap[q]] = q
    BY DEF Core, MapConsistent
  <2>13. ASSUME NEW q \in Pages, status'[q] = "VALID", ~CopiedAway(q)'
         PROVE  rmap'[q] \in Lpns /\ maptbl'[rmap'[q]] = q
    <3>1. CASE q = p
      BY <2>4, <2>5, <3>1
    <3>2. CASE q # p
      BY <2>4, <2>5, <2>7, <2>12, <2>13, <3>2
    <3> QED BY <3>1, <3>2
  <2>14. \A m : ~InFlight(m)'
    BY <1>1 DEF InFlight
  <2>15. \A m \in Lpns : maptbl'[m] # UNMAPPED => ~CopiedAway(maptbl[m])'
    <3>1. ASSUME NEW m \in Lpns, maptbl'[m] # UNMAPPED PROVE ~CopiedAway(maptbl[m])'
      <4>1. PICK q \in Pages : q = maptbl'[m]
        BY <2>11, <3>1
      <4>2. ~CopiedAway(q)'
        BY <2>7, <2>11, <3>1, <4>1
      <4> QED BY <4>1, <4>2 DEF CopiedAway
    <3> QED BY <3>1
  <2> QED BY <2>11, <2>13, <2>14, <2>15 DEF MapConsistent
<1> QED BY <1>0, <1>7, <1>9, <1>10, <1>11, <1>12, <1>13 DEF Core

(***************************************************************************)
(* The GC pointer passes exactly the page it leaves.                       *)
(***************************************************************************)
LEMMA GcFrontier ==
  ASSUME Core, NEW s \in todo, NEW d \in Dies, NEW pg \in Pgs
  PROVE  /\ GcWithinLine(s) => (GcPassed(d, pg)' <=> GcPassed(d, pg))
         /\ GcNextLine(s) => GcPassed(d, pg)
<1>1. /\ gc_wp.die \in Dies /\ gc_wp.pg \in Pgs /\ gc_wp.line \in Lines
      /\ gc_wp = [line |-> gc_wp.line, die |-> gc_wp.die, pg |-> gc_wp.pg]
  BY DEF Core, TypeOK, WritePointer
<1>2. PICK e \in Dies, c \in Pgs : e = gc_wp.die /\ c = gc_wp.pg
  BY <1>1
<1>3. NrChs * LunsPerCh \in Int /\ WlsPerBlk \in Int /\ PgsPerOneshot \in Int
  BY GeometryAssumption
<1>4. /\ d \in Int /\ e \in Int /\ 0 <= d /\ 0 <= e
      /\ d <= NrChs * LunsPerCh - 1 /\ e <= NrChs * LunsPerCh - 1
  BY <1>3 DEF Dies
<1>5. /\ pg[1] \in Int /\ pg[2] \in Int /\ c[1] \in Int /\ c[2] \in Int
      /\ 0 <= pg[2] /\ pg[2] <= PgsPerOneshot - 1 /\ pg[1] <= WlsPerBlk - 1
      /\ 0 <= c[2] /\ c[2] <= PgsPerOneshot - 1 /\ 0 <= pg[1]
      /\ pg = <<pg[1], pg[2]>> /\ c = <<c[1], c[2]>>
  BY <1>3 DEF Pgs
<1>6. pg = c <=> pg[1] = c[1] /\ pg[2] = c[2]
  BY <1>5
<1>7. e + 1 \notin Dies => d <= e
  BY <1>3, <1>4 DEF Dies
<1>8. ASSUME pc = "gcadvance"
      PROVE  GcPassed(d, pg) <=> \/ pg[1] < c[1]
                                 \/ pg[1] = c[1] /\ d < e
                                 \/ pg[1] = c[1] /\ d = e /\ pg[2] <= c[2]
  BY <1>2, <1>4, <1>5, <1>6, <1>8 DEF GcPassed
<1>9. ASSUME GcWithinLine(s) PROVE GcPassed(d, pg)' <=> GcPassed(d, pg)
  <2>1. pc = "gcadvance" /\ pc' = "gc"
    BY <1>9 DEF GcWithinLine, LeaveSlot
  <2>2. GcPassed(d, pg)' <=> \/ pg[1] < gc_wp'.pg[1]
                             \/ pg[1] = gc_wp'.pg[1] /\ d < gc_wp'.die
                             \/ pg[1] = gc_wp'.pg[1] /\ d = gc_wp'.die
                                  /\ pg[2] < gc_wp'.pg[2]
    BY <2>1 DEF GcPassed
  <2>3. CASE NextPg(c)[2] # 0
    <3>1. NextPg(c) = <<c[1], c[2] + 1>>
      BY <2>3 DEF NextPg
    <3>2. gc_wp'.die = e /\ gc_wp'.pg = <<c[1], c[2] + 1>>
      BY <1>1, <1>2, <1>9, <2>3, <3>1 DEF GcWithinLine
    <3>3. GcPassed(d, pg)' <=> \/ pg[1] < c[1]
                               \/ pg[1] = c[1] /\ d < e
                               \/ pg[1] = c[1] /\ d = e /\ pg[2] < c[2] + 1
      BY <2>2, <3>2
    <3>4. pg[2] < c[2] + 1 <=> pg[2] <= c[2]
      BY <1>5
    <3> QED BY <1>8, <2>1, <3>3, <3>4
  <2>4. CASE NextPg(c)[2] = 0 /\ e + 1 \in Dies
    <3>1. c[2] = PgsPerOneshot - 1
      BY <1>3, <1>5, <2>4 DEF NextPg
    <3>2. gc_wp'.die = e + 1 /\ gc_wp'.pg = <<c[1], 0>>
      BY <1>1, <1>2, <1>9, <2>4 DEF GcWithinLine
    <3>3. GcPassed(d, pg)' <=> \/ pg[1] < c[1]
                               \/ pg[1] = c[1] /\ d < e + 1
                               \/ pg[1] = c[1] /\ d = e + 1 /\ pg[2] < 0
      BY <2>2, <3>2
    <3>4. (d < e + 1 <=> d < e \/ d = e) /\ ~(pg[2] < 0) /\ pg[2] <= c[2]
      BY <1>3, <1>4, <1>5, <3>1
    <3> QED BY <1>8, <2>1, <3>3, <3>4
  <2>5. CASE NextPg(c)[2] = 0 /\ e + 1 \notin Dies
    <3>1. c[2] = PgsPerOneshot - 1 /\ NextPg(c) = <<c[1] + 1, 0>>
      BY <1>3, <1>5, <2>5 DEF NextPg
    <3>2. gc_wp'.die = 0 /\ gc_wp'.pg = <<c[1] + 1, 0>>
      BY <1>1, <1>2, <1>9, <2>5, <3>1 DEF GcWithinLine
    <3>3. GcPassed(d, pg)' <=> \/ pg[1] < c[1] + 1
                               \/ pg[1] = c[1] + 1 /\ d < 0
                               \/ pg[1] = c[1] + 1 /\ d = 0 /\ pg[2] < 0
      BY <2>2, <3>2
    <3>4. /\ pg[1] < c[1] + 1 <=> pg[1] < c[1] \/ pg[1] = c[1]
          /\ ~(d < 0) /\ ~(pg[2] < 0) /\ pg[2] <= c[2]
      BY <1>3, <1>4, <1>5, <3>1
    <3>5. d < e \/ d = e
      BY <1>4, <1>7, <2>5
    <3> QED BY <1>8, <2>1, <3>3, <3>4, <3>5
  <2> QED BY <2>3, <2>4, <2>5
<1>10. ASSUME GcNextLine(s) PROVE GcPassed(d, pg)
  <2>1. /\ pc = "gcadvance" /\ NextPg(c)[2] = 0 /\ e + 1 \notin Dies
        /\ ~InBlk(NextPg(c))
    BY <1>2, <1>10 DEF GcNextLine
  <2>2. c[2] = PgsPerOneshot - 1 /\ c[1] + 1 >= WlsPerBlk
    BY <1>3, <1>5, <2>1 DEF NextPg, InBlk
  <2>3. pg[1] < c[1] \/ pg[1] = c[1]
    BY <1>3, <1>5, <2>2
  <2>4. d < e \/ d = e
    BY <1>4, <1>7, <2>1
  <2>5. pg[2] <= c[2]
    BY <1>5, <2>2
  <2> QED BY <1>8, <2>1, <2>3, <2>4, <2>5
<1> QED BY <1>9, <1>10

LEMMA CoreGcWithinLine == ASSUME Core, NEW s \in todo, GcWithinLine(s) PROVE Core'
<1> USE DEF mapVars, lineVars, wfcVars, gcVars, reqVars
<1>0. TypeOK'
  BY TypeStep DEF Core, Next
<1>1. /\ pc = "gcadvance" /\ pc' = "gc" /\ NextToVisit(s) /\ LeaveSlot(s)
      /\ UNCHANGED <<maptbl, rmap, vpc, ipc, free, full, victim, wp, page_counter,
                     gcline>>
  BY DEF GcWithinLine, LeaveSlot, GcAdvanced
<1>2. \A j \in Lines, t \in Slots : j # gcline => status'[<<j, t>>] = status[<<j, t>>]
  BY <1>1, LeaveEffect
<1>3. VictimProgress'
  BY <1>1, LeaveEffect
<1>4. MapConsistent'
  BY <1>1, LeaveMaps
<1>5. LineCounts'
  BY <1>1, <1>2, VictimOnly
<1>6. gc_wp'.line = gc_wp.line
  BY DEF GcWithinLine, Core, TypeOK, WritePointer
<1>7. LinePlaces'
  BY <1>1, <1>6 DEF Core, LinePlaces, InFree, InUse
<1>8. ListContents'
  BY <1>1, <1>2, VictimApart, ListsKept
<1>9. Frontiers'
  <2>1. \A d \in Dies, pg \in Pgs : <<d, pg>> \in Slots
    BY DEF Slots
  <2>2. wp.line \in Lines /\ gc_wp.line \in Lines
    BY DEF Core, TypeOK, WritePointer
  <2>3. \A d \in Dies, pg \in Pgs :
          /\ status'[<<wp.line, <<d, pg>>>>] = status[<<wp.line, <<d, pg>>>>]
          /\ status'[<<gc_wp.line, <<d, pg>>>>] = status[<<gc_wp.line, <<d, pg>>>>]
    BY <1>1, <1>2, <2>1, <2>2, VictimApart
  <2>4. \A d \in Dies, pg \in Pgs : GcPassed(d, pg)' <=> GcPassed(d, pg)
    BY GcFrontier
  <2>5. \A d \in Dies, pg \in Pgs : UserPassed(d, pg)' <=> UserPassed(d, pg)
    BY <1>1 DEF UserPassed, Passed
  <2>6. \A d \in Dies, pg \in Pgs :
          /\ status[<<wp.line, <<d, pg>>>>] = "FREE" <=> ~UserPassed(d, pg)
          /\ status[<<gc_wp.line, <<d, pg>>>>] = "FREE" <=> ~GcPassed(d, pg)
    BY <1>1 DEF Core, Frontiers
  <2>7. wp'.line = wp.line
    BY <1>1
  <2> QED BY <1>6, <2>3, <2>4, <2>5, <2>6, <2>7 DEF Frontiers
<1> QED BY <1>0, <1>3, <1>4, <1>5, <1>7, <1>8, <1>9 DEF Core

\* At the end of its line the GC pointer leaves no free page behind.
LEMMA GcLineUsed ==
  ASSUME Core, NEW s \in todo, GcNextLine(s)
  PROVE  \A t \in Slots : status[<<gc_wp.line, t>>] # "FREE"
<1>1. pc = "gcadvance"
  BY DEF GcNextLine
<1>2. \A d \in Dies, pg \in Pgs : status[<<gc_wp.line, <<d, pg>>>>] # "FREE"
  BY <1>1, GcFrontier DEF Core, Frontiers
<1> QED BY <1>2 DEF Slots

LEMMA CoreGcNextLine == ASSUME Core, NEW s \in todo, GcNextLine(s) PROVE Core'
<1> USE DEF mapVars, lineVars, wfcVars, gcVars, reqVars
<1>0. TypeOK'
  BY TypeStep DEF Core, Next
<1>1. /\ pc = "gcadvance" /\ NextToVisit(s) /\ RetireLine(gc_wp.line)
      /\ UNCHANGED <<maptbl, rmap, vpc, ipc, wp, page_counter, gcline>>
  BY DEF GcNextLine, GcAdvanced
<1>2. CASE free = << >>
  <2>1. pc' = "oops" /\ UNCHANGED <<free, gc_wp, todo, status>>
    BY <1>2 DEF GcNextLine
  <2>2. LineCounts'
    BY <1>1, <2>1 DEF Core, LineCounts, PagesWith
  <2>3. MapConsistent'
    <3>1. \A q : CopiedAway(q)' <=> CopiedAway(q)
      BY <1>1, <2>1 DEF CopiedAway, NextToVisit
    <3>2. \A m : ~InFlight(m) /\ ~InFlight(m)'
      BY <1>1, <2>1 DEF InFlight
    <3>3. maptbl' = maptbl /\ rmap' = rmap /\ status' = status
      BY <1>1, <2>1
    <3>4. \A m : CopiedAway(maptbl[m])' <=> CopiedAway(maptbl[m])
      BY <1>1, <2>1 DEF CopiedAway, NextToVisit
    <3> QED BY <3>1, <3>2, <3>3, <3>4 DEF Core, MapConsistent
  <2> QED
    BY <1>0, <2>1, <2>2, <2>3
       DEF Core, LinePlaces, ListContents, Frontiers, VictimProgress
<1>3. CASE free # << >>
  <2>1. /\ gc_wp' = [line |-> Head(free), die |-> 0, pg |-> <<0, 0>>]
        /\ free' = Tail(free)
        /\ LeaveSlot(s) /\ pc' = "gc"
    BY <1>3 DEF GcNextLine, LeaveSlot
  <2>2. \A j \in Lines, t \in Slots : j # gcline => status'[<<j, t>>] = status[<<j, t>>]
    BY <1>1, <2>1, LeaveEffect
  <2>3. VictimProgress'
    BY <1>1, <2>1, LeaveEffect
  <2>4. MapConsistent'
    BY <1>1, <2>1, LeaveMaps
  <2>5. LineCounts'
    BY <1>1, <2>2, VictimOnly
  <2>6. /\ gc_wp.line \in Lines /\ wp.line \in Lines /\ gcline \in Lines
        /\ gc_wp.line # gcline
    BY <1>1, VictimApart DEF Core, TypeOK, WritePointer
  <2>7. \A t \in Slots : status[<<gc_wp.line, t>>] # "FREE"
    BY GcLineUsed
  <2>8. PICK i \in Lines : i = gc_wp.line
    BY <2>6
  <2>9. PICK h \in Lines : h = Head(free)
    BY <1>3 DEF Core, TypeOK
  <2>10. /\ InFree(h)
         /\ \A j : InFree(j)' <=> InFree(j) /\ j # h
         /\ Distinct(free')
    BY <1>1, <1>3, <2>1, <2>9, TakeHead DEF Core, TypeOK, LinePlaces, Distinct
  <2>11. /\ \A j \in Lines : InFree(j) \/ j \in full \cup victim \cup {wp.line, i, gcline}
         /\ \A j \in Lines : InFree(j) => j \notin full \cup victim \cup {wp.line, i, gcline}
         /\ {wp.line, i, gcline} \cap (full \cup victim) = {}
         /\ i # wp.line /\ gcline # wp.line /\ gcline # i
    BY <1>1, <2>8 DEF Core, LinePlaces, InUse
  <2>12. /\ full' \cup victim' = full \cup victim \cup {i}
         /\ full' \cap victim' = {}
         /\ \A j \in full', t \in Slots : status[<<j, t>>] = "VALID"
         /\ \A j \in victim', t \in Slots : status[<<j, t>>] # "FREE"
         /\ \A j \in victim' : \E t \in Slots : status[<<j, t>>] = "INVALID"
    <3>1. RetireLine(i) /\ i # gcline /\ i \notin full \cup victim
      BY <1>1, <2>8, <2>11
    <3> QED BY <1>1, <2>7, <2>8, <3>1, RetiredPlace
  <2>13. gc_wp'.line = h /\ wp' = wp /\ gcline' = gcline
    BY <1>1, <2>1, <2>9
  <2>14. LinePlaces'
    <3>1. InUse' = {wp.line, h, gcline}
      BY <2>13 DEF InUse
    <3>2. \A j \in Lines : InFree(j)' \/ j \in full' \cup victim' \cup InUse'
      BY <2>10, <2>11, <2>12, <3>1
    <3>3. \A j \in Lines : InFree(j)' => j \notin full' \cup victim' \cup InUse'
      BY <2>10, <2>11, <2>12, <3>1
    <3>4. InUse' \cap (full' \cup victim') = {}
      BY <2>10, <2>11, <2>12, <3>1
    <3>5. wp'.line # gc_wp'.line /\ gcline' \notin {wp'.line, gc_wp'.line}
      BY <2>6, <2>10, <2>11, <2>13
    <3> QED BY <2>10, <2>12, <3>2, <3>3, <3>4, <3>5 DEF LinePlaces, Distinct
  <2>15. ListContents'
    <3>1. \A j \in Lines, t \in Slots : InFree(j) => status[<<j, t>>] = "FREE"
      BY <1>1 DEF Core, ListContents
    <3>2. \A j \in full' \cup victim' : j \in Lines /\ j # gcline
      BY <1>0, <2>11, <2>12 DEF TypeOK
    <3>3. \A j \in Lines, t \in Slots : InFree(j)' => status'[<<j, t>>] = "FREE"
      BY <2>2, <2>10, <2>11, <3>1
    <3>4. \A j \in full' \cup victim', t \in Slots : status'[<<j, t>>] = status[<<j, t>>]
      BY <2>2, <3>2
    <3>5. \A j \in full', t \in Slots : status'[<<j, t>>] = "VALID"
      BY <2>12, <3>4
    <3>6. \A j \in victim', t \in Slots : status'[<<j, t>>] # "FREE"
      BY <2>12, <3>4
    <3>7. \A j \in victim' : \E t \in Slots : status'[<<j, t>>] = "INVALID"
      BY <2>12, <3>4
    <3> QED BY <3>3, <3>5, <3>6, <3>7 DEF ListContents
  <2>16. Frontiers'
    <3>1. ASSUME NEW d \in Dies, NEW pg \in Pgs
          PROVE  /\ status'[<<wp'.line, <<d, pg>>>>] = "FREE" <=> ~UserPassed(d, pg)'
                 /\ status'[<<gc_wp'.line, <<d, pg>>>>] = "FREE" <=> ~GcPassed(d, pg)'
      <4>1. <<d, pg>> \in Slots
        BY DEF Slots
      <4>2. status[<<h, <<d, pg>>>>] = "FREE"
        BY <1>1, <2>10, <4>1 DEF Core, ListContents
      <4>3. status'[<<h, <<d, pg>>>>] = "FREE"
        BY <2>2, <2>10, <2>11, <4>1, <4>2
      <4>4. ~GcPassed(d, pg)'
        BY <2>1, GeometryAssumption DEF GcPassed, Dies, Pgs
      <4>5. UserPassed(d, pg)' <=> UserPassed(d, pg)
        BY <1>1, <2>1 DEF UserPassed, Passed
      <4>6. status[<<wp.line, <<d, pg>>>>] = "FREE" <=> ~UserPassed(d, pg)
        BY <1>1 DEF Core, Frontiers
      <4>7. status'[<<wp.line, <<d, pg>>>>] = status[<<wp.line, <<d, pg>>>>]
        BY <2>2, <2>6, <2>11, <4>1
      <4> QED BY <2>13, <4>3, <4>4, <4>5, <4>6, <4>7
    <3> QED BY <3>1 DEF Frontiers
  <2> QED BY <1>0, <2>3, <2>4, <2>5, <2>14, <2>15, <2>16 DEF Core
<1> QED BY <1>2, <1>3

LEMMA CoreGcDone == ASSUME Core, GcDone PROVE Core'
<1> USE DEF mapVars, lineVars, wfcVars, gcVars, reqVars
<1>0. TypeOK'
  BY TypeStep DEF Core, Next
<1>1. /\ pc = "gc" /\ pc' = "idle" /\ todo = {} /\ gcline' = UNMAPPED
      /\ gcline \in Lines
      /\ vpc' = [vpc EXCEPT ![gcline] = 0] /\ ipc' = [ipc EXCEPT ![gcline] = 0]
      /\ free' = Append(free, gcline)
      /\ UNCHANGED <<maptbl, rmap, status, full, victim, wp, gc_wp, page_counter,
                     todo>>
  BY DEF GcDone, Core, TypeOK
<1>2. PICK g \in Lines : g = gcline
  BY <1>1
<1>3. \A t \in Slots : status[<<g, t>>] = "FREE"
  <2>1. \A d \in Dies, pg \in Pgs : status[<<g, <<d, pg>>>>] = "FREE"
    BY <1>1, <1>2 DEF Core, VictimProgress
  <2> QED BY <2>1 DEF Slots
<1>4. /\ \A j : InFree(j)' <=> InFree(j) \/ j = g
      /\ Distinct(free')
  <2>1. ~InFree(g) /\ Distinct(free) /\ free \in Seq(Lines) /\ free' = Append(free, g)
    BY <1>1, <1>2, VictimApart DEF Core, TypeOK, LinePlaces, Distinct
  <2> QED BY <2>1, AppendLine
<1>5. LinePlaces'
  <2>1. /\ \A j \in Lines : InFree(j) \/ j \in full \cup victim \cup {wp.line, gc_wp.line, g}
        /\ \A j \in Lines : InFree(j) => j \notin full \cup victim \cup {wp.line, gc_wp.line, g}
        /\ {wp.line, gc_wp.line, g} \cap (full \cup victim) = {}
        /\ full \cap victim = {}
        /\ wp.line # gc_wp.line /\ g # wp.line /\ g # gc_wp.line
    BY <1>1, <1>2 DEF Core, LinePlaces, InUse
  <2>2. InUse' = {wp.line, gc_wp.line, UNMAPPED}
    BY <1>1 DEF InUse
  <2>3. /\ UNMAPPED \notin Lines /\ full \in SUBSET Lines /\ victim \in SUBSET Lines
        /\ wp.line \in Lines /\ gc_wp.line \in Lines
    BY LpnsAssumption DEF Core, TypeOK, WritePointer
  <2>4. full' = full /\ victim' = victim /\ wp' = wp /\ gc_wp' = gc_wp
    BY <1>1
  <2>5. \A j \in Lines : InFree(j)' \/ j \in full' \cup victim' \cup InUse'
    BY <1>4, <2>1, <2>2, <2>4
  <2>6. \A j \in Lines : InFree(j)' => j \notin full' \cup victim' \cup InUse'
    BY <1>4, <2>1, <2>2, <2>3, <2>4
  <2>7. InUse' \cap (full' \cup victim') = {}
    BY <2>1, <2>2, <2>3, <2>4
  <2>8. gcline' \notin {wp'.line, gc_wp'.line}
    BY <1>1, <2>3, <2>4
  <2> QED BY <1>4, <2>1, <2>4, <2>5, <2>6, <2>7, <2>8 DEF LinePlaces, Distinct
<1>6. ListContents'
  <2>1. /\ \A j \in Lines, t \in Slots : InFree(j) => status[<<j, t>>] = "FREE"
        /\ \A j \in full, t \in Slots : status[<<j, t>>] = "VALID"
        /\ \A j \in victim, t \in Slots : status[<<j, t>>] # "FREE"
        /\ \A j \in victim : \E t \in Slots : status[<<j, t>>] = "INVALID"
    BY <1>1 DEF Core, ListContents
  <2>2. full' = full /\ victim' = victim /\ status' = status
    BY <1>1
  <2> QED BY <1>3, <1>4, <2>1, <2>2 DEF ListContents
<1>7. LineCounts'
  <2>1. \A j \in Lines, st \in {"VALID", "INVALID"} : PagesWith(j, st)' = PagesWith(j, st)
    BY <1>1 DEF PagesWith
  <2>2. PagesWith(g, "VALID") = {} /\ PagesWith(g, "INVALID") = {}
    BY <1>3 DEF PagesWith
  <2>3. vpc'[g] = 0 /\ ipc'[g] = 0
    BY <1>1, <1>2 DEF Core, TypeOK
  <2>4. \A j \in Lines : j # g => vpc'[j] = vpc[j] /\ ipc'[j] = ipc[j]
    BY <1>1, <1>2 DEF Core, TypeOK
  <2>5. \A j \in Lines : j # g => /\ vpc[j] = Cardinality(PagesWith(j, "VALID"))
                                  /\ ipc[j] = Cardinality(PagesWith(j, "INVALID"))
    BY <1>2 DEF Core, LineCounts
  <2>6. Cardinality({}) = 0
    BY FS_EmptySet
  <2> QED BY <2>1, <2>2, <2>3, <2>4, <2>5, <2>6 DEF LineCounts
<1>8. Frontiers'
  BY <1>1, ZenonT(30) DEF Core, Frontiers, UserPassed, GcPassed
<1>9. VictimProgress'
  BY <1>1 DEF VictimProgress
<1>10. MapConsistent'
  <2>1. \A m \in Lpns : maptbl[m] \in Pages \cup {UNMAPPED}
    BY DEF Core, TypeOK
  <2>2. \A m \in Lpns : maptbl[m] # UNMAPPED =>
          status[maptbl[m]] = "VALID" /\ rmap[maptbl[m]] = m
    BY <1>1 DEF Core, MapConsistent, InFlight
  <2>3. ASSUME NEW q \in Pages, status[q] = "VALID"
        PROVE  rmap[q] \in Lpns /\ maptbl[rmap[q]] = q
    <3>1. q[1] # g
      BY <1>3, <2>3, PageParts
    <3>2. ~CopiedAway(q)
      BY <1>2, <3>1 DEF CopiedAway
    <3> QED BY <2>3, <3>2 DEF Core, MapConsistent
  <2>4. \A q \in Pages : ~CopiedAway(q)'
    BY <1>1, PageLine DEF CopiedAway
  <2>5. \A m : ~InFlight(m)'
    BY <1>1 DEF InFlight
  <2>6. maptbl' = maptbl /\ rmap' = rmap /\ status' = status
    BY <1>1
  <2> QED BY <2>1, <2>2, <2>3, <2>4, <2>5, <2>6 DEF MapConsistent
<1> QED BY <1>0, <1>5, <1>6, <1>7, <1>8, <1>9, <1>10 DEF Core

LEMMA CoreStutter == ASSUME Core, UNCHANGED vars PROVE Core'
<1> USE DEF vars
<1>1. TypeOK'
  BY TypeStep DEF Core
<1>2. LinePlaces'
  BY DEF Core, LinePlaces, InFree, InUse
<1>3. ListContents'
  BY DEF Core, ListContents, InFree
<1>4. LineCounts'
  BY DEF Core, LineCounts, PagesWith
<1>5. Frontiers'
  BY DEF Core, Frontiers, UserPassed, GcPassed
<1>6. VictimProgress'
  BY DEF Core, VictimProgress
<1>7. MapConsistent'
  BY DEF Core, MapConsistent, InFlight, CopiedAway, NextToVisit
<1> QED BY <1>1, <1>2, <1>3, <1>4, <1>5, <1>6, <1>7 DEF Core

LEMMA CoreStep == Core /\ [Next]_vars => Core'
<1> SUFFICES ASSUME Core, [Next]_vars PROVE Core'
  OBVIOUS
<1> QED
  BY CoreWritePage, CoreProgramPage, CoreUserStay, CoreUserNextDie,
     CoreUserNextLine, CoreRefillOnly, CoreSelectVictim, CoreGcSkip, CoreGcCopy,
     CoreGcWithinLine, CoreGcNextLine, CoreGcDone, CoreStutter DEF Next

LEMMA CoreHolds == Spec => []Core
BY CoreInit, CoreStep, PTL DEF Spec

(***************************************************************************)
(* maptbl and rmap stay inverse to each other on the live pages, for every *)
(* geometry, through any number of writes and collections.                 *)
(***************************************************************************)
THEOREM MappingConsistent == Spec => []MapConsistent
BY CoreHolds, PTL DEF Core

(***************************************************************************)
(* Every line is in one place and every list holds what its name says, so  *)
(* no line leaks and none is handed out while it holds live data.          *)
(***************************************************************************)
THEOREM LinesAccounted == Spec => [](LinePlaces /\ ListContents /\ LineCounts)
BY CoreHolds, PTL DEF Core

(***************************************************************************)
(* The flash is used as NAND flash has to be.                              *)
(***************************************************************************)
LEMMA NandEffect ==
  ASSUME Core, [Next]_vars,
         NEW i \in Lines, NEW d \in Dies, NEW pg \in Pgs
  PROVE  NandStep(i, d, pg)
<1> DEFINE p == <<i, <<d, pg>>>>
<1>0. p \in Pages /\ <<d, pg>> \in Slots
  BY DEF Pages, Slots
<1>1. \A q \in Pgs : <<i, <<d, q>>>> \in Pages
  BY DEF Pages, Slots
<1>2. ASSUME status' = status PROVE NandStep(i, d, pg)
  BY <1>2 DEF NandStep
<1>3. ASSUME NEW l \in Lpns, NEW w \in Writers, WritePage(l, w)
      PROVE  NandStep(i, d, pg)
  <2>1. CASE maptbl[l] = UNMAPPED
    BY <1>2, <1>3, <2>1 DEF WritePage
  <2>2. CASE maptbl[l] # UNMAPPED
    <3>1. status' = [status EXCEPT ![maptbl[l]] = "INVALID"]
      BY <1>3, <2>2 DEF WritePage, InvalidateOld
    <3>2. status[maptbl[l]] = "VALID"
      BY <1>3, <2>2 DEF WritePage, Core, MapConsistent, InFlight
    <3>3. status[p] # status'[p] => p = maptbl[l]
      BY <1>0, <3>1 DEF Core, TypeOK
    <3>4. status'[p] = IF p = maptbl[l] THEN "INVALID" ELSE status[p]
      BY <1>0, <3>1 DEF Core, TypeOK
    <3> QED BY <3>2, <3>3, <3>4 DEF NandStep
  <2> QED BY <2>1, <2>2
<1>4. ASSUME NEW w \in WritePointer, NEW m, Map(m, NewPage(w)),
             status[NewPage(w)] = "FREE",
             \A q \in Pgs : Passed(q, w.pg) =>
                status[<<w.line, <<w.die, q>>>>] # "FREE"
      PROVE  NandStep(i, d, pg)
  <2>1. status' = [status EXCEPT ![NewPage(w)] = "VALID"]
    BY <1>4 DEF Map
  <2>2. status'[p] = IF p = NewPage(w) THEN "VALID" ELSE status[p]
    BY <1>0, <2>1 DEF Core, TypeOK
  <2>3. p = NewPage(w) => i = w.line /\ d = w.die /\ pg = w.pg
    BY DEF NewPage
  <2>4. CASE p = NewPage(w)
    <3>1. status[p] = "FREE" /\ status'[p] = "VALID"
      BY <1>4, <2>2, <2>4
    <3>2. \A q \in Pgs : Passed(q, pg) => status[<<i, <<d, q>>>>] # "FREE"
      BY <1>4, <2>3, <2>4
    <3> QED BY <3>1, <3>2 DEF NandStep
  <2>5. CASE p # NewPage(w)
    BY <2>2, <2>5 DEF NandStep
  <2> QED BY <2>4, <2>5
<1>5. ASSUME ProgramPage PROVE NandStep(i, d, pg)
  <2>1. /\ wp \in WritePointer /\ wp.die \in Dies /\ wp.pg \in Pgs
        /\ page_counter[wp.die] = wp.pg /\ pc = "program"
    BY <1>5 DEF ProgramPage, Core, TypeOK, WritePointer
  <2>2. \A q \in Pgs : Passed(q, wp.pg) => UserPassed(wp.die, q)
    BY <2>1 DEF UserPassed
  <2>3. \A q \in Pgs : Passed(q, wp.pg) => status[<<wp.line, <<wp.die, q>>>>] # "FREE"
    BY <2>1, <2>2 DEF Core, Frontiers
  <2>4. status[NewPage(wp)] = "FREE"
    BY <2>1, PointersFree
  <2> QED BY <1>4, <1>5, <2>1, <2>3, <2>4 DEF ProgramPage
<1>6. ASSUME NEW s \in todo, GcCopy(s) PROVE NandStep(i, d, pg)
  <2>1. gc_wp \in WritePointer /\ gc_wp.die \in Dies /\ gc_wp.pg \in Pgs /\ pc = "gc"
    BY <1>6 DEF GcCopy, Core, TypeOK, WritePointer
  <2>2. \A q \in Pgs : Passed(q, gc_wp.pg) => GcPassed(gc_wp.die, q)
    BY DEF GcPassed, Passed
  <2>3. \A q \in Pgs : Passed(q, gc_wp.pg) =>
          status[<<gc_wp.line, <<gc_wp.die, q>>>>] # "FREE"
    BY <2>1, <2>2 DEF Core, Frontiers
  <2>4. status[NewPage(gc_wp)] = "FREE"
    BY <2>1, PointersFree
  <2> QED BY <1>4, <1>6, <2>1, <2>3, <2>4 DEF GcCopy
<1>7. ASSUME NEW s \in todo, LeaveSlot(s), NextToVisit(s), pc \in {"gc", "gcadvance"},
             Core', gcline' = gcline, maptbl' = maptbl
      PROVE  NandStep(i, d, pg)
  <2>1. \A q \in Pgs : status'[<<i, <<d, q>>>>]
            = IF LastOfBlk(s) /\ i = gcline /\ d = s[1]
              THEN "FREE" ELSE status[<<i, <<d, q>>>>]
    <3>1. \A q \in Pgs : <<d, q>> \in Slots /\ <<d, q>>[1] = d
      BY DEF Slots
    <3> QED BY <1>7, <3>1, LeaveEffect
  <2>2. CASE LastOfBlk(s) /\ i = gcline /\ d = s[1]
    <3>1. \A q \in Pgs : status'[<<i, <<d, q>>>>] = "FREE"
      BY <2>1, <2>2
    <3>2. \A l \in Lpns : maptbl[l] # UNMAPPED => status'[maptbl[l]] # "FREE"
      BY <1>7 DEF Core, MapConsistent
    <3>3. \A q \in Pgs, l \in Lpns : maptbl[l] # <<i, <<d, q>>>>
      BY <1>1, <3>1, <3>2, LpnsAssumption
    <3> QED BY <3>1, <3>3 DEF NandStep
  <2>3. CASE ~(LastOfBlk(s) /\ i = gcline /\ d = s[1])
    BY <2>1, <2>3 DEF NandStep
  <2> QED BY <2>2, <2>3
<1>8. ASSUME NEW s \in todo, GcSkip(s) PROVE NandStep(i, d, pg)
  BY <1>7, <1>8, CoreGcSkip DEF GcSkip, mapVars
<1>9. ASSUME NEW s \in todo, GcWithinLine(s) PROVE NandStep(i, d, pg)
  BY <1>7, <1>9, CoreGcWithinLine DEF GcWithinLine, GcAdvanced, mapVars
<1>10. ASSUME NEW s \in todo, GcNextLine(s) PROVE NandStep(i, d, pg)
  <2>1. CASE free = << >>
    BY <1>2, <1>10, <2>1 DEF GcNextLine
  <2>2. CASE free # << >>
    BY <1>7, <1>10, <2>2, CoreGcNextLine DEF GcNextLine, GcAdvanced, mapVars
  <2> QED BY <2>1, <2>2
<1>11. UserStay \/ (\E e \in Dies : UserNextDie(e)) \/ UserNextLine => status' = status
  BY DEF UserStay, UserNextDie, UserNextLine, EndOfRequest
<1>12. RefillOnly \/ (\E v \in victim : SelectVictim(v)) \/ GcDone => status' = status
  BY DEF RefillOnly, SelectVictim, GcDone
<1>13. UNCHANGED vars => status' = status
  BY DEF vars
<1> QED
  BY <1>2, <1>3, <1>5, <1>6, <1>8, <1>9, <1>10, <1>11, <1>12, <1>13 DEF Next

(***************************************************************************)
(* Every write of the FTL obeys the rules of NAND flash: ascending, once   *)
(* per erase, and no erase of a block that holds a mapped page.            *)
(***************************************************************************)
THEOREM FlashDiscipline == Spec => NandDiscipline
<1>1. Core /\ [Next]_vars =>
        [\A i \in Lines, d \in Dies, pg \in Pgs : NandStep(i, d, pg)]_vars
  BY NandEffect
<1> QED BY <1>1, CoreHolds, PTL DEF Spec, NandDiscipline

(***************************************************************************)
(* The pages of the two write lines that the pointers have not passed are  *)
(* exactly the free ones: advance_write_pointer never skips a page and     *)
(* never returns to one, on whatever die page_counter sends it to next.    *)
(***************************************************************************)
THEOREM FrontiersExact == Spec => []Frontiers
BY CoreHolds, PTL DEF Core

(***************************************************************************)
(* While do_gc scans a victim, the pages ahead are never free and a block  *)
(* is erased exactly when the scan has passed its last page.               *)
(***************************************************************************)
THEOREM VictimScanned == Spec => []VictimProgress
BY CoreHolds, PTL DEF Core

-----------------------------------------------------------------------------
(***************************************************************************)
(* The write-credit flow control keeps a reserve, so that                  *)
(* get_next_free_line always finds a line.  The argument is a potential:   *)
(* the pages that can still be programmed minus the credits handed out     *)
(* never fall below two lines and two pages.  A user write spends one page *)
(* and one credit; a collection spends the live pages of its victim, gains *)
(* a line, and hands out as many credits as the victim had dead pages; and *)
(* when nothing is collected, either three lines are free or, because of   *)
(* over-provisioning, there is a victim.                                   *)
(***************************************************************************)
\* While the GC pointer advances, the slot just copied is a valid one.
CopyUnderWay ==
  pc = "gcadvance" => \E s \in ToCopy : NextToVisit(s)

Reserved == Core /\ CreditReserve /\ FreeLineLeft /\ CopyUnderWay

-----------------------------------------------------------------------------
(***************************************************************************)
(* Over-provisioning: with at most two free lines there is a victim.       *)
(***************************************************************************)
LEMMA TwoFree ==
  ASSUME free \in Seq(Lines), Len(free) <= 2
  PROVE  \E a, b : \A j \in Lines : InFree(j) => j = a \/ j = b
<1>1. Len(free) \in Nat /\ DOMAIN free = 1 .. Len(free)
  OBVIOUS
<1>2. \A k \in DOMAIN free : k = 1 \/ k = 2
  BY <1>1
<1> WITNESS free[1], free[2]
<1> QED BY <1>2 DEF InFree

\* Lines that are entirely valid hold as many lpns as pages.
LEMMA FullLinesBound ==
  ASSUME Core, pc = "refill"
  PROVE  /\ IsFiniteSet(full)
         /\ Cardinality(full) * PgsPerLine <= Cardinality(Lpns)
<1>1. IsFiniteSet(Lines)
  BY FS_Interval, GeometryAssumption DEF Lines
<1>2. IsFiniteSet(full)
  BY <1>1, FS_Subset DEF Core, TypeOK
<1> DEFINE F == full \X Slots
<1>3. IsFiniteSet(F) /\ Cardinality(F) = Cardinality(full) * PgsPerLine
  BY <1>2, SlotsFinite, FS_Product DEF PgsPerLine
<1>4. \A p \in F : p \in Pages /\ status[p] = "VALID"
  <2>1. \A j \in full, t \in Slots : status[<<j, t>>] = "VALID"
    BY DEF Core, ListContents
  <2>2. full \in SUBSET Lines
    BY DEF Core, TypeOK
  <2> QED BY <2>1, <2>2 DEF Pages
<1>5. gcline = UNMAPPED
  BY DEF Core, TypeOK
<1>6. \A p \in F : rmap[p] \in Lpns /\ maptbl[rmap[p]] = p
  BY <1>4, <1>5, PageLine DEF Core, MapConsistent, CopiedAway
<1> DEFINE f == [p \in F |-> rmap[p]]
<1>7. f \in [F -> Lpns] /\ \A p, q \in F : f[p] = f[q] => p = q
  BY <1>6
<1> HIDE DEF f, F
<1>8. Cardinality(F) \in Nat /\ Cardinality(Lpns) \in Nat
  BY <1>3, LpnsAssumption, FS_CardinalityType
<1>9. ~(Cardinality(Lpns) < Cardinality(F))
  BY <1>3, <1>7, LpnsAssumption, FS_PigeonHole
<1> QED BY <1>2, <1>3, <1>8, <1>9

LEMMA AddAtMost ==
  ASSUME NEW S, IsFiniteSet(S), NEW x
  PROVE  /\ IsFiniteSet(S \cup {x})
         /\ Cardinality(S \cup {x}) \in Nat
         /\ Cardinality(S) \in Nat
         /\ Cardinality(S \cup {x}) <= Cardinality(S) + 1
<1>1. /\ IsFiniteSet(S \cup {x})
      /\ Cardinality(S \cup {x}) = IF x \in S THEN Cardinality(S) ELSE Cardinality(S) + 1
  BY FS_AddElement
<1>2. Cardinality(S) \in Nat
  BY FS_CardinalityType
<1> QED BY <1>1, <1>2

LEMMA VictimExists ==
  ASSUME Core, pc = "refill", ShouldGcHigh
  PROVE  victim # {}
<1> SUFFICES ASSUME victim = {} PROVE FALSE
  OBVIOUS
<1>1. free \in Seq(Lines) /\ Len(free) <= 2
  BY DEF Core, TypeOK, ShouldGcHigh, GcThresLinesHigh
<1>2. PICK a, b : \A j \in Lines : InFree(j) => j = a \/ j = b
  BY <1>1, TwoFree
<1>3. PICK u \in Lines, g \in Lines : u = wp.line /\ g = gc_wp.line
  BY DEF Core, TypeOK, WritePointer
<1>4. gcline \notin Lines
  BY LpnsAssumption DEF Core, TypeOK
<1>5. Lines \subseteq full \cup {a, b, u, g}
  BY <1>2, <1>3, <1>4 DEF Core, LinePlaces, InUse
<1>6. IsFiniteSet(full) /\ Cardinality(full) * PgsPerLine <= Cardinality(Lpns)
  BY FullLinesBound
<1>7. /\ IsFiniteSet(full \cup {a, b, u, g})
      /\ Cardinality(full \cup {a, b, u, g}) <= Cardinality(full) + 4
  <2> DEFINE A == full \cup {a}
             B == A \cup {b}
             U == B \cup {u}
             G == U \cup {g}
  <2>1. G = full \cup {a, b, u, g}
    OBVIOUS
  <2>2. /\ IsFiniteSet(A) /\ Cardinality(A) \in Nat /\ Cardinality(full) \in Nat
        /\ Cardinality(A) <= Cardinality(full) + 1
    BY <1>6, AddAtMost
  <2> HIDE DEF A
  <2>3. IsFiniteSet(B) /\ Cardinality(B) \in Nat /\ Cardinality(B) <= Cardinality(A) + 1
    BY <2>2, AddAtMost
  <2> HIDE DEF B
  <2>4. IsFiniteSet(U) /\ Cardinality(U) \in Nat /\ Cardinality(U) <= Cardinality(B) + 1
    BY <2>3, AddAtMost
  <2> HIDE DEF U
  <2>5. IsFiniteSet(G) /\ Cardinality(G) \in Nat /\ Cardinality(G) <= Cardinality(U) + 1
    BY <2>4, AddAtMost
  <2> HIDE DEF G
  <2>6. Cardinality(G) <= Cardinality(full) + 4
    BY <2>2, <2>3, <2>4, <2>5
  <2> QED BY <2>1, <2>5, <2>6
<1>8. Cardinality(Lines) = TtLines
  BY FS_Interval, GeometryAssumption DEF Lines
<1>9. Cardinality(Lines) <= Cardinality(full \cup {a, b, u, g})
  BY <1>5, <1>7, FS_Subset
<1>10. /\ Cardinality(full) \in Nat /\ TtLines \in Nat /\ PgsPerLine \in Nat
       /\ Cardinality(full \cup {a, b, u, g}) \in Nat
       /\ Cardinality(Lpns) \in Nat
  BY <1>6, <1>7, FS_CardinalityType, SlotsFinite, LpnsAssumption, GeometryAssumption
<1>11. TtLines - 4 <= Cardinality(full)
  BY <1>7, <1>8, <1>9, <1>10
<1>12. (TtLines - 4) * PgsPerLine <= Cardinality(full) * PgsPerLine
  <2>1. \A x, y, z \in Int : x <= y /\ z >= 0 => x * z <= y * z
    OBVIOUS
  <2> QED BY <1>10, <1>11, <2>1
<1>13. /\ (TtLines - 4) * PgsPerLine \in Int
       /\ Cardinality(full) * PgsPerLine \in Int
  BY <1>10
<1> HIDE DEF PgsPerLine
<1> QED BY <1>6, <1>10, <1>12, <1>13, OverProvisioningAssumption

-----------------------------------------------------------------------------
(***************************************************************************)
(* The quantities of the potential.                                        *)
(***************************************************************************)
LEMMA RoomFacts ==
  ASSUME Core, pc # "oops"
  PROVE  /\ Len(free) \in Nat
         /\ Room(wp) \in Nat /\ Room(gc_wp) \in Nat
         /\ Room(wp) <= PgsPerLine /\ Room(gc_wp) <= PgsPerLine
         /\ pc # "advance" => Room(wp) >= 1
         /\ pc # "gcadvance" => Room(gc_wp) >= 1
         /\ Writable = Len(free) * PgsPerLine + Room(wp) + Room(gc_wp)
         /\ Len(free) * PgsPerLine \in Int
         /\ Writable \in Int
         /\ PgsPerLine \in Nat /\ PgsPerLine >= 1
         /\ credits \in Int /\ refill \in Int
<1>1. PICK u \in Lines, g \in Lines : u = wp.line /\ g = gc_wp.line
  BY DEF Core, TypeOK, WritePointer
<1>2. u # gcline /\ g # gcline
  BY <1>1 DEF Core, LinePlaces
<1>3. /\ vpc[u] \in 0 .. PgsPerLine /\ ipc[u] \in 0 .. PgsPerLine
      /\ vpc[u] + ipc[u] <= PgsPerLine
      /\ vpc[u] + ipc[u] = PgsPerLine <=> \A s \in Slots : status[<<u, s>>] # "FREE"
  BY <1>2, CountsOfLine DEF Core
<1>4. /\ vpc[g] \in 0 .. PgsPerLine /\ ipc[g] \in 0 .. PgsPerLine
      /\ vpc[g] + ipc[g] <= PgsPerLine
      /\ vpc[g] + ipc[g] = PgsPerLine <=> \A s \in Slots : status[<<g, s>>] # "FREE"
  BY <1>2, CountsOfLine DEF Core
<1>5. <<wp.die, wp.pg>> \in Slots /\ <<gc_wp.die, gc_wp.pg>> \in Slots
  BY DEF Core, TypeOK, WritePointer, Slots
<1>6. pc # "advance" => vpc[u] + ipc[u] # PgsPerLine
  BY <1>1, <1>3, <1>5, PointersFree DEF NewPage
<1>7. pc # "gcadvance" => vpc[g] + ipc[g] # PgsPerLine
  BY <1>1, <1>4, <1>5, PointersFree DEF NewPage
<1>8. PgsPerLine \in Nat /\ PgsPerLine >= 1
  BY SlotsFinite
<1>9. /\ Room(wp) = PgsPerLine - vpc[u] - ipc[u]
      /\ Room(gc_wp) = PgsPerLine - vpc[g] - ipc[g]
  BY <1>1 DEF Room
<1>10. /\ Room(wp) \in Nat /\ Room(wp) <= PgsPerLine
       /\ pc # "advance" => Room(wp) >= 1
  BY <1>3, <1>6, <1>8, <1>9
<1>11. /\ Room(gc_wp) \in Nat /\ Room(gc_wp) <= PgsPerLine
       /\ pc # "gcadvance" => Room(gc_wp) >= 1
  BY <1>4, <1>7, <1>8, <1>9
<1>12. Len(free) \in Nat
  BY DEF Core, TypeOK
<1>13. Writable = Len(free) * PgsPerLine + Room(wp) + Room(gc_wp)
  BY DEF Writable
<1>14. Len(free) * PgsPerLine \in Int
  BY <1>8, <1>12
<1>15. credits \in Int /\ refill \in Int
  BY DEF Core, TypeOK
<1> QED BY <1>8, <1>10, <1>11, <1>12, <1>13, <1>14, <1>15

LEMMA ToCopyFacts ==
  ASSUME TypeOK
  PROVE  ToCopy \in SUBSET Slots /\ Cardinality(ToCopy) \in Nat
<1>1. ToCopy \in SUBSET Slots
  BY DEF TypeOK, ToCopy
<1> QED BY <1>1, CardSlots

\* One line more, one line less.
LEMMA LineMore ==
  ASSUME NEW n \in Int, NEW k \in Int
  PROVE  (n + 1) * k = n * k + k /\ (n - 1) * k = n * k - k
OBVIOUS

LEMMA ThreeLines ==
  ASSUME NEW n \in Nat, n >= 3, NEW k \in Nat
  PROVE  n * k >= 3 * k
OBVIOUS

-----------------------------------------------------------------------------
(***************************************************************************)
(* Every action keeps the reserve.                                         *)
(***************************************************************************)
LEMMA ReserveWritePage ==
  ASSUME Reserved, NEW l \in Lpns, NEW w \in Writers, WritePage(l, w)
  PROVE  Reserved'
<1> USE DEF wfcVars, gcVars
<1>1. Core' /\ Core
  BY CoreWritePage DEF Reserved
<1>2. /\ pc = "idle" /\ pc' = "program"
      /\ UNCHANGED <<free, wp, gc_wp, credits, refill>>
  BY DEF WritePage
<1>3. /\ wp.line \in Lines /\ gc_wp.line \in Lines
      /\ \A j \in Lines : vpc[j] \in Int /\ ipc[j] \in Int
      /\ PgsPerLine \in Int
  BY <1>1, SlotsFinite DEF Core, TypeOK, WritePointer
<1>4. \A j \in Lines : PgsPerLine - vpc'[j] - ipc'[j] = PgsPerLine - vpc[j] - ipc[j]
  <2>1. CASE maptbl[l] = UNMAPPED
    BY <2>1 DEF WritePage
  <2>2. CASE maptbl[l] # UNMAPPED
    <3>1. maptbl[l] \in Pages
      BY <1>1, <2>2 DEF Core, TypeOK
    <3>2. PICK i \in Lines : i = maptbl[l][1]
      BY <3>1, PageParts
    <3>3. /\ ipc' = [ipc EXCEPT ![i] = @ + 1]
          /\ vpc' = [vpc EXCEPT ![i] = @ - 1]
      BY <2>2, <3>2 DEF WritePage, InvalidateOld
    <3>4. \A j \in Lines : /\ vpc'[j] = IF j = i THEN vpc[j] - 1 ELSE vpc[j]
                           /\ ipc'[j] = IF j = i THEN ipc[j] + 1 ELSE ipc[j]
      BY <1>1, <3>3 DEF Core, TypeOK
    <3> QED BY <1>3, <3>4
  <2> QED BY <2>1, <2>2
<1>5. Room(wp)' = Room(wp) /\ Room(gc_wp)' = Room(gc_wp)
  BY <1>2, <1>3, <1>4 DEF Room
<1>6. Writable' = Writable
  BY <1>2, <1>5 DEF Writable
<1>7. CreditReserve'
  BY <1>2, <1>6 DEF Reserved, CreditReserve
<1> QED BY <1>1, <1>2, <1>7 DEF Reserved, FreeLineLeft, CopyUnderWay

\* A page is programmed at write pointer w, the other pointer being v.
LEMMA RoomAfterMap ==
  ASSUME Core, NEW w \in WritePointer, NEW v \in WritePointer, w.line # v.line,
         NEW m, Map(m, NewPage(w)), UNCHANGED ipc
  PROVE  /\ PgsPerLine - vpc'[w.line] - ipc'[w.line]
              = PgsPerLine - vpc[w.line] - ipc[w.line] - 1
         /\ PgsPerLine - vpc'[v.line] - ipc'[v.line]
              = PgsPerLine - vpc[v.line] - ipc[v.line]
<1>1. w.line \in Lines /\ v.line \in Lines /\ NewPage(w)[1] = w.line
  BY DEF WritePointer, NewPage
<1>2. /\ vpc'[w.line] = vpc[w.line] + 1 /\ vpc'[v.line] = vpc[v.line]
      /\ vpc[w.line] \in Int /\ vpc[v.line] \in Int
      /\ ipc[w.line] \in Int /\ ipc[v.line] \in Int /\ ipc' = ipc
  BY <1>1 DEF Map, Core, TypeOK
<1> QED BY <1>2, SlotsFinite

LEMMA ReserveProgramPage ==
  ASSUME Reserved, ProgramPage
  PROVE  Reserved'
<1> USE DEF wfcVars, gcVars
<1>1. Core' /\ Core
  BY CoreProgramPage DEF Reserved
<1>2. /\ pc = "program" /\ pc' = "advance"
      /\ UNCHANGED <<free, wp, gc_wp, credits, refill, ipc>>
      /\ Map(cur, NewPage(wp))
  BY DEF ProgramPage
<1>3. wp \in WritePointer /\ gc_wp \in WritePointer /\ wp.line # gc_wp.line
  BY <1>1, <1>2 DEF Core, TypeOK, LinePlaces
<1>4. Room(wp)' = Room(wp) - 1 /\ Room(gc_wp)' = Room(gc_wp)
  BY <1>1, <1>2, <1>3, RoomAfterMap DEF Room
<1>5. Writable' = Writable - 1 /\ Writable \in Int
  BY <1>1, <1>2, <1>4, RoomFacts DEF Writable
<1>6. CreditReserve'
  BY <1>2, <1>5 DEF Reserved, CreditReserve
<1> QED BY <1>1, <1>2, <1>6 DEF Reserved, FreeLineLeft, CopyUnderWay

(***************************************************************************)
(* A credit is consumed after the write pointer has moved.                 *)
(***************************************************************************)
LEMMA ReserveConsume ==
  ASSUME Reserved, Core', pc = "advance", ConsumeCredit, Writable' = Writable
  PROVE  Reserved'
<1>1. /\ credits > 0 /\ refill > 0 /\ refill <= PgsPerLine
      /\ Writable + 1 >= 2 * PgsPerLine + 2 + credits
  BY DEF Reserved, CreditReserve
<1>2. credits \in Int /\ Writable \in Int /\ refill \in Int /\ PgsPerLine \in Int
  BY RoomFacts DEF Reserved, FreeLineLeft
<1>3. /\ credits' = credits - 1 /\ refill' = refill
      /\ pc' = IF credits - 1 <= 0 THEN "refill" ELSE "idle"
  BY DEF ConsumeCredit
<1>4. Writable' >= 2 * PgsPerLine + 2 + credits'
  BY <1>1, <1>2, <1>3
<1>5. CASE credits - 1 <= 0
  <2>1. pc' = "refill" /\ credits' = 0
    BY <1>1, <1>2, <1>3, <1>5
  <2> QED BY <1>1, <1>3, <1>4, <2>1
          DEF Reserved, CreditReserve, FreeLineLeft, CopyUnderWay
<1>6. CASE ~(credits - 1 <= 0)
  <2>1. pc' = "idle" /\ credits' > 0
    BY <1>1, <1>2, <1>3, <1>6
  <2> QED BY <1>1, <1>3, <1>4, <2>1
          DEF Reserved, CreditReserve, FreeLineLeft, CopyUnderWay
<1> QED BY <1>5, <1>6

LEMMA ReserveUserMove ==
  ASSUME Reserved, UserStay \/ \E d \in Dies : UserNextDie(d)
  PROVE  Reserved'
<1>1. Core' /\ pc = "advance" /\ ConsumeCredit
  BY CoreUserStay, CoreUserNextDie DEF Reserved, UserStay, UserNextDie
<1>2. UNCHANGED <<vpc, ipc, free, gc_wp>>
  BY DEF UserStay, UserNextDie, EndOfRequest
<1>3. wp'.line = wp.line
  BY DEF Reserved, Core, TypeOK, WritePointer, UserStay, UserNextDie
<1>4. Writable' = Writable
  BY <1>2, <1>3 DEF Writable, Room
<1> QED BY <1>1, <1>4, ReserveConsume

(***************************************************************************)
(* A pointer moves from a used-up line to the head of the free list: the   *)
(* free list loses a line and the pointer gains one.                       *)
(***************************************************************************)
LEMMA UsedUp ==
  ASSUME Core, NEW i \in Lines, i # gcline,
         \A t \in Slots : status[<<i, t>>] # "FREE"
  PROVE  PgsPerLine - vpc[i] - ipc[i] = 0
<1>1. vpc[i] + ipc[i] = PgsPerLine /\ vpc[i] \in 0 .. PgsPerLine /\ ipc[i] \in 0 .. PgsPerLine
  BY CountsOfLine DEF Core
<1> QED BY <1>1, SlotsFinite

LEMMA FreshLine ==
  ASSUME Core, pc # "oops", free # << >>, free' = Tail(free)
  PROVE  /\ Head(free) \in Lines
         /\ PgsPerLine - vpc[Head(free)] - ipc[Head(free)] = PgsPerLine
         /\ Len(free') * PgsPerLine = Len(free) * PgsPerLine - PgsPerLine
<1>1. PICK h \in Lines : h = Head(free)
  BY DEF Core, TypeOK
<1>2. InFree(h) /\ Len(free') = Len(free) - 1 /\ Len(free) \in Int
  BY <1>1, TakeHead DEF Core, TypeOK, LinePlaces, Distinct
<1>3. h # gcline
  BY <1>2 DEF Core, LinePlaces, InUse
<1>4. PagesWith(h, "VALID") = {} /\ PagesWith(h, "INVALID") = {}
  BY <1>2 DEF Core, ListContents, PagesWith
<1>5. vpc[h] = 0 /\ ipc[h] = 0
  BY <1>3, <1>4, FS_EmptySet DEF Core, LineCounts
<1>6. PgsPerLine \in Int
  BY SlotsFinite
<1>7. Len(free') * PgsPerLine = Len(free) * PgsPerLine - PgsPerLine
  BY <1>2, <1>6, LineMore
<1> QED BY <1>1, <1>5, <1>6, <1>7

LEMMA ReserveUserNextLine ==
  ASSUME Reserved, UserNextLine
  PROVE  Reserved'
<1>1. Core' /\ Core /\ pc = "advance"
  BY CoreUserNextLine DEF Reserved, UserNextLine
<1>2. UNCHANGED <<vpc, ipc, gc_wp>>
  BY DEF UserNextLine, EndOfRequest
<1>3. wp.line \in Lines /\ wp.line # gcline
  BY <1>1 DEF Core, TypeOK, WritePointer, LinePlaces
<1>4. Room(wp) = 0
  BY <1>1, <1>3, UserLineUsed, UsedUp DEF Room
<1>5. /\ Writable = Len(free) * PgsPerLine + Room(wp) + Room(gc_wp)
      /\ Room(gc_wp) \in Nat /\ Room(gc_wp) <= PgsPerLine
      /\ PgsPerLine \in Nat /\ credits \in Int /\ Writable \in Int
      /\ Len(free) * PgsPerLine \in Int
  BY <1>1, RoomFacts
<1>6. credits > 0 /\ Writable + 1 >= 2 * PgsPerLine + 2 + credits
  BY <1>1 DEF Reserved, CreditReserve
<1>7. free # << >>
  <2>1. ASSUME free = << >> PROVE FALSE
    <3>1. Len(free) * PgsPerLine = 0
      BY <1>5, <2>1
    <3> QED BY <1>4, <1>5, <1>6, <3>1
  <2> QED BY <2>1
<1>8. /\ wp' = [line |-> Head(free), die |-> 0, pg |-> <<0, 0>>]
      /\ free' = Tail(free) /\ ConsumeCredit
  BY <1>7 DEF UserNextLine
<1>9. /\ PgsPerLine - vpc[Head(free)] - ipc[Head(free)] = PgsPerLine
      /\ Len(free') * PgsPerLine = Len(free) * PgsPerLine - PgsPerLine
  BY <1>1, <1>7, <1>8, FreshLine
<1>10. Room(wp)' = PgsPerLine /\ Room(gc_wp)' = Room(gc_wp)
  BY <1>2, <1>8, <1>9 DEF Room
<1>11. Writable' = Writable
  <2>1. Writable' = Len(free') * PgsPerLine + Room(wp)' + Room(gc_wp)'
    BY DEF Writable
  <2> QED BY <1>4, <1>5, <1>9, <1>10, <2>1
<1> QED BY <1>1, <1>8, <1>11, ReserveConsume

LEMMA ReserveRefillOnly ==
  ASSUME Reserved, RefillOnly
  PROVE  Reserved'
<1> USE DEF lineVars
<1>1. Core' /\ Core /\ pc = "refill" /\ pc' = "idle"
  BY CoreRefillOnly DEF Reserved, RefillOnly
<1>2. ~ShouldGcHigh
  BY <1>1, VictimExists DEF RefillOnly
<1>3. /\ Len(free) \in Nat /\ Room(wp) \in Nat /\ Room(gc_wp) \in Nat
      /\ Room(wp) >= 1 /\ Room(gc_wp) >= 1
      /\ Writable = Len(free) * PgsPerLine + Room(wp) + Room(gc_wp)
      /\ Len(free) * PgsPerLine \in Int
      /\ PgsPerLine \in Nat /\ credits \in Int /\ refill \in Int /\ Writable \in Int
  BY <1>1, RoomFacts
<1>4. credits = 0 /\ refill > 0 /\ refill <= PgsPerLine
  BY <1>1 DEF Reserved, CreditReserve
<1>5. Len(free) * PgsPerLine >= 3 * PgsPerLine
  <2>1. Len(free) >= 3
    BY <1>2, <1>3 DEF ShouldGcHigh, GcThresLinesHigh
  <2> QED BY <1>3, <2>1, ThreeLines
<1>6. credits' = credits + refill /\ refill' = refill
  BY DEF RefillOnly
<1>7. Writable' = Writable
  BY DEF RefillOnly, Writable, Room
<1>8. Writable' >= 2 * PgsPerLine + 2 + credits'
  BY <1>3, <1>4, <1>5, <1>6, <1>7
<1>9. credits' > 0 /\ refill' > 0 /\ refill' <= PgsPerLine
  BY <1>3, <1>4, <1>6
<1> QED
  BY <1>1, <1>8, <1>9 DEF Reserved, CreditReserve, FreeLineLeft, CopyUnderWay

LEMMA ReserveSelectVictim ==
  ASSUME Reserved, NEW i \in victim, SelectVictim(i)
  PROVE  Reserved'
<1>1. Core' /\ Core /\ pc = "refill" /\ pc' = "gc" /\ i \in Lines
  BY CoreSelectVictim DEF Reserved, SelectVictim, Core, TypeOK
<1>2. /\ refill' = ipc[i] /\ credits' = credits /\ gcline' = i /\ todo' = Slots
      /\ UNCHANGED <<status, vpc, ipc, free, wp, gc_wp>>
  BY DEF SelectVictim
<1>3. Writable' = Writable
  BY <1>2 DEF Writable, Room
<1>4. i # gcline
  BY <1>1, LpnsAssumption DEF Core, TypeOK
<1>5. /\ vpc[i] \in 0 .. PgsPerLine /\ ipc[i] \in 0 .. PgsPerLine
      /\ vpc[i] + ipc[i] = PgsPerLine <=> \A s \in Slots : status[<<i, s>>] # "FREE"
      /\ ipc[i] > 0 <=> \E s \in Slots : status[<<i, s>>] = "INVALID"
      /\ vpc[i] = Cardinality(PagesWith(i, "VALID"))
  BY <1>1, <1>4, CountsOfLine DEF Core, LineCounts
<1>6. vpc[i] + ipc[i] = PgsPerLine /\ ipc[i] > 0
  BY <1>1, <1>5 DEF Core, ListContents
<1>7. Cardinality(ToCopy)' = vpc[i]
  <2>1. ToCopy' = PagesWith(i, "VALID")
    BY <1>2 DEF ToCopy, PagesWith
  <2> QED BY <1>5, <2>1
<1>8. /\ credits = 0 /\ Writable >= 2 * PgsPerLine + 2 + credits
  BY <1>1 DEF Reserved, CreditReserve
<1>9. Writable \in Int /\ PgsPerLine \in Nat
  BY <1>1, RoomFacts
<1>10. Writable' - Cardinality(ToCopy)' >= 2 * PgsPerLine + 2 + refill' - PgsPerLine
  BY <1>2, <1>3, <1>5, <1>6, <1>7, <1>8, <1>9
<1>11. credits' = 0 /\ refill' > 0 /\ refill' <= PgsPerLine
  BY <1>2, <1>5, <1>6, <1>8, <1>9
<1> QED
  BY <1>1, <1>10, <1>11 DEF Reserved, CreditReserve, FreeLineLeft, CopyUnderWay

(***************************************************************************)
(* A collection.                                                           *)
(***************************************************************************)
LEMMA LeaveToCopy ==
  ASSUME Core, pc \in {"gc", "gcadvance"}, NEW s \in todo, NextToVisit(s),
         LeaveSlot(s), gcline' = gcline
  PROVE  ToCopy' = ToCopy \ {s}
<1>1. gcline \in Lines /\ todo \in SUBSET Slots /\ todo' = todo \ {s}
  BY DEF Core, TypeOK, LeaveSlot
<1>2. ASSUME NEW t \in todo \ {s} PROVE status'[<<gcline, t>>] = status[<<gcline, t>>]
  <2>1. t \in Slots /\ t \in todo'
    BY <1>1
  <2>2. ~(LastOfBlk(s) /\ t[1] = s[1])
    BY <2>1, LeaveEffect
  <2> QED BY <1>1, <2>1, <2>2, LeaveEffect
<1> QED BY <1>1, <1>2 DEF ToCopy

LEMMA ReserveGcSkip ==
  ASSUME Reserved, NEW s \in todo, GcSkip(s)
  PROVE  Reserved'
<1> USE DEF lineVars, wfcVars
<1>1. /\ Core' /\ Core /\ pc = "gc" /\ pc' = "gc" /\ LeaveSlot(s) /\ NextToVisit(s)
      /\ UNCHANGED <<vpc, ipc, free, wp, gc_wp, credits, refill, gcline>>
  BY CoreGcSkip DEF Reserved, GcSkip, LeaveSlot
<1>2. s \notin ToCopy
  BY DEF GcSkip, ToCopy
<1>3. ToCopy' = ToCopy
  BY <1>1, <1>2, LeaveToCopy
<1>4. Writable' = Writable
  BY <1>1 DEF Writable, Room
<1>5. Cardinality(ToCopy)' = Cardinality(ToCopy)
  BY <1>3
<1> QED
  BY <1>1, <1>4, <1>5 DEF Reserved, CreditReserve, FreeLineLeft, CopyUnderWay

LEMMA ReserveGcCopy ==
  ASSUME Reserved, NEW s \in todo, GcCopy(s)
  PROVE  Reserved'
<1> USE DEF wfcVars, gcVars
<1>1. /\ Core' /\ Core /\ pc = "gc" /\ pc' = "gcadvance" /\ NextToVisit(s)
      /\ status[<<gcline, s>>] = "VALID"
      /\ UNCHANGED <<ipc, free, wp, gc_wp, credits, refill, gcline, todo>>
      /\ Map(rmap[<<gcline, s>>], NewPage(gc_wp))
  BY CoreGcCopy DEF Reserved, GcCopy
<1>2. /\ wp \in WritePointer /\ gc_wp \in WritePointer /\ gc_wp.line # wp.line
      /\ gc_wp.line # gcline /\ gcline \in Lines /\ todo \in SUBSET Slots
  BY <1>1 DEF Core, TypeOK, LinePlaces
<1>3. Room(gc_wp)' = Room(gc_wp) - 1 /\ Room(wp)' = Room(wp)
  BY <1>1, <1>2, RoomAfterMap DEF Room
<1>4. Writable' = Writable - 1 /\ Writable \in Int
  BY <1>1, <1>3, RoomFacts DEF Writable
<1>5. ToCopy' = ToCopy
  <2>1. NewPage(gc_wp)[1] # gcline
    BY <1>2 DEF NewPage
  <2>2. \A t \in todo : <<gcline, t>> \in Pages /\ <<gcline, t>> # NewPage(gc_wp)
    BY <1>2, <2>1 DEF Pages
  <2>3. \A t \in todo : status'[<<gcline, t>>] = status[<<gcline, t>>]
    BY <1>1, <2>2 DEF Core, TypeOK, Map
  <2> QED BY <1>1, <2>3 DEF ToCopy
<1>6. Cardinality(ToCopy)' = Cardinality(ToCopy) /\ Cardinality(ToCopy) \in Nat
  BY <1>1, <1>5, ToCopyFacts DEF Core
<1>7. CreditReserve'
  <2>1. /\ credits = 0 /\ refill > 0 /\ refill <= PgsPerLine
        /\ Writable - Cardinality(ToCopy) >= 2 * PgsPerLine + 2 + refill - PgsPerLine
    BY <1>1 DEF Reserved, CreditReserve
  <2>2. Writable' + 1 - Cardinality(ToCopy)' >= 2 * PgsPerLine + 2 + refill' - PgsPerLine
    BY <1>1, <1>4, <1>6, <2>1
  <2> QED BY <1>1, <2>1, <2>2 DEF CreditReserve
<1>8. CopyUnderWay'
  <2>1. s \in ToCopy' /\ NextToVisit(s)'
    BY <1>1, <1>5 DEF ToCopy, NextToVisit
  <2> QED BY <2>1 DEF CopyUnderWay
<1> QED BY <1>1, <1>7, <1>8 DEF Reserved, FreeLineLeft

(***************************************************************************)
(* The GC pointer has advanced: one live page of the victim less.          *)
(***************************************************************************)
LEMMA ReserveGcLeave ==
  ASSUME Reserved, Core', pc = "gcadvance", NEW s \in todo, NextToVisit(s),
         LeaveSlot(s), UNCHANGED <<credits, refill, gcline>>, Writable' = Writable
  PROVE  Reserved'
<1>1. Core /\ pc' = "gc"
  BY DEF Reserved, LeaveSlot
<1>2. s \in ToCopy
  BY <1>1, NextUnique DEF Reserved, CopyUnderWay, Core, ToCopy
<1>3. ToCopy' = ToCopy \ {s}
  BY <1>1, LeaveToCopy
<1>4. Cardinality(ToCopy)' = Cardinality(ToCopy) - 1 /\ Cardinality(ToCopy) \in Nat
  BY <1>1, <1>2, <1>3, ToCopyFacts, CardRemove DEF Core
<1>5. Writable \in Int /\ refill \in Int /\ PgsPerLine \in Nat
  BY <1>1, RoomFacts
<1>6. /\ credits = 0 /\ refill > 0 /\ refill <= PgsPerLine
      /\ Writable + 1 - Cardinality(ToCopy) >= 2 * PgsPerLine + 2 + refill - PgsPerLine
  BY DEF Reserved, CreditReserve
<1>7. Writable' - Cardinality(ToCopy)' >= 2 * PgsPerLine + 2 + refill' - PgsPerLine
  BY <1>4, <1>5, <1>6
<1> QED
  BY <1>1, <1>6, <1>7 DEF Reserved, CreditReserve, FreeLineLeft, CopyUnderWay

LEMMA ReserveGcWithinLine ==
  ASSUME Reserved, NEW s \in todo, GcWithinLine(s)
  PROVE  Reserved'
<1> USE DEF wfcVars
<1>1. /\ Core' /\ pc = "gcadvance" /\ LeaveSlot(s) /\ NextToVisit(s)
      /\ UNCHANGED <<vpc, ipc, free, wp, credits, refill, gcline>>
  BY CoreGcWithinLine DEF Reserved, GcWithinLine, GcAdvanced
<1>2. gc_wp'.line = gc_wp.line
  BY DEF Reserved, Core, TypeOK, WritePointer, GcWithinLine
<1>3. Writable' = Writable
  BY <1>1, <1>2 DEF Writable, Room
<1> QED BY <1>1, <1>3, ReserveGcLeave

LEMMA ReserveGcNextLine ==
  ASSUME Reserved, NEW s \in todo, GcNextLine(s)
  PROVE  Reserved'
<1> USE DEF wfcVars
<1>1. /\ Core' /\ Core /\ pc = "gcadvance" /\ NextToVisit(s)
      /\ UNCHANGED <<vpc, ipc, wp, credits, refill, gcline>>
  BY CoreGcNextLine DEF Reserved, GcNextLine, GcAdvanced
<1>2. gc_wp.line \in Lines /\ gc_wp.line # gcline
  BY <1>1 DEF Core, TypeOK, WritePointer, LinePlaces
<1>3. Room(gc_wp) = 0
  BY <1>1, <1>2, GcLineUsed, UsedUp DEF Room
<1>4. /\ Writable = Len(free) * PgsPerLine + Room(wp) + Room(gc_wp)
      /\ Room(wp) \in Nat /\ Room(wp) <= PgsPerLine
      /\ PgsPerLine \in Nat /\ refill \in Int /\ Writable \in Int
      /\ Len(free) * PgsPerLine \in Int
  BY <1>1, RoomFacts
<1>5. free # << >>
  <2>1. ASSUME free = << >> PROVE FALSE
    <3>1. Len(free) * PgsPerLine = 0
      BY <1>4, <2>1
    <3>2. /\ refill > 0
          /\ Writable + 1 - Cardinality(ToCopy) >= 2 * PgsPerLine + 2 + refill - PgsPerLine
      BY <1>1 DEF Reserved, CreditReserve
    <3>3. Cardinality(ToCopy) \in Nat
      BY <1>1, ToCopyFacts DEF Core
    <3> QED BY <1>3, <1>4, <3>1, <3>2, <3>3
  <2> QED BY <2>1
<1>6. /\ gc_wp' = [line |-> Head(free), die |-> 0, pg |-> <<0, 0>>]
      /\ free' = Tail(free) /\ LeaveSlot(s)
  BY <1>5 DEF GcNextLine
<1>7. /\ PgsPerLine - vpc[Head(free)] - ipc[Head(free)] = PgsPerLine
      /\ Len(free') * PgsPerLine = Len(free) * PgsPerLine - PgsPerLine
  BY <1>1, <1>5, <1>6, FreshLine
<1>8. Room(gc_wp)' = PgsPerLine /\ Room(wp)' = Room(wp)
  BY <1>1, <1>6, <1>7 DEF Room
<1>9. Writable' = Writable
  <2>1. Writable' = Len(free') * PgsPerLine + Room(wp)' + Room(gc_wp)'
    BY DEF Writable
  <2> QED BY <1>3, <1>4, <1>7, <1>8, <2>1
<1> QED BY <1>1, <1>6, <1>9, ReserveGcLeave

LEMMA ReserveGcDone ==
  ASSUME Reserved, GcDone
  PROVE  Reserved'
<1>1. /\ Core' /\ Core /\ pc = "gc" /\ pc' = "idle" /\ todo = {}
      /\ free' = Append(free, gcline) /\ credits' = credits + refill
      /\ UNCHANGED <<refill, wp, gc_wp>>
      /\ vpc' = [vpc EXCEPT ![gcline] = 0] /\ ipc' = [ipc EXCEPT ![gcline] = 0]
  BY CoreGcDone DEF Reserved, GcDone
<1>2. /\ wp.line \in Lines /\ gc_wp.line \in Lines /\ gcline \in Lines
      /\ wp.line # gcline /\ gc_wp.line # gcline
  BY <1>1 DEF Core, TypeOK, WritePointer, LinePlaces
<1>3. Room(wp)' = Room(wp) /\ Room(gc_wp)' = Room(gc_wp)
  BY <1>1, <1>2 DEF Room, Core, TypeOK
<1>4. /\ Writable = Len(free) * PgsPerLine + Room(wp) + Room(gc_wp)
      /\ Room(wp) \in Nat /\ Room(gc_wp) \in Nat /\ Len(free) \in Nat
      /\ PgsPerLine \in Nat /\ refill \in Int /\ Writable \in Int
      /\ Len(free) * PgsPerLine \in Int
  BY <1>1, RoomFacts
<1>5. Len(free') * PgsPerLine = Len(free) * PgsPerLine + PgsPerLine
  <2>1. Len(free') = Len(free) + 1
    BY <1>1, <1>2 DEF Core, TypeOK
  <2> QED BY <1>4, <2>1, LineMore
<1>6. Writable' = Writable + PgsPerLine
  <2>1. Writable' = Len(free') * PgsPerLine + Room(wp)' + Room(gc_wp)'
    BY DEF Writable
  <2> QED BY <1>3, <1>4, <1>5, <2>1, SMTT(30)
<1>7. /\ credits = 0 /\ refill > 0 /\ refill <= PgsPerLine
      /\ Writable - Cardinality(ToCopy) >= 2 * PgsPerLine + 2 + refill - PgsPerLine
  BY <1>1 DEF Reserved, CreditReserve
<1>8. Cardinality(ToCopy) = 0
  <2>1. ToCopy = {}
    BY <1>1 DEF ToCopy
  <2> QED BY <2>1, FS_EmptySet
<1>9. Writable' >= 2 * PgsPerLine + 2 + credits'
  BY <1>1, <1>4, <1>6, <1>7, <1>8
<1>10. credits' > 0 /\ refill' > 0 /\ refill' <= PgsPerLine
  BY <1>1, <1>4, <1>7
<1> QED
  BY <1>1, <1>9, <1>10 DEF Reserved, CreditReserve, FreeLineLeft, CopyUnderWay

LEMMA ReserveInit == Init => Reserved
<1> SUFFICES ASSUME Init PROVE Reserved
  OBVIOUS
<1>1. Core /\ pc = "idle"
  BY CoreInit DEF Init
<1>2. /\ credits = PgsPerLine /\ refill = PgsPerLine /\ Len(free) = TtLines - 2
      /\ Room(wp) = PgsPerLine /\ Room(gc_wp) = PgsPerLine
  <2>1. /\ Len(free) = TtLines - 2 /\ 0 \in Lines /\ 1 \in Lines
        /\ wp.line = 0 /\ gc_wp.line = 1
    BY GeometryAssumption DEF Init, Lines
  <2>2. vpc[0] = 0 /\ vpc[1] = 0 /\ ipc[0] = 0 /\ ipc[1] = 0
    BY <2>1 DEF Init
  <2>3. PgsPerLine \in Int
    BY SlotsFinite
  <2>4. Room(wp) = PgsPerLine - 0 - 0 /\ Room(gc_wp) = PgsPerLine - 0 - 0
    BY <2>1, <2>2 DEF Room
  <2>5. credits = PgsPerLine /\ refill = PgsPerLine
    BY DEF Init
  <2> QED BY <2>1, <2>3, <2>4, <2>5
<1>3. /\ PgsPerLine \in Nat /\ PgsPerLine >= 1 /\ Len(free) * PgsPerLine \in Int
      /\ Writable = Len(free) * PgsPerLine + Room(wp) + Room(gc_wp)
  BY <1>1, RoomFacts
<1>4. Len(free) * PgsPerLine >= 3 * PgsPerLine
  <2>1. Len(free) \in Nat /\ Len(free) >= 3
    BY <1>2, GeometryAssumption
  <2> QED BY <1>3, <2>1, ThreeLines
<1>5. Writable >= 2 * PgsPerLine + 2 + credits
  BY <1>2, <1>3, <1>4
<1> QED
  BY <1>1, <1>2, <1>3, <1>5 DEF Reserved, CreditReserve, FreeLineLeft, CopyUnderWay

LEMMA ReserveStep == Reserved /\ [Next]_vars => Reserved'
<1> SUFFICES ASSUME Reserved, [Next]_vars PROVE Reserved'
  OBVIOUS
<1>1. CASE UNCHANGED vars
  <2>1. Core'
    BY <1>1, CoreStutter DEF Reserved
  <2>2. UNCHANGED <<Writable, ToCopy, credits, refill, pc>>
    BY <1>1 DEF vars, Writable, Room, ToCopy
  <2>3. CreditReserve'
    <3>1. Cardinality(ToCopy)' = Cardinality(ToCopy)
      BY <2>2
    <3> QED BY <2>2, <3>1 DEF Reserved, CreditReserve
  <2>4. CopyUnderWay'
    BY <1>1, <2>2 DEF Reserved, CopyUnderWay, NextToVisit, vars
  <2> QED BY <2>1, <2>2, <2>3, <2>4 DEF Reserved, FreeLineLeft
<1>2. CASE Next
  BY <1>2, ReserveWritePage, ReserveProgramPage, ReserveUserMove,
     ReserveUserNextLine, ReserveRefillOnly, ReserveSelectVictim, ReserveGcSkip,
     ReserveGcCopy, ReserveGcWithinLine, ReserveGcNextLine, ReserveGcDone DEF Next
<1> QED BY <1>1, <1>2

(***************************************************************************)
(* The FTL never runs out of free lines, whatever the host writes: the     *)
(* NULL that get_next_free_line returns for an empty list is never         *)
(* dereferenced, by user writes or inside a collection.                    *)
(***************************************************************************)
THEOREM NeverOutOfLines == Spec => []FreeLineLeft
BY ReserveInit, ReserveStep, PTL DEF Spec, Reserved

(***************************************************************************)
(* The credits handed out are always covered by programmable pages, with   *)
(* more than two lines to spare, and they are never stuck at zero.         *)
(***************************************************************************)
THEOREM CreditsCovered == Spec => []CreditReserve
BY ReserveInit, ReserveStep, PTL DEF Spec, Reserved

=============================================================================
