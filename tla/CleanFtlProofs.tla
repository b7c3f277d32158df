--------------------------- MODULE CleanFtlProofs ---------------------------
(***************************************************************************)
(* Proofs about CleanFtl, for every number of partitions, dies, pages and  *)
(* lists, every budget and degree.                                         *)
(*                                                                         *)
(* The two sets of lists are one table of queues (Work), in which an       *)
(* action removes a chunk, changes it where it is or moves it.  CleanInv   *)
(* is the inductive invariant: CleanTypes, with valid positions into the   *)
(* lists; ShareInv, the chunks share the mapped pages not yet written;     *)
(* DenseIn, a partition's written pages are those its pointer has passed;  *)
(* and the pointer always has a line, because a partition's mapped pages,  *)
(* of which ShareInv lets no other be written, do not fill all its lines.  *)
(***************************************************************************)
EXTENDS CleanFtl, FiniteSetTheorems, SequenceTheorems, FunctionTheorems, TLAPS

-----------------------------------------------------------------------------
(***************************************************************************)
(* Arithmetic: pages of one partition are NrParts apart.                   *)
(***************************************************************************)
LEMMA DivMod ==
  ASSUME NEW P \in Nat \ {0}, NEW a \in Int
  PROVE  a % P \in 0 .. P - 1 /\ \E q \in Int : a = P * q + (a % P)
<1>1. /\ a \div P \in Int /\ a % P \in 0 .. P - 1
      /\ a = P * (a \div P) + (a % P)
  BY SMT
<1> QED BY <1>1

LEMMA ModUnique ==
  ASSUME NEW P \in Nat \ {0}, NEW q \in Int, NEW r \in 0 .. P - 1,
         NEW x \in Int, x = P * q + r
  PROVE  x % P = r
BY SMT

LEMMA ModAdd ==
  ASSUME NEW P \in Nat \ {0}, NEW a \in Int
  PROVE  (a + P) % P = a % P
<1>1. PICK q \in Int : a = P * q + (a % P)
  BY DivMod
<1>2. a % P \in 0 .. P - 1
  BY DivMod
<1>3. a + P = P * (q + 1) + (a % P)
  BY <1>1, <1>2
<1> DEFINE n == q + 1
           r == a % P
           x == a + P
<1>4. n \in Int /\ r \in 0 .. P - 1 /\ x \in Int /\ x = P * n + r
  BY <1>2, <1>3
<1> HIDE DEF n, r, x
<1>5. x % P = r
  BY <1>4, ModUnique
<1> QED BY <1>5 DEF r, x

LEMMA ModGap ==
  ASSUME NEW P \in Nat \ {0}, NEW a \in Int, NEW b \in Int,
         a < b, a % P = b % P
  PROVE  a + P <= b
<1>1. PICK q \in Int : a = P * q + (a % P)
  BY DivMod
<1>2. PICK p \in Int : b = P * p + (b % P)
  BY DivMod
<1>3. a % P \in Int
  BY DivMod
<1>4. b - a = P * (p - q)
  BY <1>1, <1>2, <1>3
<1>5. p - q >= 1
  <2> SUFFICES ASSUME q - p >= 0 PROVE FALSE
    OBVIOUS
  <2>1. P * (q - p) >= 0
    OBVIOUS
  <2>2. P * (p - q) = - (P * (q - p))
    OBVIOUS
  <2> QED BY <2>1, <2>2, <1>4
<1>6. P * (p - q) >= P
  BY <1>5
<1> QED BY <1>4, <1>6

LEMMA ModDiff ==
  ASSUME NEW P \in Nat \ {0}, NEW a \in Int, NEW i \in 0 .. P - 1
  PROVE  (a - ((a - i) % P)) % P = i
<1> DEFINE d == a - i
<1>1. d \in Int /\ a = d + i
  OBVIOUS
<1> HIDE DEF d
<1>2. PICK q \in Int : d = P * q + (d % P)
  BY <1>1, DivMod
<1>3. d % P \in Int
  BY <1>1, DivMod
<1>4. a - (d % P) = P * q + i
  <2> DEFINE m == P * q
  <2>1. m \in Int
    OBVIOUS
  <2> HIDE DEF m
  <2>2. d = m + (d % P)
    BY <1>2 DEF m
  <2>3. a - (d % P) = m + i
    BY <2>1, <2>2, <1>1, <1>3
  <2> QED BY <2>3 DEF m
<1>5. (a - (d % P)) % P = i
  BY <1>4, ModUnique
<1> QED BY <1>5 DEF d

LEMMA ModStart ==
  ASSUME NEW P \in Nat \ {0}, NEW a \in Int, NEW i \in 0 .. P - 1
  PROVE  (a + ((i - a) % P)) % P = i
<1> DEFINE d == i - a
<1>1. d \in Int /\ a = i - d
  OBVIOUS
<1> HIDE DEF d
<1>2. PICK q \in Int : d = P * q + (d % P)
  BY <1>1, DivMod
<1>3. d % P \in Int /\ - q \in Int
  BY <1>1, DivMod
<1>4. P * (- q) = - (P * q)
  OBVIOUS
<1> DEFINE r == d % P
           m == P * q
           n == - q
           x == a + r
<1>5. r \in Int /\ m \in Int /\ n \in Int /\ d = m + r /\ P * n = - m
  BY <1>2, <1>3, <1>4
<1>6. (a + r) % P = i
  <2> HIDE DEF r, m, n
  <2>1. x = P * n + i /\ x \in Int
    BY <1>1, <1>5
  <2> HIDE DEF x
  <2>2. x % P = i
    BY <2>1, <1>5, ModUnique
  <2> QED BY <2>2 DEF x
<1> QED BY <1>6 DEF d, r

LEMMA LeastNatural ==
  ASSUME NEW T \in SUBSET Nat, T # {}
  PROVE  \E x \in T : \A y \in T : x <= y
<1>1. PICK m \in T : TRUE
  OBVIOUS
<1> DEFINE B == 1 .. m
           R == StrictSubsetOrdering(B)
           U == {1 .. x : x \in {y \in T : y <= m}}
<1>2. IsWellFoundedOn(R, SUBSET B)
  <2>1. IsFiniteSet(B)
    BY FS_Interval
  <2> HIDE DEF B
  <2>2. FiniteSubsetsOf(B) = SUBSET B
    BY <2>1, FS_FiniteSubsetsOfFinite
  <2>3. IsWellFoundedOn(R, FiniteSubsetsOf(B))
    BY FS_StrictSubsetOrderingWellFounded
  <2> QED BY <2>2, <2>3
<1>3. U \in SUBSET SUBSET B /\ U # {}
  OBVIOUS
<1>4. \E s \in U : \A t \in U : ~ (<<t, s>> \in R)
  <2> HIDE DEF R, U, B
  <2> QED BY <1>2, <1>3, WFMin
<1>5. PICK x \in {y \in T : y <= m} : \A t \in U : ~ (<<t, 1 .. x>> \in R)
  BY <1>4
<1>6. ASSUME NEW y \in T PROVE x <= y
  <2> SUFFICES ASSUME y < x PROVE FALSE
    OBVIOUS
  <2>1. 1 .. y \in U
    OBVIOUS
  <2>2. /\ x \in 1 .. x /\ x \notin 1 .. y /\ 1 .. y \subseteq 1 .. x
        /\ x \in Nat /\ m \in Nat /\ x <= m
    OBVIOUS
  <2>3. <<1 .. y, 1 .. x>> \notin R
    BY <1>5, <2>1
  <2>4. 1 .. y \in SUBSET B /\ 1 .. x \in SUBSET B
    BY <2>2
  <2> QED BY <2>2, <2>3, <2>4 DEF StrictSubsetOrdering
<1> QED BY <1>6

-----------------------------------------------------------------------------
(***************************************************************************)
(* Sorting: SortedRuns has each run once.                                  *)
(***************************************************************************)
LEMMA SortsBeforeOrder ==
  ASSUME NEW p \in Int \X Int, NEW q \in Int \X Int, NEW r \in Int \X Int
  PROVE  /\ ~ SortsBefore(p, p)
         /\ SortsBefore(p, q) /\ SortsBefore(q, r) => SortsBefore(p, r)
BY DEF SortsBefore

\* Runs of one set that begin at the same page are the same run.
LEMMA RunsSorted ==
  ASSUME NEW m \in SUBSET Int, NEW p \in Runs(m), NEW q \in Runs(m), p # q
  PROVE  SortsBefore(p, q) \/ SortsBefore(q, p)
<1>1. p \in Int \X Int /\ q \in Int \X Int
  BY DEF Runs
<1>2. CASE p[1] # q[1]
  BY <1>1, <1>2 DEF SortsBefore
<1>3. CASE p[1] = q[1]
  <2>1. p[2] # q[2]
    BY <1>1, <1>3
  <2> QED BY <1>1, <1>3, <2>1 DEF SortsBefore
<1> QED BY <1>2, <1>3

LEMMA SortedRunsAre ==
  ASSUME NEW m \in SUBSET Int, IsFiniteSet(m), NEW S \in SUBSET Runs(m)
  PROVE  /\ IsFiniteSet(S) /\ Cardinality(S) \in Nat
         /\ SortedRuns(S) \in Bijection(1 .. Cardinality(S), S)
<1>1. IsFiniteSet(S) /\ Cardinality(S) \in Nat
  <2>1. IsFiniteSet(m \X m) /\ S \in SUBSET (m \X m)
    BY FS_Product DEF Runs
  <2>2. IsFiniteSet(S)
    BY <2>1, FS_Subset
  <2> QED BY <2>2, FS_CardinalityType
<1>2. \A p \in S : p \in Int \X Int
  BY DEF Runs
<1> DEFINE n == Cardinality(S)
           Before(p) == {q \in S : SortsBefore(q, p)}
           rank == [p \in S |-> Cardinality(Before(p)) + 1]
           Ordered(f) == \A j, k \in DOMAIN f : j < k => SortsBefore(f[j], f[k])
<1>3. ASSUME NEW p \in S
      PROVE  /\ IsFiniteSet(Before(p)) /\ Cardinality(Before(p)) \in Nat
             /\ rank[p] \in 1 .. n
  <2>1. p \in S \ Before(p) /\ Before(p) \in SUBSET S
    BY <1>2, SortsBeforeOrder
  <2>2. /\ IsFiniteSet(Before(p)) /\ Cardinality(Before(p)) <= n
        /\ Cardinality(Before(p)) # n
    BY <1>1, <2>1, FS_Subset
  <2>3. Cardinality(Before(p)) \in Nat
    BY <2>2, FS_CardinalityType
  <2> HIDE DEF Before
  <2> QED BY <1>1, <2>2, <2>3
<1>4. ASSUME NEW p \in S, NEW q \in S, SortsBefore(p, q)
      PROVE  rank[p] < rank[q]
  <2>1. Before(p) \in SUBSET Before(q)
    BY <1>2, <1>4, SortsBeforeOrder
  <2>2. p \in Before(q) /\ p \notin Before(p)
    BY <1>2, <1>4, SortsBeforeOrder
  <2>3. /\ Cardinality(Before(p)) <= Cardinality(Before(q))
        /\ Cardinality(Before(p)) # Cardinality(Before(q))
    BY <1>3, <2>1, <2>2, FS_Subset
  <2>4. Cardinality(Before(p)) \in Nat /\ Cardinality(Before(q)) \in Nat
    BY <1>3
  <2> HIDE DEF Before
  <2> QED BY <2>3, <2>4
<1>5. rank \in Injection(S, 1 .. n)
  <2>1. rank \in [S -> 1 .. n]
    BY <1>3
  <2>2. \A p, q \in S : rank[p] = rank[q] => p = q
    <3> SUFFICES ASSUME NEW p \in S, NEW q \in S, rank[p] = rank[q], p # q
                 PROVE  FALSE
      OBVIOUS
    <3>1. SortsBefore(p, q) \/ SortsBefore(q, p)
      BY RunsSorted
    <3>2. rank[p] \in Int /\ rank[q] \in Int
      BY <2>1, <1>1
    <3> HIDE DEF rank
    <3> QED BY <3>1, <3>2, <1>4
  <2> HIDE DEF rank
  <2> QED BY <2>1, <2>2 DEF Injection, IsInjective
<1> HIDE DEF rank
<1>6. rank \in Surjection(S, 1 .. n)
  <2>1. IsFiniteSet(1 .. n) /\ Cardinality(1 .. n) = Cardinality(S)
    BY <1>1, FS_Interval
  <2> HIDE DEF n
  <2> QED BY <1>5, <2>1, FS_Injection
<1> DEFINE inv == [k \in 1 .. n |-> CHOOSE p \in S : rank[p] = k]
<1>7. \A k \in 1 .. n : inv[k] \in S /\ rank[inv[k]] = k
  BY <1>6 DEF Surjection
<1>8. inv \in [1 .. n -> S]
  BY <1>7
<1>9. Ordered(inv)
  <2> SUFFICES ASSUME NEW j \in 1 .. n, NEW k \in 1 .. n, j < k
               PROVE  SortsBefore(inv[j], inv[k])
    OBVIOUS
  <2>1. inv[j] \in S /\ inv[k] \in S /\ rank[inv[j]] = j /\ rank[inv[k]] = k
    BY <1>7
  <2>2. j \in Int /\ k \in Int /\ j # k /\ ~ (k < j)
    BY <1>1
  <2> HIDE DEF inv, n
  <2>3. inv[j] # inv[k] /\ ~ SortsBefore(inv[k], inv[j])
    BY <2>1, <2>2, <1>4
  <2> QED BY <2>1, <2>3, RunsSorted
<1> DEFINE srt == CHOOSE f \in [1 .. n -> S] : Ordered(f)
<1>10. SortedRuns(S) = srt
  BY DEF SortedRuns
<1>11. srt \in [1 .. n -> S] /\ Ordered(srt)
  <2> HIDE DEF inv, Ordered, n
  <2> QED BY <1>8, <1>9
<1> HIDE DEF srt
<1>12. srt \in Injection(1 .. n, S)
  <2> SUFFICES ASSUME NEW j \in 1 .. n, NEW k \in 1 .. n, srt[j] = srt[k], j # k
               PROVE  FALSE
    BY <1>11 DEF Injection, IsInjective
  <2>1. j < k \/ k < j
    BY <1>1
  <2>2. SortsBefore(srt[j], srt[k]) \/ SortsBefore(srt[k], srt[j])
    BY <1>11, <2>1
  <2>3. srt[j] \in Int \X Int
    BY <1>2, <1>11
  <2> QED BY <2>2, <2>3, SortsBeforeOrder
<1>13. srt \in Surjection(1 .. n, S)
  <2>1. IsFiniteSet(S) /\ Cardinality(1 .. n) = Cardinality(S)
    BY <1>1, FS_Interval
  <2> HIDE DEF n
  <2> QED BY <1>12, <2>1, FS_Injection
<1> QED BY <1>1, <1>10, <1>12, <1>13 DEF Bijection

-----------------------------------------------------------------------------
(***************************************************************************)
(* The constants, and the lists that create_list_from_table_split leaves.  *)
(***************************************************************************)
LEMMA Sizes ==
  /\ NrParts \in Nat \ {0} /\ NrDies \in Nat \ {0} /\ PgsPerBlk \in Nat \ {0}
  /\ PgsPerOneshot \in Nat \ {0} /\ NumList \in Nat \ {0} /\ Budget \in Nat \ {0}
  /\ MaxCon \in Nat /\ Wrap \in Nat \ {0} /\ Wrap > Total
  /\ TtLines \in Nat /\ TtLines > 1
  /\ TtPgs \in Nat /\ Total \in Nat /\ IsFiniteSet(Lpns) /\ Lpns \subseteq Nat
<1>1. /\ NrParts \in Nat \ {0} /\ NrDies \in Nat \ {0} /\ PgsPerBlk \in Nat \ {0}
      /\ PgsPerOneshot \in Nat \ {0} /\ NumList \in Nat \ {0} /\ Budget \in Nat \ {0}
      /\ MaxCon \in Nat /\ Wrap \in Nat /\ TtLines \in Nat /\ TtLines > 1
  BY CleanAssumption
<1>2. TtLines * NrDies \in Nat
  BY <1>1
<1>3. TtPgs \in Nat
  BY <1>1, <1>2 DEF TtPgs
<1>4. Total \in Nat
  BY <1>1, <1>3 DEF Total
<1>5. Wrap > Total /\ Wrap \in Nat \ {0}
  BY <1>1, <1>4, CleanAssumption
<1>6. IsFiniteSet(Lpns) /\ Lpns \subseteq Nat
  BY <1>4, FS_Interval DEF Lpns
<1> QED BY <1>1, <1>3, <1>4, <1>5, <1>6

LEMMA PartChunkType ==
  ASSUME NEW r \in Nat \X Nat, NEW i \in Parts
  PROVE  /\ PartChunk(r, i) \in ChunkType
         /\ PartChunk(r, i).start % NrParts = i
         /\ PartChunk(r, i).start >= r[1]
         /\ PartChunk(r, i).start < r[1] + NrParts
<1> DEFINE a == r[1] + ((i - r[1]) % NrParts)
           b == (r[2] - ((r[2] - i) % NrParts)) % Wrap
<1>1. NrParts \in Nat \ {0} /\ i \in 0 .. NrParts - 1 /\ r[1] \in Nat /\ r[2] \in Nat
  BY Sizes DEF Parts
<1>2. (i - r[1]) % NrParts \in 0 .. NrParts - 1
  BY <1>1
<1>3. a \in Nat /\ a >= r[1] /\ a < r[1] + NrParts
  BY <1>1, <1>2
<1>4. a % NrParts = i
  BY <1>1, ModStart
<1>5. b \in Nat
  <2>1. (r[2] - i) % NrParts \in 0 .. NrParts - 1
    BY <1>1
  <2>2. r[2] - ((r[2] - i) % NrParts) \in Int
    BY <1>1, <2>1
  <2>3. b \in 0 .. Wrap - 1
    BY <2>2, Sizes, DivMod
  <2> QED BY <2>3, Sizes
<1> HIDE DEF a, b
<1>6. [start |-> a, end |-> b, die |-> NIL, conti |-> NIL] \in ChunkType
  BY <1>3, <1>5, Sizes DEF ChunkType, NIL
<1>7. PartChunk(r, i) = [start |-> a, end |-> b, die |-> NIL, conti |-> NIL]
  BY DEF PartChunk, a, b
<1> QED BY <1>3, <1>4, <1>6, <1>7

Filed(m, s) == {r \in Runs(m) : FiledIn(r) = s[2]}

LEMMA CreateListIs ==
  ASSUME NEW m \in SUBSET Lpns, NEW s \in Slots
  PROVE  /\ CreateList(m, s) \in Seq(ChunkType)
         /\ SortedRuns(Filed(m, s)) \in
              Bijection(1 .. Len(CreateList(m, s)), Filed(m, s))
         /\ \A k \in 1 .. Len(CreateList(m, s)) :
              CreateList(m, s)[k] = PartChunk(SortedRuns(Filed(m, s))[k], s[1])
<1>1. m \in SUBSET Int /\ IsFiniteSet(m) /\ m \in SUBSET Nat
  <2>1. Lpns \subseteq Nat /\ IsFiniteSet(Lpns)
    BY Sizes
  <2>2. IsFiniteSet(m)
    BY <2>1, FS_Subset
  <2> QED BY <2>1, <2>2
<1>2. Filed(m, s) \in SUBSET Runs(m) /\ Filed(m, s) \in SUBSET (Nat \X Nat)
  BY <1>1 DEF Filed, Runs
<1> DEFINE S == Filed(m, s)
           n == Cardinality(S)
           q == SortedRuns(S)
<1>3. n \in Nat /\ q \in Bijection(1 .. n, S)
  BY <1>1, <1>2, SortedRunsAre
<1>4. q \in [1 .. n -> S]
  BY <1>3, Fun_BijectionProperties
<1>5. CreateList(m, s) = [k \in DOMAIN q |-> PartChunk(q[k], s[1])]
  BY DEF CreateList, Filed
<1> HIDE DEF q, n, S
<1>6. DOMAIN q = 1 .. n
  BY <1>4
<1>7. CreateList(m, s) \in [1 .. n -> ChunkType]
  <2> SUFFICES ASSUME NEW k \in 1 .. n PROVE PartChunk(q[k], s[1]) \in ChunkType
    BY <1>5, <1>6
  <2>1. q[k] \in Nat \X Nat /\ s[1] \in Parts
    BY <1>2, <1>4 DEF S, Slots
  <2> QED BY <2>1, PartChunkType
<1>8. CreateList(m, s) \in Seq(ChunkType) /\ Len(CreateList(m, s)) = n
  BY <1>3, <1>7
<1> QED BY <1>3, <1>5, <1>6, <1>8 DEF q, S

-----------------------------------------------------------------------------
(***************************************************************************)
(* The operators of the actions.                                           *)
(***************************************************************************)
LEMMA RemoveAtIs ==
  ASSUME NEW S, NEW q \in Seq(S), NEW i \in 1 .. Len(q)
  PROVE  /\ RemoveAt(q, i) \in Seq(S)
         /\ Len(RemoveAt(q, i)) = Len(q) - 1
         /\ \A k \in 1 .. Len(q) - 1 :
              RemoveAt(q, i)[k] = q[IF k < i THEN k ELSE k + 1]
<1> DEFINE a == SubSeq(q, 1, i - 1)
           b == SubSeq(q, i + 1, Len(q))
<1>1. Len(q) \in Nat /\ i \in Nat /\ \A k \in 1 .. Len(q) : q[k] \in S
  BY LenProperties, ElementOfSeq
<1>2. /\ a \in Seq(S) /\ Len(a) = i - 1
      /\ \A k \in 1 .. i - 1 : a[k] = q[k]
  BY <1>1, SubSeqProperties
<1>3. /\ b \in Seq(S) /\ Len(b) = Len(q) - i
      /\ \A k \in 1 .. Len(q) - i : b[k] = q[k + i]
  BY <1>1, SubSeqProperties
<1> HIDE DEF a, b
<1>4. /\ a \o b \in Seq(S) /\ Len(a \o b) = Len(q) - 1
      /\ \A k \in 1 .. Len(q) - 1 : (a \o b)[k] = IF k <= i - 1 THEN a[k] ELSE b[k - (i - 1)]
  <2>1. /\ a \o b \in Seq(S) /\ Len(a \o b) = Len(a) + Len(b)
        /\ \A k \in 1 .. Len(a) + Len(b) :
             (a \o b)[k] = IF k <= Len(a) THEN a[k] ELSE b[k - Len(a)]
    BY ONLY <1>2, <1>3, ConcatProperties
  <2>2. Len(a) + Len(b) = Len(q) - 1
    BY <1>1, <1>2, <1>3
  <2> QED BY <1>2, <2>1, <2>2
<1>5. ASSUME NEW k \in 1 .. Len(q) - 1
      PROVE  (a \o b)[k] = q[IF k < i THEN k ELSE k + 1]
  <2>1. CASE k < i
    <3>1. k \in 1 .. i - 1 /\ k <= i - 1
      BY <1>1, <2>1
    <3> QED BY <1>2, <1>4, <2>1, <3>1
  <2>2. CASE ~ (k < i)
    <3>1. k - (i - 1) \in 1 .. Len(q) - i /\ ~ (k <= i - 1) /\ k - (i - 1) + i = k + 1
      BY <1>1, <2>2
    <3> QED BY <1>3, <1>4, <2>2, <3>1
  <2> QED BY <2>1, <2>2
<1> QED BY <1>4, <1>5 DEF RemoveAt, a, b

PointerType == [line : Nat, die : Dies, counter : [Dies -> 0 .. PgsPerBlk]]
HasRoom(p) == p.counter[p.die] < PgsPerBlk

LEMMA MoveOnIs ==
  ASSUME NEW p \in PointerType, NEW counter \in [Dies -> 0 .. PgsPerBlk]
  PROVE  /\ MoveOn(p, counter) \in PointerType /\ HasRoom(MoveOn(p, counter))
         /\ \/ /\ \A d \in Dies : counter[d] = PgsPerBlk
               /\ MoveOn(p, counter).line = p.line + 1
               /\ MoveOn(p, counter).counter = [d \in Dies |-> 0]
            \/ /\ MoveOn(p, counter).line = p.line
               /\ MoveOn(p, counter).counter = counter
<1> DEFINE after(j) == (p.die + j) % NrDies
           free == {j \in 1 .. NrDies : counter[after(j)] < PgsPerBlk}
           first == CHOOSE j \in free : \A h \in free : j <= h
<1>1. /\ NrDies \in Nat \ {0} /\ PgsPerBlk \in Nat \ {0} /\ 0 \in Dies
      /\ p.die \in Dies /\ p.line \in Nat
  BY Sizes DEF Dies, PointerType
<1>2. \A j \in Int : after(j) \in Dies
  BY <1>1 DEF Dies
<1>3. CASE free = {}
  <2>1. ASSUME NEW d \in Dies PROVE counter[d] = PgsPerBlk
    <3>1. \E j \in 1 .. NrDies : after(j) = d
      <4> DEFINE j == IF d > p.die THEN d - p.die ELSE d - p.die + NrDies
                 x == p.die + j
      <4>2. d \in 0 .. NrDies - 1 /\ p.die \in 0 .. NrDies - 1
        BY <1>1 DEF Dies
      <4>1. j \in 1 .. NrDies
        BY <1>1, <4>2
      <4>3. x = NrDies * 0 + d \/ x = NrDies * 1 + d
        BY <1>1, <4>2 DEF Dies
      <4>4. x \in Int
        BY <1>1, <4>1 DEF Dies
      <4>5. x % NrDies = d
        <5> HIDE DEF x
        <5> QED BY <1>1, <4>2, <4>3, <4>4, ModUnique
      <4> QED BY <4>1, <4>5
    <3>2. PICK j \in 1 .. NrDies : after(j) = d
      BY <3>1
    <3>3. ~ (counter[d] < PgsPerBlk)
      BY <1>3, <3>2
    <3>4. counter[d] \in 0 .. PgsPerBlk
      OBVIOUS
    <3> QED BY <1>1, <3>3, <3>4
  <2> DEFINE r == [line |-> p.line + 1, die |-> 0, counter |-> [d \in Dies |-> 0]]
  <2>2. MoveOn(p, counter) = r
    BY <1>3 DEF MoveOn
  <2>3. [d \in Dies |-> 0] \in [Dies -> 0 .. PgsPerBlk]
    BY <1>1
  <2>4. r \in PointerType
    BY <1>1, <2>3 DEF PointerType
  <2>5. HasRoom(r) /\ r.line = p.line + 1 /\ r.counter = [d \in Dies |-> 0]
    BY <1>1 DEF HasRoom
  <2> HIDE DEF r
  <2> QED BY <2>1, <2>2, <2>4, <2>5
<1>4. CASE free # {}
  <2>1. \E j \in free : \A h \in free : j <= h
    <3>1. free \in SUBSET Nat
      OBVIOUS
    <3> HIDE DEF free
    <3> QED BY <1>4, <3>1, LeastNatural
  <2>2. first \in free
    BY <2>1
  <2> DEFINE r == [p EXCEPT !.counter = counter, !.die = after(first)]
  <2>3. MoveOn(p, counter) = r
    BY <1>4 DEF MoveOn
  <2>4. after(first) \in Dies /\ counter[after(first)] < PgsPerBlk
    <3> HIDE DEF first
    <3>1. first \in Int /\ counter[after(first)] < PgsPerBlk
      BY <2>2
    <3> QED BY <1>2, <3>1
  <2> HIDE DEF first, after
  <2>5. /\ r \in PointerType /\ r.line = p.line /\ r.counter = counter
        /\ r.die = after(first)
    BY <2>4 DEF PointerType
  <2>6. HasRoom(r)
    BY <2>4, <2>5 DEF HasRoom
  <2> HIDE DEF r
  <2> QED BY <2>3, <2>5, <2>6
<1> QED BY <1>3, <1>4

LEMMA DecisionsAre ==
  ASSUME NEW k \in -2 .. MaxCon, NEW n \in Nat, NEW d \in Dies,
         NEW whole \in BOOLEAN, NEW room \in BOOLEAN,
         NEW r \in Decisions(k, n, d, whole, room)
  PROVE  /\ r.stay \in BOOLEAN /\ r.conti \in -2 .. MaxCon /\ r.at \in {NIL, d}
         /\ r.stay => ~ whole \/ room
<1> DEFINE conti == IF k + 1 >= MaxCon THEN NIL ELSE k + 1
           go(c) == [stay |-> FALSE, conti |-> c, at |-> NIL]
           end(c) == [stay |-> FALSE, conti |-> c, at |-> d]
           stay(c) == [stay |-> TRUE, conti |-> c, at |-> NIL]
<1>1. MaxCon \in Nat
  BY Sizes
<1>2. CASE ~ whole
  <2>1. r = stay(k)
    BY <1>2 DEF Decisions
  <2> QED BY <1>2, <2>1
<1>3. CASE whole /\ k >= 0
  <2>1. conti \in -2 .. MaxCon /\ conti - 1 \in -2 .. MaxCon
    BY <1>1, <1>3 DEF NIL
  <2>2. r = IF n >= Budget THEN end(conti)
            ELSE IF room THEN stay(conti) ELSE go(conti - 1)
    BY <1>1, <1>3 DEF Decisions
  <2> HIDE DEF conti
  <2> QED BY <2>1, <2>2
<1>4. CASE whole /\ k < 0
  <2>1. r = go(k) \/ r = end(0) \/ (r = stay(0) /\ room) \/ r = go(0)
    BY <1>1, <1>4 DEF Decisions
  <2>2. r = go(k) \/ r = end(0) \/ r = stay(0) \/ r = go(0)
    BY <2>1
  <2>3. r.stay \in BOOLEAN /\ r.conti \in -2 .. MaxCon /\ r.at \in {NIL, d}
    <3>1. 0 \in -2 .. MaxCon
      BY <1>1
    <3>2. CASE r = go(k)
      BY <3>2
    <3>3. CASE r = end(0)
      BY <3>1, <3>3
    <3>4. CASE r = stay(0)
      BY <3>1, <3>4
    <3>5. CASE r = go(0)
      BY <3>1, <3>5
    <3> QED BY <2>2, <3>2, <3>3, <3>4, <3>5
  <2>4. ASSUME r.stay PROVE room
    <3>1. r # go(k) /\ r # end(0) /\ r # go(0)
      BY <2>4
    <3> QED BY <2>1, <3>1
  <2> QED BY <2>3, <2>4
<1> QED BY <1>2, <1>3, <1>4

-----------------------------------------------------------------------------
(***************************************************************************)
(* The two sets of lists as one table of queues, <<0, s>> for active[s]    *)
(* and <<1, s>> for lists[s], and what a step does to it: a chunk is       *)
(* removed, is changed where it is, or moves to the end of another queue.  *)
(***************************************************************************)
Lists == [Slots -> Seq(ChunkType)]
Queues == {0, 1} \X Slots
Tables == [Queues -> Seq(ChunkType)]

QueueOf(a, ls) == [q \in Queues |-> IF q[1] = 0 THEN a[q[2]] ELSE ls[q[2]]]
Work == QueueOf(active, lists)

Removed(w, q, i) == [w EXCEPT ![q] = RemoveAt(w[q], i)]
Changed(w, q, i, c) == [w EXCEPT ![q] = [w[q] EXCEPT ![i] = c]]
Moved(w, q, i, t, c) == [Removed(w, q, i) EXCEPT ![t] = Append(w[t], c)]

LEMMA QueueOfType ==
  ASSUME NEW a \in Lists, NEW ls \in Lists
  PROVE  /\ QueueOf(a, ls) \in Tables
         /\ \A s \in Slots : /\ <<0, s>> \in Queues /\ QueueOf(a, ls)[<<0, s>>] = a[s]
                             /\ <<1, s>> \in Queues /\ QueueOf(a, ls)[<<1, s>>] = ls[s]
                             /\ a[s] \in Seq(ChunkType) /\ ls[s] \in Seq(ChunkType)
BY DEF QueueOf, Queues, Tables, Lists

LEMMA ActiveSet ==
  ASSUME NEW a \in Lists, NEW ls \in Lists, NEW s \in Slots, NEW x \in Seq(ChunkType)
  PROVE  QueueOf([a EXCEPT ![s] = x], ls) = [QueueOf(a, ls) EXCEPT ![<<0, s>>] = x]
<1>1. ASSUME NEW q \in Queues
      PROVE  QueueOf([a EXCEPT ![s] = x], ls)[q] = [QueueOf(a, ls) EXCEPT ![<<0, s>>] = x][q]
  <2>1. PICK b \in {0, 1}, t \in Slots : q = <<b, t>>
    BY DEF Queues
  <2>2. CASE b = 0
    <3>1. q[1] = 0 /\ q[2] = t /\ q # <<1, s>> /\ (q = <<0, s>> <=> t = s)
      BY <2>1, <2>2
    <3> QED BY <3>1 DEF QueueOf, Lists
  <2>3. CASE b = 1
    <3>1. q[1] = 1 /\ q[2] = t /\ q # <<0, s>> /\ (q = <<1, s>> <=> t = s)
      BY <2>1, <2>3
    <3> QED BY <3>1 DEF QueueOf, Lists
  <2> QED BY <2>2, <2>3
<1> QED BY <1>1 DEF QueueOf

LEMMA ListsSet ==
  ASSUME NEW a \in Lists, NEW ls \in Lists, NEW s \in Slots, NEW x \in Seq(ChunkType)
  PROVE  QueueOf(a, [ls EXCEPT ![s] = x]) = [QueueOf(a, ls) EXCEPT ![<<1, s>>] = x]
<1>1. ASSUME NEW q \in Queues
      PROVE  QueueOf(a, [ls EXCEPT ![s] = x])[q] = [QueueOf(a, ls) EXCEPT ![<<1, s>>] = x][q]
  <2>1. PICK b \in {0, 1}, t \in Slots : q = <<b, t>>
    BY DEF Queues
  <2>2. CASE b = 0
    <3>1. q[1] = 0 /\ q[2] = t /\ q # <<1, s>> /\ (q = <<0, s>> <=> t = s)
      BY <2>1, <2>2
    <3> QED BY <3>1 DEF QueueOf, Lists
  <2>3. CASE b = 1
    <3>1. q[1] = 1 /\ q[2] = t /\ q # <<0, s>> /\ (q = <<1, s>> <=> t = s)
      BY <2>1, <2>3
    <3> QED BY <3>1 DEF QueueOf, Lists
  <2> QED BY <2>2, <2>3
<1> QED BY <1>1 DEF QueueOf

LEMMA TableSteps ==
  ASSUME NEW w \in Tables, NEW q \in Queues, NEW t \in Queues, q # t,
         NEW i \in 1 .. Len(w[q]), NEW c \in ChunkType
  PROVE  /\ Removed(w, q, i) \in Tables
         /\ Changed(w, q, i, c) \in Tables
         /\ Moved(w, q, i, t, c) \in Tables
<1>1. w[q] \in Seq(ChunkType) /\ w[t] \in Seq(ChunkType)
  BY DEF Tables
<1>2. RemoveAt(w[q], i) \in Seq(ChunkType)
  BY <1>1, RemoveAtIs
<1>3. Append(w[t], c) \in Seq(ChunkType)
  BY <1>1
<1>4. [w[q] EXCEPT ![i] = c] \in Seq(ChunkType)
  BY <1>1, ExceptSeq
<1>5. Removed(w, q, i) \in Tables
  BY <1>2 DEF Removed, Tables
<1>6. Changed(w, q, i, c) \in Tables
  BY <1>4 DEF Changed, Tables
<1>7. Moved(w, q, i, t, c) \in Tables
  BY <1>3, <1>5 DEF Moved, Tables
<1> QED BY <1>5, <1>6, <1>7

-----------------------------------------------------------------------------
(***************************************************************************)
(* The types that hold in every state.                                     *)
(***************************************************************************)
Written == Nat \X Dies \X (0 .. PgsPerBlk - 1)

CleanTypes ==
  /\ mapped \in MappedSets
  /\ maptbl \in [Lpns -> {UNMAPPED} \cup Written]
  /\ ftl \in [Parts -> PointerType] /\ \A i \in Parts : HasRoom(ftl[i])
  /\ active \in Lists /\ lists \in Lists
  /\ restart \in BOOLEAN /\ count \in Nat /\ cur \in Slots
  /\ pos \in Nat \ {0} /\ prem \in Nat /\ lpn \in Nat /\ budget \in StaleBudgets
  /\ pc \in {"top", "each", "page", "after", "done", "oops", "astray"}
  /\ Positioned

LEMMA TypesSuffice == CleanTypes => TypeOK
<1> SUFFICES ASSUME CleanTypes PROVE TypeOK
  OBVIOUS
<1>1. mapped \subseteq Lpns
  BY CleanAssumption DEF CleanTypes
<1>2. \A l \in Lpns : maptbl[l] = UNMAPPED \/ maptbl[l] \in Nat \X Dies \X (0 .. PgsPerBlk - 1)
  BY DEF CleanTypes, Written
<1>3. /\ ftl \in [Parts -> [line : Nat, die : Dies, counter : [Dies -> 0 .. PgsPerBlk]]]
      /\ \A i \in Parts : ftl[i].counter[ftl[i].die] < PgsPerBlk
  BY DEF CleanTypes, PointerType, HasRoom
<1>4. DOMAIN active = Slots /\ DOMAIN lists = Slots
  BY DEF CleanTypes, Lists
<1>5. ASSUME NEW s \in Slots
      PROVE  Range(active[s]) \cup Range(lists[s]) \subseteq ChunkType
  <2>1. active[s] \in Seq(ChunkType) /\ lists[s] \in Seq(ChunkType)
    BY DEF CleanTypes, Lists
  <2>2. \A q \in Seq(ChunkType) : Range(q) \subseteq ChunkType
    BY DEF Range
  <2> QED BY <2>1, <2>2
<1>6. /\ restart \in BOOLEAN /\ count \in Nat /\ cur \in Slots
      /\ pos \in Nat \ {0} /\ prem \in Nat /\ lpn \in Nat /\ budget \in StaleBudgets
      /\ pc \in {"top", "each", "page", "after", "done", "oops", "astray"} /\ Positioned
  BY DEF CleanTypes
<1> QED BY <1>1, <1>2, <1>3, <1>4, <1>5, <1>6 DEF TypeOK

\* The running chunk is the one at At of the queue Here; a chunk that
\* changes its queue goes to There.
Here  == IF prem = 0 THEN <<0, cur>> ELSE <<1, cur>>
There == IF prem = 0 THEN <<1, cur>> ELSE <<0, cur>>
At    == IF prem = 0 THEN pos ELSE prem

LEMMA Located ==
  ASSUME CleanTypes
  PROVE  /\ Work \in Tables
         /\ Here \in Queues /\ There \in Queues /\ Here # There
         /\ pc = "page" => /\ At \in 1 .. Len(Work[Here])
                           /\ Chunk = Work[Here][At] /\ Chunk \in ChunkType
<1>1. /\ active \in Lists /\ lists \in Lists /\ cur \in Slots
  BY DEF CleanTypes
<1>2. Work \in Tables /\ <<0, cur>> \in Queues /\ <<1, cur>> \in Queues
  BY <1>1, QueueOfType DEF Work
<1>3. Work[<<0, cur>>] = active[cur] /\ Work[<<1, cur>>] = lists[cur]
  BY <1>1, QueueOfType DEF Work
<1>4. Here \in Queues /\ There \in Queues /\ Here # There
  BY <1>2 DEF Here, There
<1>5. ASSUME pc = "page"
      PROVE  At \in 1 .. Len(Work[Here]) /\ Chunk = Work[Here][At]
  BY <1>3, <1>5 DEF CleanTypes, Positioned, At, Here, Chunk
<1>6. ASSUME pc = "page" PROVE Work[Here][At] \in ChunkType
  <2>1. Work[Here] \in Seq(ChunkType)
    BY <1>2, <1>4 DEF Tables
  <2> QED BY <1>5, <1>6, <2>1, ElementOfSeq
<1> QED BY <1>2, <1>4, <1>5, <1>6

Returns ==
  /\ active' \in Lists /\ lists' \in Lists
  /\ restart' \in BOOLEAN /\ pc' \in {"each", "after"}

LEMMA NullEffect ==
  ASSUME CleanTypes, pc = "page", ReturnNull
  PROVE  Returns /\ Work' = Removed(Work, Here, At)
<1>1. /\ active \in Lists /\ lists \in Lists /\ cur \in Slots /\ restart \in BOOLEAN
  BY DEF CleanTypes
<1>2. /\ QueueOf(active, lists)[<<0, cur>>] = active[cur]
      /\ QueueOf(active, lists)[<<1, cur>>] = lists[cur]
      /\ active[cur] \in Seq(ChunkType) /\ lists[cur] \in Seq(ChunkType)
  BY <1>1, QueueOfType
<1>3. CASE prem = 0
  <2>1. pos \in 1 .. Len(active[cur])
    BY <1>3 DEF CleanTypes, Positioned
  <2> DEFINE x == RemoveAt(active[cur], pos)
  <2>2. x \in Seq(ChunkType)
    BY <1>2, <2>1, RemoveAtIs
  <2>3. /\ active' = [active EXCEPT ![cur] = x] /\ lists' = lists
        /\ pc' = "each" /\ restart' = restart
    BY <1>3 DEF ReturnNull
  <2>4. Removed(Work, Here, At) = [QueueOf(active, lists) EXCEPT ![<<0, cur>>] = x]
    BY <1>2, <1>3 DEF Removed, Work, Here, At
  <2> HIDE DEF x
  <2>5. QueueOf([active EXCEPT ![cur] = x], lists)
             = [QueueOf(active, lists) EXCEPT ![<<0, cur>>] = x]
    BY <1>1, <2>2, ActiveSet
  <2>6. [active EXCEPT ![cur] = x] \in Lists
    BY <1>1, <2>2 DEF Lists
  <2> QED BY <1>1, <2>3, <2>4, <2>5, <2>6 DEF Returns, Work
<1>4. CASE prem # 0
  <2>1. prem \in 1 .. Len(lists[cur])
    BY <1>4 DEF CleanTypes, Positioned
  <2> DEFINE x == RemoveAt(lists[cur], prem)
  <2>2. x \in Seq(ChunkType)
    BY <1>2, <2>1, RemoveAtIs
  <2>3. /\ lists' = [lists EXCEPT ![cur] = x] /\ active' = active
        /\ pc' = "after" /\ restart' = TRUE
    BY <1>4 DEF ReturnNull
  <2>4. Removed(Work, Here, At) = [QueueOf(active, lists) EXCEPT ![<<1, cur>>] = x]
    BY <1>2, <1>4 DEF Removed, Work, Here, At
  <2> HIDE DEF x
  <2>5. QueueOf(active, [lists EXCEPT ![cur] = x])
             = [QueueOf(active, lists) EXCEPT ![<<1, cur>>] = x]
    BY <1>1, <2>2, ListsSet
  <2>6. [lists EXCEPT ![cur] = x] \in Lists
    BY <1>1, <2>2 DEF Lists
  <2> QED BY <1>1, <2>3, <2>4, <2>5, <2>6 DEF Returns, Work
<1> QED BY <1>3, <1>4

\* The chunk as ReturnAt leaves it.
Left(l, d, k) ==
  [Chunk EXCEPT !.start = l, !.die = d, !.conti = IF d = NIL THEN NIL ELSE k]

LEMMA LeftType ==
  ASSUME CleanTypes, pc = "page",
         NEW l \in Nat, NEW d \in Dies \cup {NIL}, NEW k \in -2 .. MaxCon
  PROVE  Left(l, d, k) \in ChunkType
<1>1. Chunk \in ChunkType
  BY Located
<1>2. NIL \in -2 .. MaxCon
  BY Sizes DEF NIL
<1> QED BY <1>1, <1>2 DEF Left, ChunkType

LEMMA AtEffect ==
  ASSUME CleanTypes, pc = "page",
         NEW l \in Nat, NEW d \in Dies \cup {NIL}, NEW k \in -2 .. MaxCon,
         ReturnAt(l, d, k)
  PROVE  /\ Returns /\ pos' \in Nat \ {0}
         /\ \/ Work' = Changed(Work, Here, At, Left(l, d, k))
            \/ Work' = Moved(Work, Here, At, There, Left(l, d, k))
<1> DEFINE c == Left(l, d, k)
<1>1. /\ active \in Lists /\ lists \in Lists /\ cur \in Slots /\ restart \in BOOLEAN
      /\ pos \in Nat \ {0}
  BY DEF CleanTypes
<1>2. /\ QueueOf(active, lists)[<<0, cur>>] = active[cur]
      /\ QueueOf(active, lists)[<<1, cur>>] = lists[cur]
      /\ active[cur] \in Seq(ChunkType) /\ lists[cur] \in Seq(ChunkType)
  BY <1>1, QueueOfType
<1>3. c \in ChunkType
  BY LeftType
<1>4. pos' \in Nat \ {0}
  <2>1. pos' = IF prem = 0 /\ d = NIL THEN pos + 1 ELSE pos
    BY DEF ReturnAt
  <2> QED BY <1>1, <2>1
<1>5. prem = 0 => pos \in 1 .. Len(active[cur])
  BY DEF CleanTypes, Positioned
<1>6. prem # 0 => prem \in 1 .. Len(lists[cur])
  BY DEF CleanTypes, Positioned
<1>7. /\ prem = 0 => Here = <<0, cur>> /\ There = <<1, cur>> /\ At = pos
      /\ prem # 0 => Here = <<1, cur>> /\ There = <<0, cur>> /\ At = prem
  BY DEF Here, There, At
<1>8. /\ prem = 0 => pc' = "each" /\ restart' = restart
      /\ prem # 0 => pc' = "after" /\ restart' = TRUE
      /\ prem = 0 /\ d = NIL =>
           /\ active' = [active EXCEPT ![cur] = [active[cur] EXCEPT ![pos] = c]]
           /\ lists' = lists
      /\ prem = 0 /\ d # NIL => /\ active' = [active EXCEPT ![cur] = RemoveAt(active[cur], pos)]
                                /\ lists' = [lists EXCEPT ![cur] = Append(lists[cur], c)]
      /\ prem # 0 /\ d = NIL => /\ lists' = [lists EXCEPT ![cur] = RemoveAt(lists[cur], prem)]
                                /\ active' = [active EXCEPT ![cur] = Append(active[cur], c)]
      /\ prem # 0 /\ d # NIL => /\ lists' = [lists EXCEPT ![cur] = [lists[cur] EXCEPT ![prem] = c]]
                                /\ active' = active
  BY <1>1 DEF ReturnAt, Left, Lists
<1> HIDE DEF c
<1>9. restart' \in BOOLEAN /\ pc' \in {"each", "after"}
  BY <1>1, <1>8
<1>10. CASE prem = 0 /\ d = NIL
  <2> DEFINE x == [active[cur] EXCEPT ![pos] = c]
  <2>1. x \in Seq(ChunkType)
    BY <1>2, <1>3, <1>5, <1>10, ExceptSeq
  <2>2. Changed(Work, Here, At, c) = [QueueOf(active, lists) EXCEPT ![<<0, cur>>] = x]
    BY <1>2, <1>7, <1>10 DEF Changed, Work
  <2>3. active' = [active EXCEPT ![cur] = x] /\ lists' = lists
    BY <1>8, <1>10
  <2> HIDE DEF x
  <2>4. QueueOf([active EXCEPT ![cur] = x], lists)
             = [QueueOf(active, lists) EXCEPT ![<<0, cur>>] = x]
    BY <1>1, <2>1, ActiveSet
  <2>5. active' \in Lists /\ lists' \in Lists
    BY <1>1, <2>1, <2>3 DEF Lists
  <2> QED BY <1>4, <1>9, <2>2, <2>3, <2>4, <2>5 DEF Returns, Work, c
<1>11. CASE prem # 0 /\ d # NIL
  <2> DEFINE x == [lists[cur] EXCEPT ![prem] = c]
  <2>1. x \in Seq(ChunkType)
    BY <1>2, <1>3, <1>6, <1>11, ExceptSeq
  <2>2. Changed(Work, Here, At, c) = [QueueOf(active, lists) EXCEPT ![<<1, cur>>] = x]
    BY <1>2, <1>7, <1>11 DEF Changed, Work
  <2>3. lists' = [lists EXCEPT ![cur] = x] /\ active' = active
    BY <1>8, <1>11
  <2> HIDE DEF x
  <2>4. QueueOf(active, [lists EXCEPT ![cur] = x])
             = [QueueOf(active, lists) EXCEPT ![<<1, cur>>] = x]
    BY <1>1, <2>1, ListsSet
  <2>5. active' \in Lists /\ lists' \in Lists
    BY <1>1, <2>1, <2>3 DEF Lists
  <2> QED BY <1>4, <1>9, <2>2, <2>3, <2>4, <2>5 DEF Returns, Work, c
<1>12. CASE prem = 0 /\ d # NIL
  <2> DEFINE x == RemoveAt(active[cur], pos)
             y == Append(lists[cur], c)
  <2>1. x \in Seq(ChunkType)
    BY <1>2, <1>5, <1>12, RemoveAtIs
  <2>2. y \in Seq(ChunkType)
    BY <1>2, <1>3
  <2>3. /\ Removed(Work, Here, At) = [QueueOf(active, lists) EXCEPT ![<<0, cur>>] = x]
        /\ Append(Work[There], c) = y /\ There = <<1, cur>>
    BY <1>2, <1>7, <1>12 DEF Removed, Work
  <2>4. active' = [active EXCEPT ![cur] = x] /\ lists' = [lists EXCEPT ![cur] = y]
    BY <1>8, <1>12
  <2> HIDE DEF x, y
  <2>5. active' \in Lists /\ lists' \in Lists
    BY <1>1, <2>1, <2>2, <2>4 DEF Lists
  <2>6. QueueOf([active EXCEPT ![cur] = x], lists)
             = [QueueOf(active, lists) EXCEPT ![<<0, cur>>] = x]
    BY <1>1, <2>1, ActiveSet
  <2>7. QueueOf(active', [lists EXCEPT ![cur] = y])
             = [QueueOf(active', lists) EXCEPT ![<<1, cur>>] = y]
    BY <1>1, <2>2, <2>5, ListsSet
  <2>8. Work' = [Removed(Work, Here, At) EXCEPT ![There] = Append(Work[There], c)]
    BY <2>3, <2>4, <2>6, <2>7 DEF Work
  <2> QED BY <1>4, <1>9, <2>5, <2>8 DEF Returns, Moved, c
<1>13. CASE prem # 0 /\ d = NIL
  <2> DEFINE x == RemoveAt(lists[cur], prem)
             y == Append(active[cur], c)
  <2>1. x \in Seq(ChunkType)
    BY <1>2, <1>6, <1>13, RemoveAtIs
  <2>2. y \in Seq(ChunkType)
    BY <1>2, <1>3
  <2>3. /\ Removed(Work, Here, At) = [QueueOf(active, lists) EXCEPT ![<<1, cur>>] = x]
        /\ Append(Work[There], c) = y /\ There = <<0, cur>>
    BY <1>2, <1>7, <1>13 DEF Removed, Work
  <2>4. active' = [active EXCEPT ![cur] = y] /\ lists' = [lists EXCEPT ![cur] = x]
    BY <1>8, <1>13
  <2> HIDE DEF x, y
  <2>5. active' \in Lists /\ lists' \in Lists
    BY <1>1, <2>1, <2>2, <2>4 DEF Lists
  <2>6. QueueOf(active, [lists EXCEPT ![cur] = x])
             = [QueueOf(active, lists) EXCEPT ![<<1, cur>>] = x]
    BY <1>1, <2>1, ListsSet
  <2>7. QueueOf([active EXCEPT ![cur] = y], lists')
             = [QueueOf(active, lists') EXCEPT ![<<0, cur>>] = y]
    BY <1>1, <2>2, <2>5, ActiveSet
  <2>8. Work' = [Removed(Work, Here, At) EXCEPT ![There] = Append(Work[There], c)]
    BY <2>3, <2>4, <2>6, <2>7 DEF Work
  <2> QED BY <1>4, <1>9, <2>5, <2>8 DEF Returns, Moved, c
<1> QED BY <1>10, <1>11, <1>12, <1>13

LEMMA FirstRemoved ==
  ASSUME NEW S, NEW q \in Seq(S), q # << >>
  PROVE  1 \in 1 .. Len(q) /\ Head(q) = q[1] /\ Tail(q) = RemoveAt(q, 1)
<1>1. Len(q) \in Nat \ {0} /\ Head(q) = q[1]
  BY EmptySeq
<1>2. Tail(q) = SubSeq(q, 2, Len(q)) /\ Tail(q) \in Seq(S)
  BY TailIsSubSeq, HeadTailProperties
<1>3. SubSeq(q, 1, 0) = << >>
  BY SubSeqEmpty
<1>4. RemoveAt(q, 1) = << >> \o SubSeq(q, 2, Len(q))
  BY <1>3 DEF RemoveAt
<1> QED BY <1>1, <1>2, <1>4, ConcatEmptySeq

\* The chunk that Unpark brings back.
Unparked == [lists[cur][1] EXCEPT !.conti = NIL]

LEMMA UnparkEffect ==
  ASSUME CleanTypes, Unpark
  PROVE  /\ active' \in Lists /\ lists' \in Lists
         /\ \/ Work' = Work
            \/ /\ 1 \in 1 .. Len(Work[<<1, cur>>]) /\ Unparked \in ChunkType
               /\ <<0, cur>> \in Queues /\ <<1, cur>> \in Queues
               /\ Work[<<1, cur>>] = lists[cur]
               /\ Work' = Moved(Work, <<1, cur>>, 1, <<0, cur>>, Unparked)
<1>1. active \in Lists /\ lists \in Lists /\ cur \in Slots
  BY DEF CleanTypes
<1>2. /\ Work[<<0, cur>>] = active[cur] /\ Work[<<1, cur>>] = lists[cur]
      /\ <<0, cur>> \in Queues /\ <<1, cur>> \in Queues
      /\ active[cur] \in Seq(ChunkType) /\ lists[cur] \in Seq(ChunkType)
  BY <1>1, QueueOfType DEF Work
<1>3. CASE UNCHANGED <<active, lists>>
  BY <1>1, <1>3 DEF Work
<1>4. CASE ~ UNCHANGED <<active, lists>>
  <2>1. active[cur] = << >> /\ lists[cur] # << >>
    BY <1>4 DEF Unpark
  <2>2. /\ 1 \in 1 .. Len(lists[cur]) /\ Head(lists[cur]) = lists[cur][1]
        /\ Tail(lists[cur]) = RemoveAt(lists[cur], 1)
    BY <1>2, <2>1, FirstRemoved
  <2> DEFINE c == Unparked
             x == RemoveAt(lists[cur], 1)
             y == Append(active[cur], c)
  <2>3. c \in ChunkType
    <3>1. lists[cur][1] \in ChunkType
      BY <1>2, <2>2, ElementOfSeq
    <3>2. NIL \in -2 .. MaxCon
      BY Sizes DEF NIL
    <3> QED BY <3>1, <3>2 DEF Unparked, ChunkType
  <2>4. x \in Seq(ChunkType) /\ y \in Seq(ChunkType)
    BY <1>2, <2>2, <2>3, RemoveAtIs
  <2>5. y = <<[Head(lists[cur]) EXCEPT !.conti = NIL]>>
    BY <2>1, <2>2 DEF Unparked
  <2>6. active' = [active EXCEPT ![cur] = y] /\ lists' = [lists EXCEPT ![cur] = x]
    BY <1>4, <2>2, <2>5 DEF Unpark
  <2>7. /\ Removed(Work, <<1, cur>>, 1) = [QueueOf(active, lists) EXCEPT ![<<1, cur>>] = x]
        /\ Append(Work[<<0, cur>>], c) = y
    BY <1>2 DEF Removed, Work
  <2> HIDE DEF c, x, y
  <2>8. active' \in Lists /\ lists' \in Lists
    BY <1>1, <2>4, <2>6 DEF Lists
  <2>9. QueueOf(active, [lists EXCEPT ![cur] = x])
             = [QueueOf(active, lists) EXCEPT ![<<1, cur>>] = x]
    BY <1>1, <2>4, ListsSet
  <2>10. QueueOf([active EXCEPT ![cur] = y], lists')
             = [QueueOf(active, lists') EXCEPT ![<<0, cur>>] = y]
    BY <1>1, <2>4, <2>8, ActiveSet
  <2>11. Work' = [Removed(Work, <<1, cur>>, 1) EXCEPT ![<<0, cur>>] = Append(Work[<<0, cur>>], c)]
    BY <2>6, <2>7, <2>9, <2>10 DEF Work
  <2> QED BY <1>2, <2>2, <2>3, <2>8, <2>11 DEF Moved, c
<1> QED BY <1>3, <1>4

\* The running chunk as Preempt puts it off, and as a written page changes it.
PutOff == [Chunk EXCEPT !.start = lpn, !.die = NIL]
WithConti(k) == [Chunk EXCEPT !.conti = k]

LEMMA PreemptEffect ==
  ASSUME CleanTypes, Preempt
  PROVE  /\ pc = "page" /\ prem = 0 /\ PutOff \in ChunkType
         /\ active' \in Lists /\ lists' = lists
         /\ Work' = Changed(Work, Here, At, PutOff)
         /\ prem' \in 1 .. Len(lists[cur]) /\ lpn' = lists[cur][prem'].start
<1>1. /\ active \in Lists /\ lists \in Lists /\ cur \in Slots /\ lpn \in Nat
  BY DEF CleanTypes
<1>2. /\ Work[<<0, cur>>] = active[cur] /\ Work[<<1, cur>>] = lists[cur]
      /\ active[cur] \in Seq(ChunkType) /\ lists[cur] \in Seq(ChunkType)
  BY <1>1, QueueOfType DEF Work
<1>3. /\ pc = "page" /\ Waiting # {} /\ lists' = lists
      /\ prem' = CHOOSE k \in Waiting : \A j \in Waiting : k <= j
      /\ lpn' = lists[cur][prem'].start
  BY DEF Preempt
<1>4. prem = 0 /\ pos \in 1 .. Len(active[cur])
  BY <1>3 DEF Waiting, CleanTypes, Positioned
<1>5. prem' \in Waiting
  <2>1. Waiting \in SUBSET Nat
    BY <1>2, <1>4 DEF Waiting
  <2>2. \E k \in Waiting : \A j \in Waiting : k <= j
    BY <1>3, <2>1, LeastNatural
  <2> QED BY <1>3, <2>2
<1>6. prem' \in 1 .. Len(lists[cur])
  BY <1>2, <1>4, <1>5 DEF Waiting
<1>7. Here = <<0, cur>> /\ At = pos /\ Chunk = active[cur][pos] /\ Chunk \in ChunkType
  <2>1. Chunk \in ChunkType
    BY <1>3, Located
  <2> QED BY <1>4, <2>1 DEF Here, At, Chunk
<1>8. PutOff \in ChunkType
  BY <1>1, <1>7 DEF PutOff, ChunkType
<1> DEFINE x == [active[cur] EXCEPT ![pos] = PutOff]
<1>9. x \in Seq(ChunkType)
  BY <1>2, <1>4, <1>8, ExceptSeq
<1>10. active' = [active EXCEPT ![cur] = x]
  <2>1. active' = [active EXCEPT ![cur][pos].start = lpn, ![cur][pos].die = NIL]
    BY DEF Preempt
  <2> QED BY <1>1, <1>2, <1>4, <1>7, <2>1 DEF Lists, PutOff
<1>11. Changed(Work, Here, At, PutOff) = [QueueOf(active, lists) EXCEPT ![<<0, cur>>] = x]
  BY <1>2, <1>7 DEF Changed, Work
<1> HIDE DEF x
<1>12. QueueOf([active EXCEPT ![cur] = x], lists)
             = [QueueOf(active, lists) EXCEPT ![<<0, cur>>] = x]
  BY <1>1, <1>9, ActiveSet
<1>13. active' \in Lists
  BY <1>1, <1>9, <1>10 DEF Lists
<1>14. Work' = Changed(Work, Here, At, PutOff)
  BY <1>3, <1>10, <1>11, <1>12 DEF Work
<1> QED BY <1>3, <1>4, <1>6, <1>8, <1>13, <1>14

-----------------------------------------------------------------------------
(***************************************************************************)
(* A written page: what becomes of the write pointer and of the chunk.     *)
(***************************************************************************)
Bumped(p) == [p.counter EXCEPT ![p.die] = @ + 1]

PointerStep(p, r) ==
  /\ r \in PointerType /\ HasRoom(r)
  /\ \/ r.line = p.line /\ r.counter = Bumped(p)
     \/ /\ \A d \in Dies : Bumped(p)[d] = PgsPerBlk
        /\ r.line = p.line + 1 /\ r.counter = [d \in Dies |-> 0]

LEMMA BumpedType ==
  ASSUME NEW p \in PointerType, HasRoom(p)
  PROVE  /\ Bumped(p) \in [Dies -> 0 .. PgsPerBlk]
         /\ Bumped(p)[p.die] = p.counter[p.die] + 1
         /\ \A d \in Dies : d # p.die => Bumped(p)[d] = p.counter[d]
         /\ p.die \in Dies /\ p.line \in Nat
         /\ p.counter[p.die] \in 0 .. PgsPerBlk - 1
<1>1. /\ p.die \in Dies /\ p.line \in Nat /\ p.counter \in [Dies -> 0 .. PgsPerBlk]
      /\ PgsPerBlk \in Nat /\ p.counter[p.die] < PgsPerBlk
  BY Sizes DEF PointerType, HasRoom
<1>2. p.counter[p.die] \in 0 .. PgsPerBlk - 1 /\ p.counter[p.die] + 1 \in 0 .. PgsPerBlk
  BY <1>1
<1> QED BY <1>1, <1>2 DEF Bumped

LEMMA PointerMoves ==
  ASSUME NEW p \in PointerType, HasRoom(p), NEW k \in -2 .. MaxCon, NEW n \in Nat,
         NEW r \in Decisions(k, n, p.die, Bumped(p)[p.die] % PgsPerOneshot = 0,
                             Bumped(p)[p.die] < PgsPerBlk)
  PROVE  /\ PointerStep(p, IF r.stay THEN [p EXCEPT !.counter = Bumped(p)]
                                     ELSE MoveOn(p, Bumped(p)))
         /\ r.conti \in -2 .. MaxCon /\ r.at \in Dies \cup {NIL}
<1>1. /\ Bumped(p) \in [Dies -> 0 .. PgsPerBlk] /\ p.die \in Dies
      /\ PgsPerBlk \in Nat /\ PgsPerBlk % PgsPerOneshot = 0
  BY BumpedType, Sizes, CleanAssumption
<1> DEFINE whole == Bumped(p)[p.die] % PgsPerOneshot = 0
           room  == Bumped(p)[p.die] < PgsPerBlk
<1>2. whole \in BOOLEAN /\ room \in BOOLEAN
  OBVIOUS
<1>3. /\ r.stay \in BOOLEAN /\ r.conti \in -2 .. MaxCon /\ r.at \in {NIL, p.die}
      /\ r.stay => ~ whole \/ room
  <2> HIDE DEF whole, room
  <2>1. r \in Decisions(k, n, p.die, whole, room)
    BY DEF whole, room
  <2> QED BY <1>1, <1>2, <2>1, DecisionsAre
<1>4. CASE r.stay
  <2>1. Bumped(p)[p.die] < PgsPerBlk
    <3>1. CASE room
      BY <3>1
    <3>2. CASE ~ whole
      <4>1. Bumped(p)[p.die] \in 0 .. PgsPerBlk
        BY <1>1
      <4>2. Bumped(p)[p.die] # PgsPerBlk
        BY <1>1, <3>2
      <4> QED BY <1>1, <4>1, <4>2
    <3> QED BY <1>3, <1>4, <3>1, <3>2
  <2> DEFINE s == [p EXCEPT !.counter = Bumped(p)]
  <2>2. s \in PointerType /\ s.line = p.line /\ s.counter = Bumped(p) /\ s.die = p.die
    BY <1>1 DEF PointerType
  <2> HIDE DEF s
  <2>3. PointerStep(p, s)
    BY <2>1, <2>2 DEF PointerStep, HasRoom
  <2> QED BY <1>1, <1>3, <1>4, <2>3 DEF s
<1>5. CASE ~ r.stay
  <2>1. PointerStep(p, MoveOn(p, Bumped(p)))
    BY <1>1, MoveOnIs DEF PointerStep
  <2> QED BY <1>1, <1>3, <1>5, <2>1
<1> QED BY <1>3, <1>4, <1>5

LEMMA ContiEffect ==
  ASSUME CleanTypes, pc = "page", NEW k \in -2 .. MaxCon,
         active' = IF prem = 0 THEN [active EXCEPT ![cur][pos].conti = k] ELSE active,
         lists' = IF prem = 0 THEN lists ELSE [lists EXCEPT ![cur][prem].conti = k]
  PROVE  /\ active' \in Lists /\ lists' \in Lists /\ WithConti(k) \in ChunkType
         /\ Work' = Changed(Work, Here, At, WithConti(k))
<1>1. /\ active \in Lists /\ lists \in Lists /\ cur \in Slots
  BY DEF CleanTypes
<1>2. /\ Work[<<0, cur>>] = active[cur] /\ Work[<<1, cur>>] = lists[cur]
      /\ active[cur] \in Seq(ChunkType) /\ lists[cur] \in Seq(ChunkType)
  BY <1>1, QueueOfType DEF Work
<1>3. WithConti(k) \in ChunkType
  <2>1. Chunk \in ChunkType
    BY Located
  <2> QED BY <2>1 DEF WithConti, ChunkType
<1>4. CASE prem = 0
  <2>1. pos \in 1 .. Len(active[cur])
    BY <1>4 DEF CleanTypes, Positioned
  <2> DEFINE x == [active[cur] EXCEPT ![pos] = WithConti(k)]
  <2>2. x \in Seq(ChunkType)
    BY <1>2, <1>3, <2>1, ExceptSeq
  <2>3. active' = [active EXCEPT ![cur] = x] /\ lists' = lists
    BY <1>4 DEF WithConti, Chunk
  <2>4. Changed(Work, Here, At, WithConti(k)) = [QueueOf(active, lists) EXCEPT ![<<0, cur>>] = x]
    BY <1>2, <1>4 DEF Changed, Work, Here, At
  <2> HIDE DEF x
  <2>5. QueueOf([active EXCEPT ![cur] = x], lists)
             = [QueueOf(active, lists) EXCEPT ![<<0, cur>>] = x]
    BY <1>1, <2>2, ActiveSet
  <2>6. active' \in Lists /\ lists' \in Lists
    BY <1>1, <2>2, <2>3 DEF Lists
  <2> QED BY <1>3, <2>3, <2>4, <2>5, <2>6 DEF Work
<1>5. CASE prem # 0
  <2>1. prem \in 1 .. Len(lists[cur])
    BY <1>5 DEF CleanTypes, Positioned
  <2> DEFINE x == [lists[cur] EXCEPT ![prem] = WithConti(k)]
  <2>2. x \in Seq(ChunkType)
    BY <1>2, <1>3, <2>1, ExceptSeq
  <2>3. lists' = [lists EXCEPT ![cur] = x] /\ active' = active
    BY <1>5 DEF WithConti, Chunk
  <2>4. Changed(Work, Here, At, WithConti(k)) = [QueueOf(active, lists) EXCEPT ![<<1, cur>>] = x]
    BY <1>2, <1>5 DEF Changed, Work, Here, At
  <2> HIDE DEF x
  <2>5. QueueOf(active, [lists EXCEPT ![cur] = x])
             = [QueueOf(active, lists) EXCEPT ![<<1, cur>>] = x]
    BY <1>1, <2>2, ListsSet
  <2>6. active' \in Lists /\ lists' \in Lists
    BY <1>1, <2>2, <2>3 DEF Lists
  <2> QED BY <1>3, <2>3, <2>4, <2>5, <2>6 DEF Work
<1> QED BY <1>4, <1>5

\* The four ways in which a page write ends: no line is left, the call goes
\* on, the chunk is used up, or the rest of the chunk is handed back.
PageOops ==
  /\ pc' = "oops" /\ UNCHANGED <<ftl, active, lists, restart, pos, lpn>>
  /\ NoFreeLine(Part, Bumped(Part))

PageGoesOn ==
  /\ pc' = "page" /\ lpn' = lpn + NrParts /\ pos' = pos /\ restart' = restart
  /\ active' \in Lists /\ lists' \in Lists
  /\ \E k \in -2 .. MaxCon : /\ WithConti(k) \in ChunkType
                             /\ Work' = Changed(Work, Here, At, WithConti(k))

PageEnds ==
  /\ lpn' = lpn /\ Returns /\ pos' \in Nat \ {0}
  /\ lpn + NrParts > Chunk.end
  /\ Work' = Removed(Work, Here, At)

PageReturns ==
  /\ lpn' = lpn /\ Returns /\ pos' \in Nat \ {0}
  /\ \E d \in Dies \cup {NIL}, k \in -2 .. MaxCon :
       /\ Left(lpn + NrParts, d, k) \in ChunkType
       /\ \/ Work' = Changed(Work, Here, At, Left(lpn + NrParts, d, k))
          \/ Work' = Moved(Work, Here, At, There, Left(lpn + NrParts, d, k))

LEMMA WriteEffect ==
  ASSUME CleanTypes, WritePage, lpn < Total
  PROVE  /\ pc = "page" /\ lpn <= Chunk.end /\ count' = count + 1
         /\ Part \in PointerType /\ HasRoom(Part)
         /\ maptbl' = [maptbl EXCEPT ![lpn] = <<Part.line, Part.die, Part.counter[Part.die]>>]
         /\ UNCHANGED <<mapped, cur, prem, budget>>
         /\ \/ PageOops
            \/ /\ \E r : PointerStep(Part, r) /\ ftl' = [ftl EXCEPT ![cur[1]] = r]
               /\ PageGoesOn \/ PageEnds \/ PageReturns
<1> DEFINE n == count + 1
           next == lpn + NrParts
           whole == Bumped(Part)[Part.die] % PgsPerOneshot = 0
           room == Bumped(Part)[Part.die] < PgsPerBlk
<1>1. /\ pc = "page" /\ lpn <= Chunk.end /\ count' = n
      /\ maptbl' = [maptbl EXCEPT ![lpn] = <<Part.line, Part.die, Part.counter[Part.die]>>]
      /\ UNCHANGED <<mapped, cur, prem, budget>>
  BY DEF WritePage, MapPage
<1>2. /\ n \in Nat /\ next \in Nat /\ pos \in Nat \ {0} /\ cur[1] \in Parts
      /\ Part \in PointerType /\ HasRoom(Part)
  BY Sizes DEF CleanTypes, Part, Slots
<1>3. Chunk \in ChunkType
  BY <1>1, Located
<1>4. PICK r \in Decisions(Chunk.conti, n, Part.die, whole, room) :
       IF ~ r.stay /\ NoFreeLine(Part, Bumped(Part))
       THEN pc' = "oops" /\ UNCHANGED <<ftl, active, lists, restart, pos, lpn>>
       ELSE
       /\ ftl' = [ftl EXCEPT ![cur[1]] = IF r.stay THEN [Part EXCEPT !.counter = Bumped(Part)]
                                                   ELSE MoveOn(Part, Bumped(Part))]
       /\ IF r.at = NIL /\ n < Budget
          THEN /\ lpn' = next
               /\ active' = IF prem = 0 THEN [active EXCEPT ![cur][pos].conti = r.conti]
                                        ELSE active
               /\ lists' = IF prem = 0 THEN lists
                                       ELSE [lists EXCEPT ![cur][prem].conti = r.conti]
               /\ UNCHANGED <<restart, pos, pc>>
          ELSE /\ IF next > Chunk.end THEN ReturnNull /\ UNCHANGED pos
                                      ELSE ReturnAt(next, r.at, r.conti)
               /\ UNCHANGED lpn
  BY DEF WritePage, MapPage, Bumped
<1>5. Chunk.conti \in -2 .. MaxCon
  BY <1>3 DEF ChunkType
<1> DEFINE q == IF r.stay THEN [Part EXCEPT !.counter = Bumped(Part)]
                          ELSE MoveOn(Part, Bumped(Part))
<1>6. PointerStep(Part, q) /\ r.conti \in -2 .. MaxCon /\ r.at \in Dies \cup {NIL}
  BY <1>2, <1>5, PointerMoves
<1>7. CASE ~ r.stay /\ NoFreeLine(Part, Bumped(Part))
  <2>1. PageOops
    BY <1>4, <1>7 DEF PageOops
  <2> QED BY <1>1, <1>2, <2>1
<1>8. CASE ~ (~ r.stay /\ NoFreeLine(Part, Bumped(Part)))
  <2>1. \E s : PointerStep(Part, s) /\ ftl' = [ftl EXCEPT ![cur[1]] = s]
    <3>1. ftl' = [ftl EXCEPT ![cur[1]] = q]
      BY <1>4, <1>8
    <3> HIDE DEF q
    <3> QED BY <1>6, <3>1
  <2>2. CASE r.at = NIL /\ n < Budget
    <3>1. /\ lpn' = next
          /\ active' = IF prem = 0 THEN [active EXCEPT ![cur][pos].conti = r.conti]
                                   ELSE active
          /\ lists' = IF prem = 0 THEN lists
                                  ELSE [lists EXCEPT ![cur][prem].conti = r.conti]
          /\ UNCHANGED <<restart, pos, pc>>
      BY <1>4, <1>8, <2>2
    <3>2. /\ active' \in Lists /\ lists' \in Lists /\ WithConti(r.conti) \in ChunkType
          /\ Work' = Changed(Work, Here, At, WithConti(r.conti))
      BY <1>1, <1>6, <3>1, ContiEffect
    <3>3. PageGoesOn
      BY <1>1, <1>6, <3>1, <3>2 DEF PageGoesOn
    <3> QED BY <1>1, <1>2, <2>1, <3>3
  <2>3. CASE ~ (r.at = NIL /\ n < Budget) /\ next > Chunk.end
    <3>1. ReturnNull /\ UNCHANGED pos /\ UNCHANGED lpn
      BY <1>4, <1>8, <2>3
    <3>2. Returns /\ Work' = Removed(Work, Here, At)
      BY <1>1, <3>1, NullEffect
    <3>3. PageEnds
      BY <1>2, <2>3, <3>1, <3>2 DEF PageEnds
    <3> QED BY <1>1, <1>2, <2>1, <3>3
  <2>4. CASE ~ (r.at = NIL /\ n < Budget) /\ ~ (next > Chunk.end)
    <3>1. ReturnAt(next, r.at, r.conti) /\ UNCHANGED lpn
      BY <1>4, <1>8, <2>4
    <3>2. /\ Returns /\ pos' \in Nat \ {0}
          /\ \/ Work' = Changed(Work, Here, At, Left(next, r.at, r.conti))
             \/ Work' = Moved(Work, Here, At, There, Left(next, r.at, r.conti))
      BY <1>1, <1>2, <1>6, <3>1, AtEffect
    <3>3. Left(next, r.at, r.conti) \in ChunkType
      BY <1>1, <1>2, <1>6, LeftType
    <3>4. PageReturns
      BY <1>6, <3>1, <3>2, <3>3 DEF PageReturns
    <3> QED BY <1>1, <1>2, <2>1, <3>4
  <2> QED BY <2>2, <2>3, <2>4
<1> QED BY <1>7, <1>8

-----------------------------------------------------------------------------
(***************************************************************************)
(* The types are invariant.                                                *)
(***************************************************************************)
LEMMA TypesInit == Init => CleanTypes
<1> SUFFICES ASSUME Init PROVE CleanTypes
  OBVIOUS
<1>1. mapped \in MappedSets /\ mapped \in SUBSET Lpns
  BY CleanAssumption DEF Init
<1>2. maptbl \in [Lpns -> {UNMAPPED} \cup Written]
  BY DEF Init
<1>3. ftl \in [Parts -> PointerType] /\ \A i \in Parts : HasRoom(ftl[i])
  <2> DEFINE p == [line |-> 0, die |-> 0, counter |-> [d \in Dies |-> 0]]
  <2>1. 0 \in Dies /\ PgsPerBlk \in Nat \ {0} /\ [d \in Dies |-> 0] \in [Dies -> 0 .. PgsPerBlk]
    BY Sizes DEF Dies
  <2>2. p \in PointerType /\ HasRoom(p)
    BY <2>1 DEF PointerType, HasRoom
  <2>3. ftl = [i \in Parts |-> p]
    BY DEF Init
  <2> HIDE DEF p
  <2> QED BY <2>2, <2>3
<1>4. active \in Lists
  <2>1. active = [s \in Slots |-> CreateList(mapped, s)]
    BY DEF Init
  <2> QED BY <1>1, <2>1, CreateListIs DEF Lists
<1>5. lists \in Lists
  BY DEF Init, Lists
<1>6. cur \in Slots
  BY Sizes DEF Init, Slots, Parts
<1> QED BY <1>1, <1>2, <1>3, <1>4, <1>5, <1>6 DEF Init, CleanTypes, Positioned

LEMMA TypesStep == CleanTypes /\ [Next]_vars => CleanTypes'
<1> SUFFICES ASSUME CleanTypes, [Next]_vars PROVE CleanTypes'
  OBVIOUS
<1>1. CASE SelectList
  <2>1. cur' \in Slots
    <3>1. cur \in Slots /\ NrParts \in Nat \ {0} /\ NumList \in Nat \ {0}
      BY Sizes DEF CleanTypes
    <3>2. (cur[1] + 1) % NrParts \in Parts /\ (cur[2] + 1) % NumList \in 0 .. NumList - 1
      BY <3>1 DEF Slots, Parts
    <3>3. \/ cur' = cur \/ cur' = <<cur[1], (cur[2] + 1) % NumList>>
          \/ cur' = <<(cur[1] + 1) % NrParts, 0>>
      BY <1>1 DEF SelectList
    <3> QED BY <3>1, <3>2, <3>3 DEF Slots
  <2>2. count' \in Nat
    BY <1>1 DEF SelectList, CleanTypes
  <2>3. /\ restart' = FALSE /\ pos' = 1 /\ pc' = "each"
        /\ UNCHANGED <<mapped, maptbl, ftl, active, lists, prem, lpn, budget>>
    BY <1>1 DEF SelectList
  <2>4. restart' \in BOOLEAN
    BY <2>3
  <2>6. pos' \in Nat \ {0}
    BY <2>3
  <2>7. Positioned'
    <3>1. pc' # "page"
      BY <2>3
    <3> QED BY <3>1, Zenon DEF Positioned
  <2>5. pc' \in {"top", "each", "page", "after", "done", "oops", "astray"}
    BY <2>3
  <2> QED BY <2>1, <2>2, <2>3, <2>4, <2>5, <2>6, <2>7 DEF CleanTypes
<1>2. CASE CallCleaner
  <2>1. pos \in 1 .. Len(active[cur])
    <3>1. pos \in Nat \ {0} /\ ~ (pos > Len(active[cur])) /\ active[cur] \in Seq(ChunkType)
      BY <1>2 DEF CallCleaner, EndOfList, CleanTypes, Lists
    <3> QED BY <3>1
  <2>2. active[cur][pos] \in ChunkType
    BY <2>1, ElementOfSeq DEF CleanTypes, Lists
  <2>3. lpn' \in Nat
    BY <1>2, <2>2 DEF CallCleaner, ChunkType
  <2> QED BY <1>2, <2>1, <2>3 DEF CallCleaner, CleanTypes, Positioned
<1>3. CASE LoopEnd
  <2>1. active' \in Lists /\ lists' \in Lists
    BY <1>3, UnparkEffect DEF LoopEnd
  <2>2. pc' \in {"top", "done"} /\ UNCHANGED <<mapped, maptbl, ftl, loopVars, budget>>
    BY <1>3 DEF LoopEnd
  <2> QED BY <2>1, <2>2 DEF CleanTypes, Positioned, loopVars
<1>4. CASE ChunkWritten
  <2>1. /\ pc = "page" /\ ReturnNull
        /\ UNCHANGED <<mapped, maptbl, ftl, count, cur, pos, prem, lpn, budget>>
    BY <1>4 DEF ChunkWritten
  <2>2. Returns
    BY <2>1, NullEffect
  <2> QED BY <2>1, <2>2 DEF CleanTypes, Positioned, Returns
<1>5. CASE Preempt
  <2>1. /\ pc = "page" /\ active' \in Lists /\ lists' = lists
        /\ prem' \in 1 .. Len(lists[cur]) /\ lpn' = lists[cur][prem'].start
    BY <1>5, PreemptEffect
  <2>2. lists[cur][prem'] \in ChunkType /\ lists[cur] \in Seq(ChunkType)
    BY <2>1, ElementOfSeq DEF CleanTypes, Lists
  <2>3. lpn' \in Nat /\ prem' \in Nat \ {0}
    BY <2>1, <2>2 DEF ChunkType
  <2>4. UNCHANGED <<mapped, maptbl, ftl, restart, count, cur, pos, budget, pc>>
    BY <1>5 DEF Preempt
  <2> QED BY <2>1, <2>3, <2>4 DEF CleanTypes, Positioned
<1>6. CASE WritePage /\ lpn < Total
  <2>1. /\ pc = "page" /\ count' = count + 1 /\ Part \in PointerType /\ HasRoom(Part)
        /\ maptbl' = [maptbl EXCEPT ![lpn] = <<Part.line, Part.die, Part.counter[Part.die]>>]
        /\ UNCHANGED <<mapped, cur, prem, budget>>
        /\ \/ PageOops
           \/ /\ \E r : PointerStep(Part, r) /\ ftl' = [ftl EXCEPT ![cur[1]] = r]
              /\ PageGoesOn \/ PageEnds \/ PageReturns
    BY <1>6, WriteEffect
  <2>2. maptbl' \in [Lpns -> {UNMAPPED} \cup Written]
    <3>1. <<Part.line, Part.die, Part.counter[Part.die]>> \in Written
      BY <2>1, BumpedType DEF Written
    <3> QED BY <2>1, <3>1 DEF CleanTypes
  <2>3. ftl' \in [Parts -> PointerType] /\ \A i \in Parts : HasRoom(ftl'[i])
    <3>1. CASE PageOops
      BY <3>1 DEF PageOops, CleanTypes
    <3>2. CASE \E r : PointerStep(Part, r) /\ ftl' = [ftl EXCEPT ![cur[1]] = r]
      BY <3>2 DEF PointerStep, CleanTypes
    <3> QED BY <2>1, <3>1, <3>2
  <2>4. count' \in Nat /\ mapped' \in MappedSets /\ cur' \in Slots /\ prem' \in Nat
        /\ budget' \in StaleBudgets
    BY <2>1 DEF CleanTypes
  <2>5. CASE PageOops
    BY <2>2, <2>3, <2>4, <2>5 DEF PageOops, CleanTypes, Positioned
  <2>6. CASE PageEnds \/ PageReturns
    <3>1. lpn' = lpn /\ Returns /\ pos' \in Nat \ {0}
      BY <2>6 DEF PageEnds, PageReturns
    <3> QED BY <2>2, <2>3, <2>4, <3>1 DEF Returns, CleanTypes, Positioned
  <2>7. CASE PageGoesOn
    <3>1. PICK k \in -2 .. MaxCon : /\ WithConti(k) \in ChunkType
                                    /\ Work' = Changed(Work, Here, At, WithConti(k))
      BY <2>7 DEF PageGoesOn
    <3>2. /\ pc' = "page" /\ lpn' = lpn + NrParts /\ pos' = pos /\ restart' = restart
          /\ active' \in Lists /\ lists' \in Lists
      BY <2>7 DEF PageGoesOn
    <3>3. Work \in Tables /\ Here \in Queues /\ At \in 1 .. Len(Work[Here])
      BY <2>1, Located
    <3>4. Len(Changed(Work, Here, At, WithConti(k))[Here]) = Len(Work[Here])
      <4>1. Work[Here] \in Seq(ChunkType)
        BY <3>3 DEF Tables
      <4>2. Len([Work[Here] EXCEPT ![At] = WithConti(k)]) = Len(Work[Here])
        BY <3>1, <3>3, <4>1, ExceptSeq
      <4> QED BY <3>3, <4>2 DEF Changed, Tables
    <3>5. /\ Work[<<0, cur>>] = active[cur] /\ Work[<<1, cur>>] = lists[cur]
          /\ Work'[<<0, cur>>] = active'[cur] /\ Work'[<<1, cur>>] = lists'[cur]
      BY <3>2, QueueOfType DEF CleanTypes, Work
    <3>6. Positioned'
      BY <2>1, <3>1, <3>2, <3>3, <3>4, <3>5 DEF Positioned, Here, At
    <3>7. lpn' \in Nat
      BY <3>2, Sizes DEF CleanTypes
    <3> QED BY <2>2, <2>3, <2>4, <3>2, <3>6, <3>7 DEF CleanTypes
  <2> QED BY <2>1, <2>5, <2>6, <2>7
<1>7. CASE UNCHANGED vars
  BY <1>7 DEF vars, loopVars, CleanTypes, Positioned
<1>8. CASE WritePage /\ ~ (lpn < Total)
  BY <1>8 DEF WritePage, loopVars, CleanTypes, Positioned
<1> QED BY <1>1, <1>2, <1>3, <1>4, <1>5, <1>6, <1>7, <1>8 DEF Next

(***************************************************************************)
(* TypeOK holds however the pages are mapped before, also where the end of *)
(* a chunk wraps: a chunk that is being written is on the list it was      *)
(* taken from, at the position that is removed or changed when the call    *)
(* returns (list_del of clean_ftl), and the write pointer is never left on *)
(* a die whose block is full.                                              *)
(***************************************************************************)
THEOREM CleanerTypes == Spec => []TypeOK
<1>1. Spec => []CleanTypes
  BY TypesInit, TypesStep, PTL DEF Spec
<1> QED BY <1>1, TypesSuffice, PTL

-----------------------------------------------------------------------------
(***************************************************************************)
(* The work that is left, for any table w.  A place is a queue and a       *)
(* position; the chunk at the place `at' is the running one and has come   *)
(* to page from.  Shares: the pages of different places are disjoint, they *)
(* are the pages todo, and a place is in a queue of its partition.         *)
(***************************************************************************)
PlacesIn(w) == {p \in Queues \X (Nat \ {0}) : p[2] <= Len(w[p[1]])}
ChunkIn(w, p) == w[p[1]][p[2]]
StartIn(w, at, from, p) == IF p = at THEN from ELSE ChunkIn(w, p).start
Span(a, b) == {l \in Lpns : a <= l /\ l <= b /\ l % NrParts = a % NrParts}
PagesIn(w, at, from, p) == Span(StartIn(w, at, from, p), ChunkIn(w, p).end)

Shares(w, at, from, todo) ==
  /\ \A p, q \in PlacesIn(w) :
       p # q => PagesIn(w, at, from, p) \cap PagesIn(w, at, from, q) = {}
  /\ \A l \in Lpns : l \in todo <=> \E p \in PlacesIn(w) : l \in PagesIn(w, at, from, p)
  /\ \A p \in PlacesIn(w) : /\ StartIn(w, at, from, p) % NrParts = p[1][2][1]
                            /\ ChunkIn(w, p).end < Total

(***************************************************************************)
(* A table v whose places are those of w, each at most once, holds the     *)
(* work of w without the pages out, if these are all that is dropped.      *)
(***************************************************************************)
Follows(v, bt, gr, w, at, from, f, out) ==
  /\ f \in [PlacesIn(v) -> PlacesIn(w)]
  /\ \A p, q \in PlacesIn(v) : f[p] = f[q] => p = q
  /\ \A p \in PlacesIn(v) :
       /\ PagesIn(v, bt, gr, p) = PagesIn(w, at, from, f[p]) \ out
       /\ StartIn(v, bt, gr, p) % NrParts = p[1][2][1]
       /\ ChunkIn(v, p).end = ChunkIn(w, f[p]).end
  /\ \A p \in PlacesIn(w) :
       (\A q \in PlacesIn(v) : f[q] # p) => PagesIn(w, at, from, p) \subseteq out

LEMMA Followed ==
  ASSUME NEW w, NEW at, NEW from, NEW v, NEW bt, NEW gr, NEW f, NEW out, NEW todo,
         Shares(w, at, from, todo), Follows(v, bt, gr, w, at, from, f, out)
  PROVE  Shares(v, bt, gr, todo \ out)
<1>1. f \in [PlacesIn(v) -> PlacesIn(w)]
  BY DEF Follows
<1>2. \A p \in PlacesIn(v) : PagesIn(v, bt, gr, p) = PagesIn(w, at, from, f[p]) \ out
  BY DEF Follows
<1>3. ASSUME NEW p \in PlacesIn(v), NEW q \in PlacesIn(v), p # q
      PROVE  PagesIn(v, bt, gr, p) \cap PagesIn(v, bt, gr, q) = {}
  <2>1. f[p] # f[q] /\ f[p] \in PlacesIn(w) /\ f[q] \in PlacesIn(w)
    BY <1>1, <1>3 DEF Follows
  <2>2. PagesIn(w, at, from, f[p]) \cap PagesIn(w, at, from, f[q]) = {}
    BY <2>1 DEF Shares
  <2> QED BY <1>2, <2>2
<1>4. ASSUME NEW l \in Lpns
      PROVE  l \in todo \ out <=> \E p \in PlacesIn(v) : l \in PagesIn(v, bt, gr, p)
  <2>1. ASSUME l \in todo \ out PROVE \E p \in PlacesIn(v) : l \in PagesIn(v, bt, gr, p)
    <3>1. PICK r \in PlacesIn(w) : l \in PagesIn(w, at, from, r)
      BY <2>1 DEF Shares
    <3>2. ~ (PagesIn(w, at, from, r) \subseteq out)
      BY <2>1, <3>1
    <3>3. PICK p \in PlacesIn(v) : f[p] = r
      BY <3>2 DEF Follows
    <3> QED BY <1>2, <2>1, <3>1, <3>3
  <2>2. ASSUME NEW p \in PlacesIn(v), l \in PagesIn(v, bt, gr, p)
        PROVE  l \in todo \ out
    <3>1. l \in PagesIn(w, at, from, f[p]) /\ l \notin out /\ f[p] \in PlacesIn(w)
      BY <1>1, <1>2, <2>2
    <3> QED BY <3>1 DEF Shares
  <2> QED BY <2>1, <2>2
<1>5. ASSUME NEW p \in PlacesIn(v)
      PROVE  /\ StartIn(v, bt, gr, p) % NrParts = p[1][2][1]
             /\ ChunkIn(v, p).end < Total
  <2>1. f[p] \in PlacesIn(w) /\ ChunkIn(v, p).end = ChunkIn(w, f[p]).end
    BY <1>1 DEF Follows
  <2> QED BY <2>1 DEF Follows, Shares
<1> QED BY <1>3, <1>4, <1>5 DEF Shares

LEMMA PlacesAre ==
  ASSUME NEW w \in Tables, NEW q \in Queues
  PROVE  /\ Len(w[q]) \in Nat /\ w[q] \in Seq(ChunkType)
         /\ \A i : <<q, i>> \in PlacesIn(w) <=> i \in 1 .. Len(w[q])
         /\ \A p \in PlacesIn(w) : /\ p = <<p[1], p[2]>> /\ p[1] \in Queues
                                   /\ p[2] \in 1 .. Len(w[p[1]])
                                   /\ ChunkIn(w, p) \in ChunkType
<1>1. \A t \in Queues : w[t] \in Seq(ChunkType) /\ Len(w[t]) \in Nat
  BY DEF Tables
<1>2. \A i : <<q, i>> \in PlacesIn(w) <=> i \in 1 .. Len(w[q])
  BY <1>1 DEF PlacesIn
<1>3. ASSUME NEW p \in PlacesIn(w)
      PROVE  /\ p = <<p[1], p[2]>> /\ p[1] \in Queues /\ p[2] \in 1 .. Len(w[p[1]])
             /\ ChunkIn(w, p) \in ChunkType
  <2>1. p = <<p[1], p[2]>> /\ p[1] \in Queues /\ p[2] \in 1 .. Len(w[p[1]])
    BY <1>1 DEF PlacesIn
  <2>2. w[p[1]][p[2]] \in ChunkType
    BY <1>1, <2>1, ElementOfSeq
  <2> QED BY <2>1, <2>2 DEF ChunkIn
<1> QED BY <1>1, <1>2, <1>3

LEMMA ChangedFollows ==
  ASSUME NEW w \in Tables, NEW q \in Queues, NEW i \in 1 .. Len(w[q]),
         NEW at, NEW from, NEW todo, Shares(w, at, from, todo),
         \A p \in PlacesIn(w) : p # <<q, i>> => p # at,
         NEW c \in ChunkType, c.end = w[q][i].end,
         NEW bt, NEW gr, NEW out,
         \A p \in PlacesIn(w) : p # <<q, i>> /\ p = bt => gr = ChunkIn(w, p).start,
         out \subseteq PagesIn(w, at, from, <<q, i>>),
         Span(IF <<q, i>> = bt THEN gr ELSE c.start, c.end)
            = PagesIn(w, at, from, <<q, i>>) \ out,
         (IF <<q, i>> = bt THEN gr ELSE c.start) % NrParts = q[2][1]
  PROVE  Shares(Changed(w, q, i, c), bt, gr, todo \ out)
<1> DEFINE v == Changed(w, q, i, c)
           here == <<q, i>>
           f == [p \in PlacesIn(w) |-> p]
<1>1. w[q] \in Seq(ChunkType) /\ here \in PlacesIn(w) /\ here[1] = q /\ here[2] = i
  BY PlacesAre
<1>2. /\ \A t \in Queues : Len(v[t]) = Len(w[t])
      /\ \A t \in Queues : t # q => v[t] = w[t]
      /\ v[q][i] = c /\ \A j \in 1 .. Len(w[q]) : j # i => v[q][j] = w[q][j]
  <2>1. /\ Len([w[q] EXCEPT ![i] = c]) = Len(w[q])
        /\ \A j \in 1 .. Len(w[q]) : [w[q] EXCEPT ![i] = c][j] = IF j = i THEN c ELSE w[q][j]
    BY <1>1, ExceptSeq
  <2>2. \A t \in Queues : v[t] = IF t = q THEN [w[q] EXCEPT ![i] = c] ELSE w[t]
    BY DEF Changed, Tables
  <2> QED BY <2>1, <2>2
<1> HIDE DEF v
<1>3. PlacesIn(v) = PlacesIn(w)
  BY <1>2 DEF PlacesIn
<1>4. ASSUME NEW p \in PlacesIn(w), p # here
      PROVE  ChunkIn(v, p) = ChunkIn(w, p)
  <2>1. p = <<p[1], p[2]>> /\ p[1] \in Queues /\ p[2] \in 1 .. Len(w[p[1]])
    BY PlacesAre
  <2>2. p[1] # q \/ p[2] # i
    BY <1>4, <2>1
  <2> QED BY <1>2, <2>1, <2>2 DEF ChunkIn
<1>5. ChunkIn(v, here) = c /\ ChunkIn(w, here).end = c.end
  BY <1>1, <1>2 DEF ChunkIn
<1>6. ASSUME NEW p \in PlacesIn(w)
      PROVE  /\ PagesIn(v, bt, gr, p) = PagesIn(w, at, from, p) \ out
             /\ StartIn(v, bt, gr, p) % NrParts = p[1][2][1]
             /\ ChunkIn(v, p).end = ChunkIn(w, p).end
  <2>1. CASE p = here
    BY <1>1, <1>5, <2>1 DEF PagesIn, StartIn
  <2>2. CASE p # here
    <3>1. /\ StartIn(v, bt, gr, p) = ChunkIn(w, p).start
          /\ StartIn(w, at, from, p) = ChunkIn(w, p).start
      BY <1>4, <2>2 DEF StartIn
    <3>2. PagesIn(v, bt, gr, p) = PagesIn(w, at, from, p)
      BY <1>4, <2>2, <3>1 DEF PagesIn
    <3>3. PagesIn(w, at, from, p) \cap PagesIn(w, at, from, here) = {}
      BY <1>1, <2>2 DEF Shares
    <3>4. PagesIn(w, at, from, p) \ out = PagesIn(w, at, from, p)
      BY <3>3
    <3>5. StartIn(w, at, from, p) % NrParts = p[1][2][1]
      BY DEF Shares
    <3> QED BY <1>4, <2>2, <3>1, <3>2, <3>4, <3>5
  <2> QED BY <2>1, <2>2
<1>7. Follows(v, bt, gr, w, at, from, f, out)
  BY <1>3, <1>6 DEF Follows
<1> HIDE DEF f
<1>8. Shares(v, bt, gr, todo \ out)
  BY <1>7, Followed
<1> QED BY <1>8 DEF v

\* Where a chunk of Removed(w, q, i) was before.
Before(q, i, p) == IF p[1] = q /\ p[2] >= i THEN <<q, p[2] + 1>> ELSE p

LEMMA RemovedPlaces ==
  ASSUME NEW w \in Tables, NEW q \in Queues, NEW i \in 1 .. Len(w[q])
  PROVE  LET v == Removed(w, q, i) IN
         /\ \A t \in Queues : t # q => v[t] = w[t]
         /\ v[q] \in Seq(ChunkType) /\ Len(v[q]) = Len(w[q]) - 1
         /\ \A p \in PlacesIn(v) :
              /\ Before(q, i, p) \in PlacesIn(w) /\ Before(q, i, p) # <<q, i>>
              /\ ChunkIn(v, p) = ChunkIn(w, Before(q, i, p))
              /\ Before(q, i, p)[1] = p[1]
         /\ \A p, r \in PlacesIn(v) : Before(q, i, p) = Before(q, i, r) => p = r
         /\ \A r \in PlacesIn(w) :
              r # <<q, i>> => \E p \in PlacesIn(v) : Before(q, i, p) = r
<1> DEFINE v == Removed(w, q, i)
           B(p) == Before(q, i, p)
<1>1. w[q] \in Seq(ChunkType) /\ Len(w[q]) \in Nat /\ i \in Nat \ {0}
  BY PlacesAre
<1>2. /\ \A t \in Queues : t # q => v[t] = w[t]
      /\ v[q] = RemoveAt(w[q], i)
  <2>1. v = [w EXCEPT ![q] = RemoveAt(w[q], i)] /\ w \in [Queues -> Seq(ChunkType)]
    BY DEF Removed, Tables
  <2> QED BY ONLY <2>1, q \in Queues
<1>3. /\ v[q] \in Seq(ChunkType) /\ Len(v[q]) = Len(w[q]) - 1
      /\ \A k \in 1 .. Len(w[q]) - 1 : v[q][k] = w[q][IF k < i THEN k ELSE k + 1]
  <2>1. v[q] = RemoveAt(w[q], i)
    BY <1>2
  <2> HIDE DEF v
  <2> QED BY ONLY <1>1, i \in 1 .. Len(w[q]), <2>1, RemoveAtIs
<1> HIDE DEF v
<1>4. ASSUME NEW p \in PlacesIn(v)
      PROVE  p = <<p[1], p[2]>> /\ p[1] \in Queues /\ p[2] \in Nat \ {0} /\ p[2] <= Len(v[p[1]])
  BY DEF PlacesIn
<1>5. ASSUME NEW p \in PlacesIn(v)
      PROVE  /\ B(p) \in PlacesIn(w) /\ B(p) # <<q, i>>
             /\ ChunkIn(v, p) = ChunkIn(w, B(p)) /\ B(p)[1] = p[1]
  <2>1. CASE p[1] # q
    <3>1. B(p) = p
      BY <2>1 DEF Before
    <3>2. p \in PlacesIn(w)
      BY <1>2, <1>4, <2>1 DEF PlacesIn
    <3> QED BY <1>2, <1>4, <2>1, <3>1, <3>2 DEF ChunkIn
  <2>2. CASE p[1] = q /\ p[2] >= i
    <3>1. B(p) = <<q, p[2] + 1>>
      BY <2>2 DEF Before
    <3>2. p[2] \in 1 .. Len(w[q]) - 1 /\ ~ (p[2] < i) /\ p[2] + 1 \in 1 .. Len(w[q])
      BY <1>1, <1>3, <1>4, <2>2
    <3>3. B(p) \in PlacesIn(w)
      BY <3>1, <3>2, PlacesAre
    <3>4. ChunkIn(v, p) = w[q][p[2] + 1]
      BY <1>3, <2>2, <3>2 DEF ChunkIn
    <3> QED BY <1>1, <2>2, <3>1, <3>2, <3>3, <3>4 DEF ChunkIn
  <2>3. CASE p[1] = q /\ ~ (p[2] >= i)
    <3>1. B(p) = p
      BY <2>3 DEF Before
    <3>2. p[2] \in 1 .. Len(w[q]) - 1 /\ p[2] < i /\ p[2] \in 1 .. Len(w[q])
      BY <1>1, <1>3, <1>4, <2>3
    <3>3. p \in PlacesIn(w)
      BY <1>4, <2>3, <3>2, PlacesAre
    <3>4. ChunkIn(v, p) = w[q][p[2]]
      BY <1>3, <2>3, <3>2 DEF ChunkIn
    <3>5. p # <<q, i>>
      BY <1>1, <1>4, <3>2
    <3> QED BY <2>3, <3>1, <3>3, <3>4, <3>5 DEF ChunkIn
  <2> QED BY <2>1, <2>2, <2>3
<1>6. ASSUME NEW p \in PlacesIn(v), NEW r \in PlacesIn(v), B(p) = B(r)
      PROVE  p = r
  <2>1. p[1] = r[1]
    BY <1>5, <1>6
  <2>2. p[2] \in Nat /\ r[2] \in Nat
    BY <1>4
  <2>3. CASE p[1] # q
    BY <1>6, <2>1, <2>3 DEF Before
  <2>4. CASE p[1] = q
    <3>1. B(p)[2] = B(r)[2]
      BY <1>6
    <3>2. /\ B(p)[2] = IF p[2] >= i THEN p[2] + 1 ELSE p[2]
          /\ B(r)[2] = IF r[2] >= i THEN r[2] + 1 ELSE r[2]
      BY <2>1, <2>4 DEF Before
    <3> DEFINE a == p[2]
               b == r[2]
    <3>4. a \in Nat /\ b \in Nat /\ (IF a >= i THEN a + 1 ELSE a) = (IF b >= i THEN b + 1 ELSE b)
      BY <2>2, <3>1, <3>2
    <3>3. a = b
      <4> HIDE DEF a, b
      <4> QED BY <1>1, <3>4
    <3> QED BY <1>4, <2>1, <3>3
  <2> QED BY <2>3, <2>4
<1>7. ASSUME NEW r \in PlacesIn(w), r # <<q, i>>
      PROVE  \E p \in PlacesIn(v) : B(p) = r
  <2>1. r = <<r[1], r[2]>> /\ r[1] \in Queues /\ r[2] \in 1 .. Len(w[r[1]])
    BY PlacesAre
  <2>2. CASE r[1] # q
    <3>1. r \in PlacesIn(v) /\ B(r) = r
      BY <1>2, <2>1, <2>2 DEF PlacesIn, Before
    <3> QED BY <3>1
  <2>3. CASE r[1] = q /\ r[2] < i
    <3>1. r[2] \in Nat \ {0} /\ r[2] <= Len(v[q]) /\ ~ (r[2] >= i)
      BY <1>1, <1>3, <2>1, <2>3
    <3>2. r \in PlacesIn(v) /\ B(r) = r
      BY <2>1, <2>3, <3>1 DEF PlacesIn, Before
    <3> QED BY <3>2
  <2>4. CASE r[1] = q /\ r[2] > i
    <3> DEFINE k == r[2] - 1
               p == <<q, k>>
    <3>1. k \in Nat \ {0} /\ k <= Len(v[q]) /\ k >= i /\ k + 1 = r[2]
      BY <1>1, <1>3, <2>1, <2>4
    <3> HIDE DEF k
    <3>2. p \in PlacesIn(v)
      BY <3>1 DEF PlacesIn
    <3>3. B(p) = <<q, k + 1>>
      BY <3>1 DEF Before
    <3> QED BY <2>1, <2>4, <3>1, <3>2, <3>3
  <2>5. r[1] = q => r[2] # i
    BY <1>7, <2>1
  <2> QED BY <1>1, <2>1, <2>2, <2>3, <2>4, <2>5
<1> HIDE DEF B
<1> QED BY <1>2, <1>3, <1>5, <1>6, <1>7 DEF v, B

LEMMA RemovedFollows ==
  ASSUME NEW w \in Tables, NEW q \in Queues, NEW i \in 1 .. Len(w[q]),
         NEW at, NEW from, NEW todo, Shares(w, at, from, todo),
         \A p \in PlacesIn(w) : p # <<q, i>> => p # at,
         NEW bt, NEW gr, bt[2] = 0
  PROVE  Shares(Removed(w, q, i), bt, gr, todo \ PagesIn(w, at, from, <<q, i>>))
<1> DEFINE v == Removed(w, q, i)
           here == <<q, i>>
           out == PagesIn(w, at, from, here)
           f == [p \in PlacesIn(v) |-> Before(q, i, p)]
<1>1. /\ \A p \in PlacesIn(v) :
           /\ Before(q, i, p) \in PlacesIn(w) /\ Before(q, i, p) # here
           /\ ChunkIn(v, p) = ChunkIn(w, Before(q, i, p))
           /\ Before(q, i, p)[1] = p[1]
      /\ \A p, r \in PlacesIn(v) : Before(q, i, p) = Before(q, i, r) => p = r
      /\ \A r \in PlacesIn(w) : r # here => \E p \in PlacesIn(v) : Before(q, i, p) = r
  BY RemovedPlaces
<1>2. here \in PlacesIn(w)
  BY PlacesAre
<1>3. \A p \in PlacesIn(v) : p # bt
  BY DEF PlacesIn
<1> HIDE DEF v
<1>4. ASSUME NEW p \in PlacesIn(v)
      PROVE  /\ PagesIn(v, bt, gr, p) = PagesIn(w, at, from, f[p]) \ out
             /\ StartIn(v, bt, gr, p) % NrParts = p[1][2][1]
             /\ ChunkIn(v, p).end = ChunkIn(w, f[p]).end
  <2> DEFINE r == Before(q, i, p)
  <2>1. /\ f[p] = r /\ r \in PlacesIn(w) /\ r # here /\ r # at /\ r[1] = p[1]
        /\ ChunkIn(v, p) = ChunkIn(w, r)
    BY <1>1
  <2> HIDE DEF r, f
  <2>2. /\ StartIn(v, bt, gr, p) = ChunkIn(w, r).start
        /\ StartIn(w, at, from, r) = ChunkIn(w, r).start
    BY <1>3, <2>1 DEF StartIn
  <2>3. PagesIn(v, bt, gr, p) = PagesIn(w, at, from, r)
    BY <2>1, <2>2 DEF PagesIn
  <2>4. PagesIn(w, at, from, r) \cap out = {}
    BY <1>2, <2>1 DEF Shares
  <2>5. PagesIn(w, at, from, r) \ out = PagesIn(w, at, from, r)
    BY <2>4
  <2>6. StartIn(w, at, from, r) % NrParts = r[1][2][1]
    BY <2>1 DEF Shares
  <2> QED BY <2>1, <2>2, <2>3, <2>5, <2>6
<1>5. f \in [PlacesIn(v) -> PlacesIn(w)] /\ \A p, r \in PlacesIn(v) : f[p] = f[r] => p = r
  BY <1>1
<1>6. ASSUME NEW r \in PlacesIn(w), \A p \in PlacesIn(v) : f[p] # r
      PROVE  PagesIn(w, at, from, r) \subseteq out
  <2>1. r = here
    BY <1>1, <1>6
  <2> QED BY <2>1
<1> HIDE DEF f, out
<1>7. Follows(v, bt, gr, w, at, from, f, out)
  BY <1>4, <1>5, <1>6 DEF Follows
<1>8. Shares(v, bt, gr, todo \ out)
  BY <1>7, Followed
<1> QED BY <1>8 DEF v, out

\* The running chunk, or one that waits, moves to t as c, without the pages out.
Movable(w, q, i, t, c, at, from, out) ==
  /\ w \in Tables /\ q \in Queues /\ i \in 1 .. Len(w[q])
  /\ t \in Queues /\ t # q /\ t[2] = q[2]
  /\ \A p \in PlacesIn(w) : p # <<q, i>> => p # at
  /\ c \in ChunkType /\ c.end = w[q][i].end
  /\ out \subseteq PagesIn(w, at, from, <<q, i>>)
  /\ Span(c.start, c.end) = PagesIn(w, at, from, <<q, i>>) \ out
  /\ c.start % NrParts = q[2][1]

LEMMA MovedFollows ==
  ASSUME NEW w, NEW q, NEW i, NEW t, NEW c, NEW at, NEW from, NEW out,
         Movable(w, q, i, t, c, at, from, out),
         NEW todo, Shares(w, at, from, todo), NEW bt, NEW gr, bt[2] = 0
  PROVE  Shares(Moved(w, q, i, t, c), bt, gr, todo \ out)
<1>0. /\ w \in Tables /\ q \in Queues /\ i \in 1 .. Len(w[q])
      /\ t \in Queues /\ t # q /\ t[2] = q[2]
      /\ \A p \in PlacesIn(w) : p # <<q, i>> => p # at
      /\ c \in ChunkType /\ c.end = w[q][i].end
      /\ out \subseteq PagesIn(w, at, from, <<q, i>>)
      /\ Span(c.start, c.end) = PagesIn(w, at, from, <<q, i>>) \ out
      /\ c.start % NrParts = q[2][1]
  BY DEF Movable
<1> DEFINE u == Removed(w, q, i)
           v == Moved(w, q, i, t, c)
           here == <<q, i>>
           n == Len(w[t]) + 1
           there == <<t, n>>
           B(p) == Before(q, i, p)
           f == [p \in PlacesIn(v) |-> IF p = there THEN here ELSE B(p)]
<1>1. /\ \A p \in PlacesIn(u) : /\ B(p) \in PlacesIn(w) /\ B(p) # here
                                /\ ChunkIn(u, p) = ChunkIn(w, B(p)) /\ B(p)[1] = p[1]
      /\ \A p, r \in PlacesIn(u) : B(p) = B(r) => p = r
      /\ \A r \in PlacesIn(w) : r # here => \E p \in PlacesIn(u) : B(p) = r
      /\ u[t] = w[t]
  BY <1>0, RemovedPlaces
<1>2. here \in PlacesIn(w) /\ here[1] = q /\ ChunkIn(w, here) = w[q][i]
  BY <1>0, PlacesAre DEF ChunkIn
<1>3. w[t] \in Seq(ChunkType) /\ Len(w[t]) \in Nat /\ u \in Tables
  BY <1>0, PlacesAre, TableSteps
<1>4. \A s \in Queues : v[s] = IF s = t THEN Append(w[t], c) ELSE u[s]
  BY <1>0, <1>3 DEF Moved, Tables
<1> HIDE DEF u, v
<1>5. /\ Len(v[t]) = n /\ v[t][n] = c
      /\ \A k \in 1 .. Len(w[t]) : v[t][k] = w[t][k]
  <2>1. v[t] = Append(w[t], c)
    BY <1>0, <1>4
  <2>2. \A s \in Seq(ChunkType) : /\ Len(Append(s, c)) = Len(s) + 1
                                  /\ Append(s, c)[Len(s) + 1] = c
                                  /\ \A k \in 1 .. Len(s) : Append(s, c)[k] = s[k]
    OBVIOUS
  <2> QED BY <1>0, <1>3, <2>1, <2>2
<1>6. there \in PlacesIn(v) /\ ChunkIn(v, there) = c /\ there[1] = t
  BY <1>0, <1>3, <1>5 DEF PlacesIn, ChunkIn
<1>7. there \notin PlacesIn(u)
  BY <1>0, <1>1, <1>3 DEF PlacesIn
<1>8. ASSUME NEW p \in PlacesIn(v), p # there
      PROVE  p \in PlacesIn(u) /\ ChunkIn(v, p) = ChunkIn(u, p)
  <2>1. p = <<p[1], p[2]>> /\ p[1] \in Queues /\ p[2] \in Nat \ {0} /\ p[2] <= Len(v[p[1]])
    BY <1>0 DEF PlacesIn
  <2>2. CASE p[1] # t
    BY <1>0, <1>4, <2>1, <2>2 DEF PlacesIn, ChunkIn
  <2>3. CASE p[1] = t
    <3>1. p[2] # n
      BY <1>0, <1>8, <2>1, <2>3
    <3>2. p[2] <= Len(w[t]) /\ p[2] \in 1 .. Len(w[t])
      BY <1>0, <1>3, <1>5, <2>1, <2>3, <3>1
    <3>3. p \in PlacesIn(u)
      BY <1>0, <1>1, <2>1, <2>3, <3>2 DEF PlacesIn
    <3> QED BY <1>0, <1>1, <1>5, <2>3, <3>2, <3>3 DEF ChunkIn
  <2> QED BY <1>0, <2>2, <2>3
<1>9. ASSUME NEW p \in PlacesIn(u) PROVE p \in PlacesIn(v) /\ p # there
  <2>1. p[1] \in Queues /\ p[2] \in Nat \ {0} /\ p[2] <= Len(u[p[1]]) /\ p \in Queues \X (Nat \ {0})
    BY <1>0 DEF PlacesIn
  <2>2. p[2] <= Len(v[p[1]])
    BY <1>0, <1>1, <1>3, <1>4, <1>5, <2>1
  <2> QED BY <1>0, <1>7, <2>1, <2>2 DEF PlacesIn
<1>10. \A p \in PlacesIn(v) : p # bt
  BY <1>0 DEF PlacesIn
<1>11. ASSUME NEW p \in PlacesIn(v)
       PROVE  /\ PagesIn(v, bt, gr, p) = PagesIn(w, at, from, f[p]) \ out
              /\ StartIn(v, bt, gr, p) % NrParts = p[1][2][1]
              /\ ChunkIn(v, p).end = ChunkIn(w, f[p]).end
  <2>1. CASE p = there
    <3>1. f[p] = here /\ ChunkIn(v, p) = c /\ p[1] = t
      BY <1>0, <1>6, <2>1
    <3> HIDE DEF f
    <3>2. StartIn(v, bt, gr, p) = c.start
      BY <1>0, <1>10, <3>1 DEF StartIn
    <3>3. PagesIn(v, bt, gr, p) = Span(c.start, c.end)
      BY <1>0, <3>1, <3>2 DEF PagesIn
    <3> QED BY <1>0, <1>2, <3>1, <3>2, <3>3
  <2>2. CASE p # there
    <3> DEFINE r == B(p)
    <3>1. /\ f[p] = r /\ r \in PlacesIn(w) /\ r # here /\ r # at /\ r[1] = p[1]
          /\ ChunkIn(v, p) = ChunkIn(w, r)
      BY <1>0, <1>1, <1>8, <2>2
    <3> HIDE DEF r, f, B
    <3>2. /\ StartIn(v, bt, gr, p) = ChunkIn(w, r).start
          /\ StartIn(w, at, from, r) = ChunkIn(w, r).start
      BY <1>0, <1>10, <3>1 DEF StartIn
    <3>3. PagesIn(v, bt, gr, p) = PagesIn(w, at, from, r)
      BY <1>0, <3>1, <3>2 DEF PagesIn
    <3>4. PagesIn(w, at, from, r) \cap PagesIn(w, at, from, here) = {}
      BY <1>0, <1>2, <3>1 DEF Shares
    <3>5. PagesIn(w, at, from, r) \ out = PagesIn(w, at, from, r)
      BY <1>0, <3>4
    <3>6. StartIn(w, at, from, r) % NrParts = r[1][2][1]
      BY <1>0, <3>1 DEF Shares
    <3> QED BY <1>0, <3>1, <3>2, <3>3, <3>5, <3>6
  <2> QED BY <1>0, <2>1, <2>2
<1>12. ASSUME NEW p \in PlacesIn(v)
       PROVE  f[p] \in PlacesIn(w) /\ (f[p] = here <=> p = there)
  BY <1>0, <1>1, <1>2, <1>8
<1>13. f \in [PlacesIn(v) -> PlacesIn(w)]
  BY <1>0, <1>12
<1>14. ASSUME NEW p \in PlacesIn(v), NEW r \in PlacesIn(v), f[p] = f[r]
       PROVE  p = r
  <2>1. CASE p = there \/ r = there
    BY <1>0, <1>12, <1>14, <2>1
  <2>2. CASE p # there /\ r # there
    BY <1>0, <1>1, <1>8, <1>14, <2>2
  <2> QED BY <1>0, <2>1, <2>2
<1>15. ASSUME NEW r \in PlacesIn(w) PROVE \E p \in PlacesIn(v) : f[p] = r
  <2>1. CASE r = here
    BY <1>0, <1>6, <2>1
  <2>2. CASE r # here
    <3>1. PICK p \in PlacesIn(u) : B(p) = r
      BY <1>0, <1>1, <2>2
    <3>2. p \in PlacesIn(v) /\ p # there
      BY <1>0, <1>9
    <3> QED BY <1>0, <3>1, <3>2
  <2> QED BY <1>0, <2>1, <2>2
<1> HIDE DEF f
<1>16. Follows(v, bt, gr, w, at, from, f, out)
  BY <1>0, <1>11, <1>13, <1>14, <1>15 DEF Follows
<1>17. Shares(v, bt, gr, todo \ out)
  BY <1>0, <1>16, Followed
<1> QED BY <1>0, <1>17 DEF v

LEMMA SpanNext ==
  ASSUME NEW a \in Nat, NEW b \in Nat, a <= b, b < Total
  PROVE  a \in Span(a, b) /\ Span(a + NrParts, b) = Span(a, b) \ {a}
<1>1. NrParts \in Nat \ {0} /\ Total \in Nat /\ a \in Int
  BY Sizes
<1>2. a \in Lpns
  BY <1>1 DEF Lpns
<1>3. (a + NrParts) % NrParts = a % NrParts
  BY <1>1, ModAdd
<1>4. ASSUME NEW l \in Lpns PROVE l \in Span(a + NrParts, b) <=> l \in Span(a, b) /\ l # a
  <2>1. l \in Nat /\ l \in Int
    BY <1>1 DEF Lpns
  <2>2. ASSUME l \in Span(a, b), l # a PROVE l \in Span(a + NrParts, b)
    <3>1. a < l /\ l <= b /\ a % NrParts = l % NrParts
      BY <2>1, <2>2 DEF Span
    <3>2. a + NrParts <= l
      BY <1>1, <2>1, <3>1, ModGap
    <3> QED BY <1>3, <3>1, <3>2 DEF Span
  <2>3. ASSUME l \in Span(a + NrParts, b) PROVE l \in Span(a, b) /\ l # a
    <3>1. a + NrParts <= l /\ l <= b /\ l % NrParts = a % NrParts
      BY <1>3, <2>3 DEF Span
    <3>2. a <= l /\ l # a
      BY <1>1, <2>1, <3>1
    <3> QED BY <3>1, <3>2 DEF Span
  <2> QED BY <2>2, <2>3
<1>5. Span(a + NrParts, b) \subseteq Lpns /\ Span(a, b) \subseteq Lpns
  BY DEF Span
<1>6. a \in Span(a, b)
  BY <1>2 DEF Span
<1> QED BY <1>4, <1>5, <1>6

LEMMA SpanEmpty ==
  ASSUME NEW a \in Nat, NEW b \in Nat, a > b
  PROVE  Span(a, b) = {}
<1>1. Lpns \subseteq Nat
  BY Sizes
<1>2. ASSUME NEW l \in Lpns PROVE ~ (a <= l /\ l <= b)
  BY <1>1
<1> QED BY <1>2 DEF Span

LEMMA SameStarts ==
  ASSUME NEW w, NEW at, NEW from, NEW bt, NEW gr, NEW todo, Shares(w, at, from, todo),
         \A p \in PlacesIn(w) : StartIn(w, bt, gr, p) = StartIn(w, at, from, p)
  PROVE  Shares(w, bt, gr, todo)
<1>1. \A p \in PlacesIn(w) : PagesIn(w, bt, gr, p) = PagesIn(w, at, from, p)
  BY DEF PagesIn
<1> QED BY <1>1 DEF Shares

-----------------------------------------------------------------------------
(***************************************************************************)
(* The work is shared out until a page finds no line.                      *)
(***************************************************************************)
RunningAt == <<Here, IF pc = "page" THEN At ELSE 0>>
Todo == {l \in mapped : maptbl[l] = UNMAPPED}

ShareInv ==
  /\ pc # "oops" => Shares(Work, RunningAt, lpn, Todo)
  /\ \A l \in Lpns : maptbl[l] # UNMAPPED => l \in mapped

LEMMA QuietStep ==
  ASSUME CleanTypes, ShareInv, pc # "oops", Work' = Work, UNCHANGED <<mapped, maptbl>>,
         pc # "page", pc' # "page" \/ (At' >= 1 /\ lpn' = ChunkIn(Work, <<Here', At'>>).start)
  PROVE  ShareInv'
<1>1. RunningAt[2] = 0
  BY DEF RunningAt
<1>2. ASSUME NEW p \in PlacesIn(Work)
      PROVE  StartIn(Work, RunningAt', lpn', p) = StartIn(Work, RunningAt, lpn, p)
  <2>1. p[2] # 0
    BY DEF PlacesIn
  <2>2. StartIn(Work, RunningAt, lpn, p) = ChunkIn(Work, p).start
    BY <1>1, <2>1 DEF StartIn
  <2>3. p = RunningAt' => lpn' = ChunkIn(Work, p).start
    <3>1. CASE pc' # "page"
      <4>1. RunningAt'[2] = 0
        BY <3>1 DEF RunningAt
      <4> QED BY <2>1, <4>1
    <3>2. CASE pc' = "page"
      BY <3>2 DEF RunningAt
    <3> QED BY <3>1, <3>2
  <2> QED BY <2>2, <2>3 DEF StartIn
<1>3. Shares(Work, RunningAt, lpn, Todo)
  BY DEF ShareInv
<1>4. Shares(Work, RunningAt', lpn', Todo)
  BY <1>2, <1>3, SameStarts
<1>5. Todo' = Todo
  BY DEF Todo
<1> QED BY <1>4, <1>5 DEF ShareInv

\* What the running chunk has still to write.
LEMMA RunningPages ==
  ASSUME CleanTypes, ShareInv, pc = "page"
  PROVE  /\ Shares(Work, <<Here, At>>, lpn, Todo) /\ <<Here, At>> \in PlacesIn(Work)
         /\ At \in 1 .. Len(Work[Here]) /\ Chunk = Work[Here][At] /\ Chunk \in ChunkType
         /\ PagesIn(Work, <<Here, At>>, lpn, <<Here, At>>) = Span(lpn, Chunk.end)
         /\ lpn \in Nat /\ Chunk.end \in Nat /\ Chunk.end < Total
         /\ lpn % NrParts = cur[1] /\ Here[2] = cur /\ There[2] = cur
<1>1. /\ Work \in Tables /\ Here \in Queues /\ There \in Queues
      /\ At \in 1 .. Len(Work[Here]) /\ Chunk = Work[Here][At] /\ Chunk \in ChunkType
  BY Located
<1>2. Shares(Work, <<Here, At>>, lpn, Todo)
  BY DEF ShareInv, RunningAt
<1>3. <<Here, At>> \in PlacesIn(Work) /\ ChunkIn(Work, <<Here, At>>) = Chunk
  BY <1>1, PlacesAre DEF ChunkIn
<1>4. Here[2] = cur /\ There[2] = cur
  BY DEF Here, There
<1>5. StartIn(Work, <<Here, At>>, lpn, <<Here, At>>) = lpn
  BY DEF StartIn
<1>6. PagesIn(Work, <<Here, At>>, lpn, <<Here, At>>) = Span(lpn, Chunk.end)
  BY <1>3, <1>5 DEF PagesIn
<1>7. lpn \in Nat /\ Chunk.end \in Nat
  BY <1>1 DEF CleanTypes, ChunkType
<1>8. lpn % NrParts = cur[1] /\ Chunk.end < Total
  BY <1>2, <1>3, <1>4, <1>5 DEF Shares
<1> QED BY <1>1, <1>2, <1>3, <1>4, <1>6, <1>7, <1>8

\* The page that is written leaves the work.
LEMMA PageLeaves ==
  ASSUME CleanTypes, ShareInv, pc = "page", lpn <= Chunk.end, NEW a, NEW d, NEW g,
         maptbl' = [maptbl EXCEPT ![lpn] = <<a, d, g>>], mapped' = mapped
  PROVE  /\ lpn \in Span(lpn, Chunk.end) /\ lpn \in Todo /\ lpn \in Lpns
         /\ Span(lpn + NrParts, Chunk.end) = Span(lpn, Chunk.end) \ {lpn}
         /\ (lpn + NrParts) % NrParts = cur[1]
         /\ Todo' = Todo \ {lpn}
         /\ \A l \in Lpns : maptbl'[l] # UNMAPPED => l \in mapped'
<1>1. /\ Shares(Work, <<Here, At>>, lpn, Todo) /\ <<Here, At>> \in PlacesIn(Work)
      /\ PagesIn(Work, <<Here, At>>, lpn, <<Here, At>>) = Span(lpn, Chunk.end)
      /\ lpn \in Nat /\ Chunk.end \in Nat /\ Chunk.end < Total /\ lpn % NrParts = cur[1]
  BY RunningPages
<1>2. lpn \in Span(lpn, Chunk.end) /\ Span(lpn + NrParts, Chunk.end) = Span(lpn, Chunk.end) \ {lpn}
  BY <1>1, SpanNext
<1>3. lpn \in Lpns
  BY <1>2 DEF Span
<1>4. lpn \in Todo
  <2>1. \E p \in PlacesIn(Work) : lpn \in PagesIn(Work, <<Here, At>>, lpn, p)
    BY <1>1, <1>2
  <2> QED BY <1>1, <1>3, <2>1 DEF Shares
<1>5. (lpn + NrParts) % NrParts = cur[1]
  <2>1. NrParts \in Nat \ {0} /\ lpn \in Int
    BY <1>1, Sizes
  <2> QED BY <1>1, <2>1, ModAdd
<1>6. UNMAPPED # <<a, d, g>>
  BY DEF UNMAPPED
<1>7. \A l \in Lpns : maptbl'[l] = IF l = lpn THEN <<a, d, g>> ELSE maptbl[l]
  BY DEF CleanTypes
<1>8. mapped \in SUBSET Lpns
  BY CleanAssumption DEF CleanTypes
<1>9. Todo' = Todo \ {lpn}
  BY <1>6, <1>7, <1>8 DEF Todo
<1>10. \A l \in Lpns : maptbl'[l] # UNMAPPED => l \in mapped'
  BY <1>4, <1>7 DEF ShareInv, Todo
<1> QED BY <1>2, <1>3, <1>4, <1>5, <1>9, <1>10

\* A page of a chunk that shares the work is within the table.
LEMMA WriteInTable ==
  ASSUME CleanTypes, ShareInv, WritePage
  PROVE  lpn < Total
<1>1. pc = "page" /\ lpn <= Chunk.end
  BY DEF WritePage
<1>2. lpn \in Nat /\ Chunk.end \in Nat /\ Chunk.end < Total
  BY <1>1, RunningPages
<1> QED BY <1>1, <1>2, Sizes

LEMMA ShareWrite ==
  ASSUME CleanTypes, ShareInv, WritePage
  PROVE  ShareInv'
<1>1. /\ pc = "page" /\ lpn <= Chunk.end
      /\ maptbl' = [maptbl EXCEPT ![lpn] = <<Part.line, Part.die, Part.counter[Part.die]>>]
      /\ UNCHANGED <<mapped, cur, prem, budget>>
      /\ PageOops \/ PageGoesOn \/ PageEnds \/ PageReturns
  BY WriteInTable, WriteEffect
<1>2. /\ Shares(Work, <<Here, At>>, lpn, Todo) /\ <<Here, At>> \in PlacesIn(Work)
      /\ At \in 1 .. Len(Work[Here]) /\ Chunk = Work[Here][At] /\ Chunk \in ChunkType
      /\ PagesIn(Work, <<Here, At>>, lpn, <<Here, At>>) = Span(lpn, Chunk.end)
      /\ lpn \in Nat /\ Chunk.end \in Nat /\ Chunk.end < Total
      /\ Here[2] = cur /\ There[2] = cur
  BY <1>1, RunningPages
<1>3. /\ lpn \in Span(lpn, Chunk.end)
      /\ Span(lpn + NrParts, Chunk.end) = Span(lpn, Chunk.end) \ {lpn}
      /\ (lpn + NrParts) % NrParts = cur[1]
      /\ Todo' = Todo \ {lpn}
      /\ \A l \in Lpns : maptbl'[l] # UNMAPPED => l \in mapped'
  BY <1>1, PageLeaves
<1>4. Work \in Tables /\ Here \in Queues /\ There \in Queues /\ Here # There
  BY Located
<1>5. CASE PageOops
  BY <1>3, <1>5 DEF PageOops, ShareInv
<1>6. CASE PageGoesOn
  <2>1. PICK k \in -2 .. MaxCon : /\ WithConti(k) \in ChunkType
                                  /\ Work' = Changed(Work, Here, At, WithConti(k))
    BY <1>6 DEF PageGoesOn
  <2>2. pc' = "page" /\ lpn' = lpn + NrParts /\ pos' = pos
    BY <1>6 DEF PageGoesOn
  <2>3. RunningAt' = <<Here, At>>
    BY <1>1, <2>2 DEF RunningAt, Here, At
  <2> DEFINE c == WithConti(k)
  <2>4. c.end = Chunk.end /\ c.end = Work[Here][At].end
    BY <1>2 DEF WithConti, ChunkType
  <2> HIDE DEF c
  <2>5. Shares(Changed(Work, Here, At, c), <<Here, At>>, lpn + NrParts, Todo \ {lpn})
    <3>1. {lpn} \subseteq PagesIn(Work, <<Here, At>>, lpn, <<Here, At>>)
      BY <1>2, <1>3
    <3>2. c \in ChunkType
      BY <2>1 DEF c
    <3>3. Span(IF <<Here, At>> = <<Here, At>> THEN lpn + NrParts ELSE c.start, c.end)
            = PagesIn(Work, <<Here, At>>, lpn, <<Here, At>>) \ {lpn}
      BY <1>2, <1>3, <2>4
    <3>4. (IF <<Here, At>> = <<Here, At>> THEN lpn + NrParts ELSE c.start) % NrParts = Here[2][1]
      BY <1>2, <1>3
    <3> QED BY <1>2, <1>4, <2>4, <3>1, <3>2, <3>3, <3>4, ChangedFollows
  <2> QED BY <1>3, <2>1, <2>2, <2>3, <2>5 DEF ShareInv, c
<1>7. CASE PageEnds
  <2>1. lpn' = lpn /\ pc' \in {"each", "after"} /\ lpn + NrParts > Chunk.end
        /\ Work' = Removed(Work, Here, At)
    BY <1>7 DEF PageEnds, Returns
  <2>2. RunningAt'[2] = 0
    BY <2>1 DEF RunningAt
  <2>3. Span(lpn, Chunk.end) = {lpn}
    <3>1. Span(lpn + NrParts, Chunk.end) = {}
      <4>1. lpn + NrParts \in Nat
        BY <1>2, Sizes
      <4> QED BY <1>2, <2>1, <4>1, SpanEmpty
    <3> QED BY <1>3, <3>1
  <2>4. \A p \in PlacesIn(Work) : p # <<Here, At>> => p # <<Here, At>>
    OBVIOUS
  <2>5. Shares(Removed(Work, Here, At), RunningAt', lpn',
               Todo \ PagesIn(Work, <<Here, At>>, lpn, <<Here, At>>))
    BY <1>2, <1>4, <2>2, <2>4, RemovedFollows
  <2>6. Shares(Work', RunningAt', lpn', Todo')
    BY <1>2, <1>3, <2>1, <2>3, <2>5
  <2> QED BY <1>3, <2>1, <2>6 DEF ShareInv
<1>8. CASE PageReturns
  <2>1. PICK d \in Dies \cup {NIL}, k \in -2 .. MaxCon :
          /\ Left(lpn + NrParts, d, k) \in ChunkType
          /\ \/ Work' = Changed(Work, Here, At, Left(lpn + NrParts, d, k))
             \/ Work' = Moved(Work, Here, At, There, Left(lpn + NrParts, d, k))
    BY <1>8 DEF PageReturns
  <2>2. lpn' = lpn /\ pc' \in {"each", "after"}
    BY <1>8 DEF PageReturns, Returns
  <2>3. RunningAt'[2] = 0
    BY <2>2 DEF RunningAt
  <2> DEFINE c == Left(lpn + NrParts, d, k)
  <2>4. c.end = Chunk.end /\ c.end = Work[Here][At].end /\ c.start = lpn + NrParts
    BY <1>2 DEF Left, ChunkType
  <2>5. c \in ChunkType
    BY <2>1
  <2> HIDE DEF c
  <2>6. {lpn} \subseteq PagesIn(Work, <<Here, At>>, lpn, <<Here, At>>)
    BY <1>2, <1>3
  <2>7. /\ Span(c.start, c.end) = PagesIn(Work, <<Here, At>>, lpn, <<Here, At>>) \ {lpn}
        /\ c.start % NrParts = Here[2][1]
    BY <1>2, <1>3, <2>4
  <2>8. \A p \in PlacesIn(Work) : p # RunningAt'
    BY <2>3 DEF PlacesIn
  <2>9. <<Here, At>> # RunningAt'
    BY <1>2, <2>8
  <2>10. Shares(Changed(Work, Here, At, c), RunningAt', lpn', Todo \ {lpn})
    <3>1. /\ Span(IF <<Here, At>> = RunningAt' THEN lpn' ELSE c.start, c.end)
               = PagesIn(Work, <<Here, At>>, lpn, <<Here, At>>) \ {lpn}
          /\ (IF <<Here, At>> = RunningAt' THEN lpn' ELSE c.start) % NrParts = Here[2][1]
      BY <2>7, <2>9
    <3> QED BY <1>2, <1>4, <2>4, <2>5, <2>6, <2>8, <3>1, ChangedFollows
  <2>11. Shares(Moved(Work, Here, At, There, c), RunningAt', lpn', Todo \ {lpn})
    <3>1. Movable(Work, Here, At, There, c, <<Here, At>>, lpn, {lpn})
      BY <1>2, <1>4, <2>4, <2>5, <2>6, <2>7 DEF Movable
    <3> QED BY <1>2, <2>3, <3>1, MovedFollows
  <2>12. Shares(Work', RunningAt', lpn', Todo')
    BY <1>3, <2>1, <2>10, <2>11 DEF c
  <2> QED BY <1>3, <2>12 DEF ShareInv
<1> QED BY <1>1, <1>5, <1>6, <1>7, <1>8

LEMMA ShareUnpark ==
  ASSUME CleanTypes, ShareInv, LoopEnd
  PROVE  ShareInv'
<1>1. /\ pc # "page" /\ pc # "oops" /\ Unpark /\ pc' \in {"top", "done"}
      /\ UNCHANGED <<mapped, maptbl, ftl, loopVars, budget>>
  BY DEF LoopEnd
<1>2. \/ Work' = Work
      \/ /\ 1 \in 1 .. Len(Work[<<1, cur>>]) /\ Unparked \in ChunkType
         /\ <<0, cur>> \in Queues /\ <<1, cur>> \in Queues
         /\ Work[<<1, cur>>] = lists[cur]
         /\ Work' = Moved(Work, <<1, cur>>, 1, <<0, cur>>, Unparked)
  BY <1>1, UnparkEffect
<1>3. CASE Work' = Work
  BY <1>1, <1>3, QuietStep
<1>4. CASE /\ 1 \in 1 .. Len(Work[<<1, cur>>]) /\ Unparked \in ChunkType
           /\ <<0, cur>> \in Queues /\ <<1, cur>> \in Queues
           /\ Work[<<1, cur>>] = lists[cur]
           /\ Work' = Moved(Work, <<1, cur>>, 1, <<0, cur>>, Unparked)
  <2> DEFINE q == <<1, cur>>
             t == <<0, cur>>
             c == Unparked
  <2>1. Shares(Work, RunningAt, lpn, Todo) /\ RunningAt[2] = 0 /\ RunningAt'[2] = 0
    BY <1>1 DEF ShareInv, RunningAt
  <2>2. Work \in Tables
    BY Located
  <2>3. <<q, 1>> \in PlacesIn(Work) /\ ChunkIn(Work, <<q, 1>>) = Work[q][1]
    BY <1>4, <2>2, PlacesAre DEF ChunkIn
  <2>4. \A p \in PlacesIn(Work) : p # RunningAt
    BY <2>1 DEF PlacesIn
  <2>5. StartIn(Work, RunningAt, lpn, <<q, 1>>) = Work[q][1].start
    BY <2>3, <2>4 DEF StartIn
  <2>6. c.start = Work[q][1].start /\ c.end = Work[q][1].end
    <3>1. lists[cur][1] \in ChunkType
      BY <1>4, <2>2, <2>3, PlacesAre
    <3> QED BY <1>4, <3>1 DEF Unparked, ChunkType
  <2>7. PagesIn(Work, RunningAt, lpn, <<q, 1>>) = Span(c.start, c.end)
    BY <2>3, <2>5, <2>6 DEF PagesIn
  <2>8. c.start % NrParts = q[2][1]
    BY <2>1, <2>3, <2>5, <2>6 DEF Shares
  <2>9. t # q /\ t[2] = q[2] /\ t \in Queues /\ q \in Queues /\ c \in ChunkType
        /\ 1 \in 1 .. Len(Work[q])
    BY <1>4
  <2> HIDE DEF q, t, c
  <2>10. Movable(Work, q, 1, t, c, RunningAt, lpn, {})
    BY <2>2, <2>4, <2>6, <2>7, <2>8, <2>9 DEF Movable
  <2>11. Shares(Moved(Work, q, 1, t, c), RunningAt', lpn', Todo \ {})
    BY <2>1, <2>10, MovedFollows
  <2>12. Todo' = Todo \ {}
    BY <1>1 DEF Todo
  <2>13. Shares(Work', RunningAt', lpn', Todo')
    BY <1>4, <2>11, <2>12 DEF q, t, c
  <2> QED BY <1>1, <2>13 DEF ShareInv
<1> QED BY <1>2, <1>3, <1>4

LEMMA SharePreempt ==
  ASSUME CleanTypes, ShareInv, Preempt
  PROVE  ShareInv'
<1>1. /\ pc = "page" /\ prem = 0 /\ PutOff \in ChunkType
      /\ active' \in Lists /\ lists' = lists
      /\ Work' = Changed(Work, Here, At, PutOff)
      /\ prem' \in 1 .. Len(lists[cur]) /\ lpn' = lists[cur][prem'].start
  BY PreemptEffect
<1>2. UNCHANGED <<mapped, maptbl, ftl, restart, count, cur, pos, budget, pc>>
  BY DEF Preempt
<1>3. /\ Shares(Work, <<Here, At>>, lpn, Todo)
      /\ At \in 1 .. Len(Work[Here]) /\ Chunk = Work[Here][At] /\ Chunk \in ChunkType
      /\ PagesIn(Work, <<Here, At>>, lpn, <<Here, At>>) = Span(lpn, Chunk.end)
      /\ lpn % NrParts = cur[1] /\ Here[2] = cur
  BY <1>1, RunningPages
<1>4. Work \in Tables /\ Here \in Queues /\ Here = <<0, cur>>
  BY <1>1, Located DEF Here
<1>5. prem' # 0 /\ RunningAt' = <<<<1, cur>>, prem'>>
  BY <1>1, <1>2 DEF RunningAt, Here, At
<1>6. Work[<<1, cur>>] = lists[cur]
  BY QueueOfType DEF Work, CleanTypes
<1> DEFINE c == PutOff
           bt == RunningAt'
<1>7. c.start = lpn /\ c.end = Chunk.end /\ c.end = Work[Here][At].end /\ c \in ChunkType
  BY <1>1, <1>3 DEF PutOff, ChunkType
<1>8. bt # <<Here, At>>
  BY <1>4, <1>5
<1>9. ASSUME NEW p \in PlacesIn(Work), p = bt PROVE lpn' = ChunkIn(Work, p).start
  BY <1>1, <1>5, <1>6, <1>9 DEF ChunkIn
<1> HIDE DEF c, bt
<1>10. Shares(Changed(Work, Here, At, c), bt, lpn', Todo \ {})
  <2>1. /\ Span(IF <<Here, At>> = bt THEN lpn' ELSE c.start, c.end)
             = PagesIn(Work, <<Here, At>>, lpn, <<Here, At>>) \ {}
        /\ (IF <<Here, At>> = bt THEN lpn' ELSE c.start) % NrParts = Here[2][1]
    BY <1>3, <1>7, <1>8
  <2> QED BY <1>3, <1>4, <1>7, <1>9, <2>1, ChangedFollows
<1>11. Todo' = Todo \ {}
  BY <1>2 DEF Todo
<1>12. Shares(Work', RunningAt', lpn', Todo')
  BY <1>1, <1>10, <1>11 DEF c, bt
<1> QED BY <1>2, <1>12 DEF ShareInv

LEMMA ShareStep == CleanTypes /\ ShareInv /\ [Next]_vars => ShareInv'
<1> SUFFICES ASSUME CleanTypes, ShareInv, [Next]_vars PROVE ShareInv'
  OBVIOUS
<1>1. CASE SelectList
  <2>1. /\ pc = "top" /\ pc' = "each" /\ UNCHANGED <<mapped, maptbl, active, lists>>
    BY <1>1 DEF SelectList
  <2>2. Work' = Work
    BY <2>1 DEF Work
  <2> QED BY <2>1, <2>2, QuietStep
<1>2. CASE CallCleaner
  <2>1. /\ pc = "each" /\ pc' = "page" /\ prem' = 0 /\ lpn' = active[cur][pos].start
        /\ UNCHANGED <<mapped, maptbl, active, lists, cur, pos>>
    BY <1>2 DEF CallCleaner
  <2>2. Work' = Work
    BY <2>1 DEF Work
  <2>3. At' = pos /\ Here' = <<0, cur>> /\ pos >= 1
    BY <2>1 DEF At, Here, CleanTypes
  <2>4. Work[<<0, cur>>] = active[cur]
    BY QueueOfType DEF Work, CleanTypes
  <2>5. lpn' = ChunkIn(Work, <<Here', At'>>).start
    BY <2>1, <2>3, <2>4 DEF ChunkIn
  <2> QED BY <2>1, <2>2, <2>3, <2>5, QuietStep
<1>3. CASE LoopEnd
  BY <1>3, ShareUnpark
<1>4. CASE ChunkWritten
  <2>1. /\ pc = "page" /\ lpn > Chunk.end /\ ReturnNull
        /\ UNCHANGED <<mapped, maptbl, cur, lpn>>
    BY <1>4 DEF ChunkWritten
  <2>2. Work' = Removed(Work, Here, At) /\ pc' \in {"each", "after"}
    BY <2>1, NullEffect DEF Returns
  <2>3. /\ Shares(Work, <<Here, At>>, lpn, Todo)
        /\ At \in 1 .. Len(Work[Here])
        /\ PagesIn(Work, <<Here, At>>, lpn, <<Here, At>>) = Span(lpn, Chunk.end)
        /\ lpn \in Nat /\ Chunk.end \in Nat
    BY <2>1, RunningPages
  <2>4. Work \in Tables /\ Here \in Queues
    BY Located
  <2>5. RunningAt'[2] = 0
    BY <2>2 DEF RunningAt
  <2>6. \A p \in PlacesIn(Work) : p # <<Here, At>> => p # <<Here, At>>
    OBVIOUS
  <2>7. Shares(Removed(Work, Here, At), RunningAt', lpn',
               Todo \ PagesIn(Work, <<Here, At>>, lpn, <<Here, At>>))
    BY <2>3, <2>4, <2>5, <2>6, RemovedFollows
  <2>8. PagesIn(Work, <<Here, At>>, lpn, <<Here, At>>) = {} /\ Todo' = Todo \ {}
    BY <2>1, <2>3, SpanEmpty DEF Todo
  <2> QED BY <2>1, <2>2, <2>7, <2>8 DEF ShareInv
<1>5. CASE Preempt
  BY <1>5, SharePreempt
<1>6. CASE WritePage
  BY <1>6, ShareWrite
<1>7. CASE UNCHANGED vars
  <2>1. UNCHANGED <<mapped, maptbl, lpn, pc>> /\ Work' = Work /\ RunningAt' = RunningAt
    BY <1>7 DEF vars, loopVars, Work, RunningAt, Here, At
  <2>2. Todo' = Todo
    BY <2>1 DEF Todo
  <2> QED BY <2>1, <2>2 DEF ShareInv
<1> QED BY <1>1, <1>2, <1>3, <1>4, <1>5, <1>6, <1>7 DEF Next

-----------------------------------------------------------------------------
(***************************************************************************)
(* At the start the lists hold each mapped page once, if no run ends       *)
(* before the last page of the first stripe.                               *)
(***************************************************************************)
Striped == \A m \in MappedSets : \A l \in m : l + 1 \notin m => l >= NrParts - 1

LEMMA RunIs ==
  ASSUME NEW m \in SUBSET Lpns, NEW r \in Runs(m)
  PROVE  /\ r = <<r[1], r[2]>> /\ r[1] \in Nat /\ r[2] \in Nat /\ r[1] <= r[2]
         /\ r[2] < Total /\ r[1] .. r[2] \subseteq m /\ r[2] \in m
         /\ r[1] - 1 \notin m /\ r[2] + 1 \notin m
         /\ FiledIn(r) \in 0 .. NumList - 1
<1>1. Total \in Nat /\ NumList \in Nat \ {0}
  BY Sizes
<1>2. /\ r = <<r[1], r[2]>> /\ r[1] \in m /\ r[2] \in m /\ r[1] <= r[2]
      /\ r[1] .. r[2] \subseteq m /\ r[1] - 1 \notin m /\ r[2] + 1 \notin m
  BY DEF Runs
<1>3. r[1] \in Nat /\ r[2] \in Nat /\ r[2] < Total
  BY <1>1, <1>2 DEF Lpns
<1>4. FiledIn(r) \in 0 .. NumList - 1
  <2> DEFINE split == Total \div NumList
             seen  == IF r[2] + 1 < Total THEN r[2] + 2 ELSE Total
             div   == IF split = 0 THEN 1 ELSE split
             steps == seen \div div
  <2>1. split \in Nat /\ seen \in Nat
    BY <1>1, <1>3
  <2>2. div \in Nat \ {0}
    BY <2>1
  <2>3. steps \in Nat
    <3> HIDE DEF seen, div
    <3> QED BY <2>1, <2>2
  <2>4. FiledIn(r) = IF steps < NumList THEN steps ELSE NumList - 1
    BY DEF FiledIn
  <2> HIDE DEF steps
  <2> QED BY <1>1, <2>3, <2>4
<1> QED BY <1>2, <1>3, <1>4

LEMMA RunsApart ==
  ASSUME NEW m \in SUBSET Lpns, NEW r \in Runs(m), NEW q \in Runs(m),
         NEW l \in r[1] .. r[2], l \in q[1] .. q[2]
  PROVE  r = q
<1>1. /\ r = <<r[1], r[2]>> /\ r[1] \in Nat /\ r[2] \in Nat
      /\ r[1] .. r[2] \subseteq m /\ r[1] - 1 \notin m /\ r[2] + 1 \notin m
  BY RunIs
<1>2. /\ q = <<q[1], q[2]>> /\ q[1] \in Nat /\ q[2] \in Nat
      /\ q[1] .. q[2] \subseteq m /\ q[1] - 1 \notin m /\ q[2] + 1 \notin m
  BY RunIs
<1>3. ~ (r[1] < q[1])
  <2> SUFFICES ASSUME r[1] < q[1] PROVE FALSE
    OBVIOUS
  <2>1. q[1] - 1 \in r[1] .. r[2]
    BY <1>1, <1>2
  <2> QED BY <1>1, <1>2, <2>1
<1>4. ~ (q[1] < r[1])
  <2> SUFFICES ASSUME q[1] < r[1] PROVE FALSE
    OBVIOUS
  <2>1. r[1] - 1 \in q[1] .. q[2]
    BY <1>1, <1>2
  <2> QED BY <1>1, <1>2, <2>1
<1>5. ~ (r[2] < q[2])
  <2> SUFFICES ASSUME r[2] < q[2] PROVE FALSE
    OBVIOUS
  <2>1. r[2] + 1 \in q[1] .. q[2]
    BY <1>1, <1>2
  <2> QED BY <1>1, <1>2, <2>1
<1>6. ~ (q[2] < r[2])
  <2> SUFFICES ASSUME q[2] < r[2] PROVE FALSE
    OBVIOUS
  <2>1. q[2] + 1 \in r[1] .. r[2]
    BY <1>1, <1>2
  <2> QED BY <1>1, <1>2, <2>1
<1>7. r[1] = q[1] /\ r[2] = q[2]
  BY <1>1, <1>2, <1>3, <1>4, <1>5, <1>6
<1> QED BY <1>1, <1>2, <1>7

LEMMA RunAround ==
  ASSUME NEW m \in SUBSET Lpns, NEW l \in m
  PROVE  \E r \in Runs(m) : l \in r[1] .. r[2]
<1>1. Total \in Nat /\ l \in Nat /\ l < Total /\ m \subseteq 0 .. Total - 1
  BY Sizes DEF Lpns
<1> DEFINE A == {a \in Nat : a <= l /\ a .. l \subseteq m}
           B == {b \in Nat : b >= l /\ b + 1 \notin m}
<1>2. PICK a \in A : \A x \in A : a <= x
  <2>1. l \in A /\ A \in SUBSET Nat
    BY <1>1
  <2> HIDE DEF A
  <2> QED BY <2>1, LeastNatural
<1>3. PICK b \in B : \A x \in B : b <= x
  <2>1. Total \in B /\ B \in SUBSET Nat
    BY <1>1
  <2> HIDE DEF B
  <2> QED BY <2>1, LeastNatural
<1>4. a \in Nat /\ a <= l /\ a .. l \subseteq m /\ a - 1 \notin m
  <2>1. a \in Nat /\ a <= l /\ a .. l \subseteq m
    OBVIOUS
  <2>2. ASSUME a - 1 \in m PROVE FALSE
    <3>1. a - 1 \in Nat
      BY <1>1, <2>1, <2>2
    <3>2. (a - 1) .. l \subseteq m
      BY <1>1, <2>1, <2>2
    <3>3. a - 1 \in A
      BY <1>1, <2>1, <3>1, <3>2
    <3> QED BY <1>2, <2>1, <3>1, <3>3
  <2> QED BY <2>1, <2>2
<1>5. b \in Nat /\ b >= l /\ b + 1 \notin m
  OBVIOUS
<1>6. l .. b \subseteq m
  <2> SUFFICES ASSUME NEW x \in l .. b, x \notin m PROVE FALSE
    OBVIOUS
  <2>1. x \in Nat /\ x # l /\ l < x /\ x <= b
    BY <1>1, <1>5
  <2>2. x - 1 \in Nat /\ x - 1 >= l /\ (x - 1) + 1 \notin m
    BY <1>1, <2>1
  <2>3. x - 1 \in B
    BY <2>2
  <2>4. b <= x - 1
    BY <1>3, <2>3
  <2> QED BY <1>5, <2>1, <2>4
<1>7. a .. b \subseteq m
  BY <1>1, <1>4, <1>5, <1>6
<1>8. a \in m /\ b \in m /\ a <= b /\ l \in a .. b
  BY <1>1, <1>4, <1>5, <1>7
<1>9. <<a, b>> \in Runs(m)
  BY <1>4, <1>5, <1>7, <1>8 DEF Runs
<1> QED BY <1>8, <1>9

LEMMA ChunkPages ==
  ASSUME NEW m \in SUBSET Lpns, NEW r \in Runs(m), NEW i \in Parts,
         r[2] >= NrParts - 1
  PROVE  /\ Span(PartChunk(r, i).start, PartChunk(r, i).end)
              = {l \in r[1] .. r[2] : l % NrParts = i}
         /\ PartChunk(r, i).end < Total
<1>1. /\ NrParts \in Nat \ {0} /\ Total \in Nat /\ Wrap \in Nat \ {0} /\ Wrap > Total
      /\ i \in 0 .. NrParts - 1
  BY Sizes DEF Parts
<1>2. /\ r[1] \in Nat /\ r[2] \in Nat /\ r[1] <= r[2] /\ r[2] < Total
      /\ r \in Nat \X Nat /\ r[1] .. r[2] \subseteq Lpns
  BY RunIs
<1> DEFINE a == PartChunk(r, i).start
           c == PartChunk(r, i).end
           e == r[2] - ((r[2] - i) % NrParts)
<1>3. a \in Nat /\ a % NrParts = i /\ a >= r[1] /\ a < r[1] + NrParts
  BY <1>2, PartChunkType DEF ChunkType
<1>4. e \in Nat /\ e <= r[2] /\ r[2] < e + NrParts /\ e % NrParts = i
  <2>1. (r[2] - i) % NrParts \in 0 .. NrParts - 1
    BY <1>1, <1>2
  <2>2. e % NrParts = i
    BY <1>1, <1>2, ModDiff
  <2> QED BY <1>1, <1>2, <2>1, <2>2
<1>5. c = e % Wrap
  BY DEF PartChunk
<1> HIDE DEF a, c, e
<1>6. c = e
  <2>1. e \in 0 .. Wrap - 1 /\ e = Wrap * 0 + e /\ e \in Int /\ 0 \in Int
    BY <1>1, <1>2, <1>4
  <2>2. e % Wrap = e
    BY <1>1, <2>1, ModUnique
  <2> QED BY <1>5, <2>2
<1>7. ASSUME NEW l \in Lpns
      PROVE  (a <= l /\ l <= c /\ l % NrParts = a % NrParts)
                <=> (l \in r[1] .. r[2] /\ l % NrParts = i)
  <2>1. l \in Nat /\ l \in Int /\ a \in Int /\ e \in Int
    BY <1>1, <1>3, <1>4 DEF Lpns
  <2>2. ASSUME l \in r[1] .. r[2], l % NrParts = i PROVE a <= l /\ l <= e
    <3>1. ASSUME l < a PROVE FALSE
      <4>1. l + NrParts <= a
        BY <1>1, <1>3, <2>1, <2>2, <3>1, ModGap
      <4> QED BY <1>1, <1>2, <1>3, <2>1, <2>2, <4>1
    <3>2. ASSUME e < l PROVE FALSE
      <4>1. e + NrParts <= l
        BY <1>1, <1>4, <2>1, <2>2, <3>2, ModGap
      <4> QED BY <1>1, <1>2, <1>4, <2>1, <2>2, <4>1
    <3> QED BY <2>1, <3>1, <3>2
  <2>3. ASSUME a <= l, l <= e PROVE l \in r[1] .. r[2]
    BY <1>2, <1>3, <1>4, <2>1, <2>3
  <2> QED BY <1>3, <1>6, <2>2, <2>3
<1>8. Span(a, c) = {l \in r[1] .. r[2] : l % NrParts = i}
  BY <1>2, <1>7 DEF Span
<1>9. c < Total
  BY <1>1, <1>2, <1>4, <1>6
<1> QED BY <1>8, <1>9 DEF a, c

RunAt(p) == SortedRuns(Filed(mapped, p[1][2]))[p[2]]

\* What a place holds at the start: the part of one run that belongs to the
\* partition of its list.
LEMMA ListedRun ==
  ASSUME Striped, Init, NEW p \in PlacesIn(Work)
  PROVE  /\ p = <<p[1], p[2]>> /\ p[1] = <<0, p[1][2]>> /\ p[1][2] \in Slots
         /\ p[2] \in 1 .. Len(CreateList(mapped, p[1][2]))
         /\ RunAt(p) \in Filed(mapped, p[1][2])
         /\ PagesIn(Work, RunningAt, lpn, p)
              = {l \in RunAt(p)[1] .. RunAt(p)[2] : l % NrParts = p[1][2][1]}
         /\ StartIn(Work, RunningAt, lpn, p) % NrParts = p[1][2][1]
         /\ ChunkIn(Work, p).end < Total
<1>1. /\ mapped \in SUBSET Lpns /\ mapped \in MappedSets
      /\ active \in Lists /\ lists \in Lists /\ Work \in Tables
  <2>1. CleanTypes
    BY TypesInit
  <2> QED BY <2>1, CleanAssumption, QueueOfType DEF CleanTypes, Work
<1>2. p[1] \in Queues /\ p = <<p[1], p[2]>> /\ p[2] \in 1 .. Len(Work[p[1]])
  <2>1. p[1] \in Queues
    BY DEF PlacesIn
  <2> QED BY <1>1, <2>1, PlacesAre
<1>3. PICK b \in {0, 1}, s \in Slots : p[1] = <<b, s>>
  BY <1>2 DEF Queues
<1>4. b = 0
  <2> SUFFICES ASSUME b = 1 PROVE FALSE
    OBVIOUS
  <2>1. Work[<<1, s>>] = lists[s] /\ p[1] = <<1, s>>
    BY <1>1, <1>3, QueueOfType DEF Work
  <2>2. lists[s] = << >>
    BY DEF Init
  <2> QED BY <1>2, <2>1, <2>2
<1>5. Work[p[1]] = CreateList(mapped, s)
  <2>1. Work[<<0, s>>] = active[s] /\ p[1] = <<0, s>>
    BY <1>1, <1>3, <1>4, QueueOfType DEF Work
  <2> QED BY <2>1 DEF Init
<1> DEFINE n == Len(CreateList(mapped, s))
           f == SortedRuns(Filed(mapped, s))
<1>6. /\ f \in Bijection(1 .. n, Filed(mapped, s))
      /\ \A k \in 1 .. n : CreateList(mapped, s)[k] = PartChunk(f[k], s[1])
  BY <1>1, CreateListIs
<1>7. p[2] \in 1 .. n /\ RunAt(p) = f[p[2]] /\ p[1][2] = s
  BY <1>2, <1>3, <1>5 DEF RunAt
<1> HIDE DEF f, n
<1>8. RunAt(p) \in Filed(mapped, s)
  <2>1. f \in [1 .. n -> Filed(mapped, s)]
    BY <1>6, Fun_BijectionProperties
  <2> QED BY <1>7, <2>1
<1> DEFINE r == RunAt(p)
<1>9. ChunkIn(Work, p) = PartChunk(r, s[1])
  BY <1>5, <1>6, <1>7 DEF ChunkIn
<1>10. StartIn(Work, RunningAt, lpn, p) = PartChunk(r, s[1]).start
  <2>1. RunningAt[2] = 0
    BY DEF RunningAt, Init
  <2>2. p # RunningAt
    BY <1>7, <2>1
  <2> QED BY <1>9, <2>2 DEF StartIn
<1>11. r \in Runs(mapped) /\ s[1] \in Parts
  BY <1>8 DEF Filed, Slots
<1> HIDE DEF r
<1>12. r \in Nat \X Nat /\ r[2] \in mapped /\ r[2] + 1 \notin mapped
  BY <1>1, <1>11, RunIs
<1>13. r[2] >= NrParts - 1
  BY <1>1, <1>12 DEF Striped
<1>14. /\ Span(PartChunk(r, s[1]).start, PartChunk(r, s[1]).end)
             = {l \in r[1] .. r[2] : l % NrParts = s[1]}
       /\ PartChunk(r, s[1]).end < Total
  BY <1>1, <1>11, <1>13, ChunkPages
<1>15. PartChunk(r, s[1]).start % NrParts = s[1]
  BY <1>11, <1>12, PartChunkType
<1>16. PagesIn(Work, RunningAt, lpn, p) = {l \in r[1] .. r[2] : l % NrParts = s[1]}
  BY <1>9, <1>10, <1>14 DEF PagesIn
<1>17. p[1] = <<0, p[1][2]>> /\ p[1][2] \in Slots /\ p[2] \in 1 .. Len(CreateList(mapped, p[1][2]))
  BY <1>3, <1>4, <1>7 DEF n
<1>18. RunAt(p) \in Filed(mapped, p[1][2])
  BY <1>7, <1>8
<1>19. StartIn(Work, RunningAt, lpn, p) % NrParts = p[1][2][1] /\ ChunkIn(Work, p).end < Total
  BY <1>7, <1>9, <1>10, <1>14, <1>15
<1>20. PagesIn(Work, RunningAt, lpn, p)
         = {l \in RunAt(p)[1] .. RunAt(p)[2] : l % NrParts = p[1][2][1]}
  BY <1>7, <1>16 DEF r
<1> QED BY <1>2, <1>17, <1>18, <1>19, <1>20

LEMMA ShareInit ==
  ASSUME Striped, Init
  PROVE  ShareInv
<1>1. /\ mapped \in SUBSET Lpns
      /\ active \in Lists /\ lists \in Lists /\ Work \in Tables
  <2>1. CleanTypes
    BY TypesInit
  <2> QED BY <2>1, CleanAssumption, QueueOfType DEF CleanTypes, Work
<1>2. Todo = mapped /\ \A l \in Lpns : maptbl[l] = UNMAPPED
  BY <1>1 DEF Init, Todo
<1>3. ASSUME NEW p \in PlacesIn(Work), NEW q \in PlacesIn(Work), p # q
      PROVE  PagesIn(Work, RunningAt, lpn, p) \cap PagesIn(Work, RunningAt, lpn, q) = {}
  <2> SUFFICES ASSUME NEW l \in PagesIn(Work, RunningAt, lpn, p),
                      l \in PagesIn(Work, RunningAt, lpn, q)
               PROVE  FALSE
    OBVIOUS
  <2>1. /\ p = <<p[1], p[2]>> /\ p[1] = <<0, p[1][2]>> /\ p[1][2] \in Slots
        /\ p[2] \in 1 .. Len(CreateList(mapped, p[1][2]))
        /\ RunAt(p) \in Filed(mapped, p[1][2])
        /\ l \in RunAt(p)[1] .. RunAt(p)[2] /\ l % NrParts = p[1][2][1]
    BY ListedRun
  <2>2. /\ q = <<q[1], q[2]>> /\ q[1] = <<0, q[1][2]>> /\ q[1][2] \in Slots
        /\ q[2] \in 1 .. Len(CreateList(mapped, q[1][2]))
        /\ RunAt(q) \in Filed(mapped, q[1][2])
        /\ l \in RunAt(q)[1] .. RunAt(q)[2] /\ l % NrParts = q[1][2][1]
    BY ListedRun
  <2>3. RunAt(p) = RunAt(q)
    <3>1. RunAt(p) \in Runs(mapped) /\ RunAt(q) \in Runs(mapped)
      BY <2>1, <2>2 DEF Filed
    <3> QED BY <1>1, <2>1, <2>2, <3>1, RunsApart
  <2>4. p[1][2] = q[1][2]
    BY <2>1, <2>2, <2>3 DEF Filed, Slots
  <2>5. p[2] = q[2]
    <3> DEFINE s == p[1][2]
               f == SortedRuns(Filed(mapped, s))
    <3>1. f \in Bijection(1 .. Len(CreateList(mapped, s)), Filed(mapped, s))
      BY <1>1, <2>1, CreateListIs
    <3>2. f[p[2]] = f[q[2]]
      BY <2>3, <2>4 DEF RunAt
    <3> HIDE DEF f
    <3> QED BY <2>1, <2>2, <2>4, <3>1, <3>2, Fun_BijectionProperties
  <2> QED BY <1>3, <2>1, <2>2, <2>4, <2>5
<1>4. ASSUME NEW l \in mapped
      PROVE  \E p \in PlacesIn(Work) : l \in PagesIn(Work, RunningAt, lpn, p)
  <2>1. PICK r \in Runs(mapped) : l \in r[1] .. r[2]
    BY <1>1, RunAround
  <2>2. FiledIn(r) \in 0 .. NumList - 1
    BY <1>1, RunIs
  <2>3. l % NrParts \in Parts
    <3>1. l \in Int /\ NrParts \in Nat \ {0}
      BY <1>1, Sizes
    <3> QED BY <3>1, DivMod DEF Parts
  <2> DEFINE s == <<l % NrParts, FiledIn(r)>>
             f == SortedRuns(Filed(mapped, s))
  <2>4. s \in Slots /\ s[1] = l % NrParts /\ r \in Filed(mapped, s)
    BY <2>2, <2>3 DEF Slots, Filed
  <2> HIDE DEF s
  <2>5. f \in Bijection(1 .. Len(CreateList(mapped, s)), Filed(mapped, s))
    BY <1>1, <2>4, CreateListIs
  <2> HIDE DEF f
  <2>6. PICK k \in 1 .. Len(CreateList(mapped, s)) : f[k] = r
    BY <2>4, <2>5, Fun_BijectionProperties
  <2> DEFINE p == <<<<0, s>>, k>>
  <2>7. p \in PlacesIn(Work)
    <3>1. Work[<<0, s>>] = CreateList(mapped, s) /\ <<0, s>> \in Queues
      <4>1. active[s] = CreateList(mapped, s)
        BY <2>4 DEF Init
      <4> QED BY <1>1, <2>4, <4>1, QueueOfType DEF Work
    <3> QED BY <1>1, <2>6, <3>1, PlacesAre
  <2>8. p[1][2] = s /\ RunAt(p) = r
    BY <2>6 DEF RunAt, f
  <2> HIDE DEF p
  <2>9. PagesIn(Work, RunningAt, lpn, p) = {x \in r[1] .. r[2] : x % NrParts = s[1]}
    BY <2>7, <2>8, ListedRun
  <2> QED BY <2>1, <2>4, <2>7, <2>9
<1>5. ASSUME NEW l \in Lpns, NEW p \in PlacesIn(Work), l \in PagesIn(Work, RunningAt, lpn, p)
      PROVE  l \in mapped
  <2>1. RunAt(p) \in Filed(mapped, p[1][2]) /\ l \in RunAt(p)[1] .. RunAt(p)[2]
    BY <1>5, ListedRun
  <2>2. RunAt(p) \in Runs(mapped)
    BY <2>1 DEF Filed
  <2> QED BY <1>1, <2>1, <2>2, RunIs
<1>6. \A p \in PlacesIn(Work) : /\ StartIn(Work, RunningAt, lpn, p) % NrParts = p[1][2][1]
                                /\ ChunkIn(Work, p).end < Total
  BY ListedRun
<1>7. Shares(Work, RunningAt, lpn, mapped)
  BY <1>3, <1>4, <1>5, <1>6 DEF Shares
<1> QED BY <1>2, <1>7 DEF ShareInv

-----------------------------------------------------------------------------
(***************************************************************************)
(* From the shared work to WorkPartition, whose places are triples.        *)
(***************************************************************************)
Placed(p) == <<<<p[1], p[2]>>, p[3]>>

LEMMA PlaceIs ==
  ASSUME CleanTypes, NEW p \in Places
  PROVE  /\ p = <<p[1], p[2], p[3]>> /\ p[1] \in {0, 1} /\ p[2] \in Slots /\ p[3] \in Nat \ {0}
         /\ Placed(p) \in PlacesIn(Work)
         /\ ChunkIn(Work, Placed(p)) = (IF p[1] = 0 THEN active[p[2]] ELSE lists[p[2]])[p[3]]
<1>1. active \in Lists /\ lists \in Lists /\ Work \in Tables
  BY QueueOfType DEF CleanTypes, Work
<1>2. PICK s \in Slots : \/ \E k \in DOMAIN active[s] : p = <<0, s, k>>
                         \/ \E k \in DOMAIN lists[s] : p = <<1, s, k>>
  BY DEF Places
<1>3. /\ <<0, s>> \in Queues /\ Work[<<0, s>>] = active[s] /\ active[s] \in Seq(ChunkType)
      /\ <<1, s>> \in Queues /\ Work[<<1, s>>] = lists[s] /\ lists[s] \in Seq(ChunkType)
  BY <1>1, QueueOfType DEF Work
<1>4. CASE \E k \in DOMAIN active[s] : p = <<0, s, k>>
  <2>1. PICK k \in 1 .. Len(active[s]) : p = <<0, s, k>>
    BY <1>3, <1>4
  <2>2. p[1] = 0 /\ p[2] = s /\ p[3] = k
    BY <2>1
  <2>3. <<<<0, s>>, k>> \in PlacesIn(Work)
    BY <1>1, <1>3, <2>1, PlacesAre
  <2> QED BY <1>3, <2>1, <2>2, <2>3 DEF Placed, ChunkIn
<1>5. CASE \E k \in DOMAIN lists[s] : p = <<1, s, k>>
  <2>1. PICK k \in 1 .. Len(lists[s]) : p = <<1, s, k>>
    BY <1>3, <1>5
  <2>2. p[1] = 1 /\ p[2] = s /\ p[3] = k
    BY <2>1
  <2>3. <<<<1, s>>, k>> \in PlacesIn(Work)
    BY <1>1, <1>3, <2>1, PlacesAre
  <2> QED BY <1>3, <2>1, <2>2, <2>3 DEF Placed, ChunkIn
<1> QED BY <1>2, <1>4, <1>5

LEMMA PlacedAll ==
  ASSUME CleanTypes, NEW q \in PlacesIn(Work)
  PROVE  \E p \in Places : Placed(p) = q
<1>1. active \in Lists /\ lists \in Lists /\ Work \in Tables
  BY QueueOfType DEF CleanTypes, Work
<1>2. q = <<q[1], q[2]>> /\ q[1] \in Queues /\ q[2] \in 1 .. Len(Work[q[1]])
  <2>1. q[1] \in Queues
    BY DEF PlacesIn
  <2> QED BY <1>1, <2>1, PlacesAre
<1>3. PICK b \in {0, 1}, s \in Slots : q[1] = <<b, s>>
  BY <1>2 DEF Queues
<1>4. /\ Work[<<0, s>>] = active[s] /\ active[s] \in Seq(ChunkType)
      /\ Work[<<1, s>>] = lists[s] /\ lists[s] \in Seq(ChunkType)
  BY <1>1, QueueOfType DEF Work
<1> DEFINE p == <<b, s, q[2]>>
<1>5. Placed(p) = q
  BY <1>2, <1>3 DEF Placed
<1>6. p \in Places
  <2>1. CASE b = 0
    <3>1. q[2] \in DOMAIN active[s]
      BY <1>2, <1>3, <1>4, <2>1
    <3> QED BY <2>1, <3>1 DEF Places
  <2>2. CASE b = 1
    <3>1. q[2] \in DOMAIN lists[s]
      BY <1>2, <1>3, <1>4, <2>2
    <3> QED BY <2>2, <3>1 DEF Places
  <2> QED BY <2>1, <2>2
<1> QED BY <1>5, <1>6

LEMMA RestIs ==
  ASSUME CleanTypes, NEW p \in Places
  PROVE  Rest(p) = PagesIn(Work, RunningAt, lpn, Placed(p))
<1>1. /\ p = <<p[1], p[2], p[3]>> /\ p[1] \in {0, 1} /\ p[2] \in Slots /\ p[3] \in Nat \ {0}
      /\ ChunkIn(Work, Placed(p)) = (IF p[1] = 0 THEN active[p[2]] ELSE lists[p[2]])[p[3]]
  BY PlaceIs
<1> DEFINE c == (IF p[1] = 0 THEN active[p[2]] ELSE lists[p[2]])[p[3]]
           runs == Running /\ p = (IF prem = 0 THEN <<0, cur, pos>> ELSE <<1, cur, prem>>)
           from == IF runs THEN lpn ELSE c.start
<1>2. runs <=> Placed(p) = RunningAt
  <2>1. CASE pc # "page"
    <3>1. RunningAt[2] = 0 /\ Placed(p)[2] # 0
      BY <1>1, <2>1 DEF RunningAt, Placed
    <3> QED BY <2>1, <3>1 DEF Running
  <2>2. CASE pc = "page" /\ prem = 0
    <3>1. RunningAt = <<<<0, cur>>, pos>>
      BY <2>2 DEF RunningAt, Here, At
    <3> QED BY <1>1, <2>2, <3>1 DEF Running, Placed
  <2>3. CASE pc = "page" /\ prem # 0
    <3>1. RunningAt = <<<<1, cur>>, prem>>
      BY <2>3 DEF RunningAt, Here, At
    <3> QED BY <1>1, <2>3, <3>1 DEF Running, Placed
  <2> QED BY <2>1, <2>2, <2>3
<1>3. Rest(p) = Span(from, c.end)
  BY DEF Rest, Span
<1> HIDE DEF runs, c
<1>4. StartIn(Work, RunningAt, lpn, Placed(p)) = from /\ ChunkIn(Work, Placed(p)) = c
  BY <1>1, <1>2 DEF StartIn, c
<1> QED BY <1>3, <1>4 DEF PagesIn

LEMMA PartitionFollows ==
  ASSUME CleanTypes, Shares(Work, RunningAt, lpn, Todo)
  PROVE  WorkPartition
<1>1. mapped \subseteq Lpns
  BY CleanAssumption DEF CleanTypes
<1>2. ASSUME NEW p \in Places, NEW q \in Places, NEW l \in Rest(p), l \in Rest(q)
      PROVE  p = q
  <2>1. Placed(p) \in PlacesIn(Work) /\ p = <<p[1], p[2], p[3]>>
    BY PlaceIs
  <2>2. Placed(q) \in PlacesIn(Work) /\ q = <<q[1], q[2], q[3]>>
    BY PlaceIs
  <2>3. /\ l \in PagesIn(Work, RunningAt, lpn, Placed(p))
        /\ l \in PagesIn(Work, RunningAt, lpn, Placed(q))
    BY <1>2, RestIs
  <2>4. Placed(p) = Placed(q)
    BY <2>1, <2>2, <2>3 DEF Shares
  <2> QED BY <2>1, <2>2, <2>4 DEF Placed
<1>3. ASSUME NEW l \in Lpns
      PROVE  l \in Todo <=> \E p \in Places : l \in Rest(p)
  <2>1. ASSUME l \in Todo PROVE \E p \in Places : l \in Rest(p)
    <3>1. PICK q \in PlacesIn(Work) : l \in PagesIn(Work, RunningAt, lpn, q)
      BY <2>1 DEF Shares
    <3>2. PICK p \in Places : Placed(p) = q
      BY PlacedAll
    <3> QED BY <3>1, <3>2, RestIs
  <2>2. ASSUME NEW p \in Places, l \in Rest(p) PROVE l \in Todo
    <3>1. l \in PagesIn(Work, RunningAt, lpn, Placed(p)) /\ Placed(p) \in PlacesIn(Work)
      BY <2>2, RestIs, PlaceIs
    <3> QED BY <3>1 DEF Shares
  <2> QED BY <2>1, <2>2
<1>4. ASSUME NEW p \in Places, NEW l \in Rest(p)
      PROVE  l % NrParts = p[2][1]
  <2>1. /\ Placed(p) \in PlacesIn(Work)
        /\ l \in PagesIn(Work, RunningAt, lpn, Placed(p))
        /\ Placed(p)[1][2] = p[2]
    BY RestIs, PlaceIs DEF Placed
  <2>2. StartIn(Work, RunningAt, lpn, Placed(p)) % NrParts = p[2][1]
    BY <2>1 DEF Shares
  <2> QED BY <2>1, <2>2 DEF PagesIn, Span
<1>5. ASSUME NEW l \in Lpns
      PROVE  Cardinality({p \in Places : l \in Rest(p)})
               = IF l \in mapped /\ maptbl[l] = UNMAPPED THEN 1 ELSE 0
  <2> DEFINE S == {p \in Places : l \in Rest(p)}
  <2>1. l \in Todo <=> l \in mapped /\ maptbl[l] = UNMAPPED
    BY DEF Todo
  <2>2. CASE l \in Todo
    <3>1. PICK p \in Places : l \in Rest(p)
      BY <1>3, <2>2
    <3>2. S = {p}
      BY <1>2, <3>1
    <3> HIDE DEF S
    <3>3. Cardinality(S) = 1
      BY <3>2, FS_Singleton
    <3> QED BY <2>1, <2>2, <3>3 DEF S
  <2>3. CASE l \notin Todo
    <3>1. S = {}
      BY <1>3, <2>3
    <3> HIDE DEF S
    <3>2. Cardinality(S) = 0
      BY <3>1, FS_EmptySet
    <3> QED BY <2>1, <2>3, <3>2 DEF S
  <2> QED BY <2>2, <2>3
<1> DEFINE left == [p \in Places |-> Rest(p)]
<1>6. ASSUME NEW l \in Lpns
      PROVE  Cardinality({p \in Places : l \in left[p]})
               = IF l \in mapped /\ maptbl[l] = UNMAPPED THEN 1 ELSE 0
  <2>1. {p \in Places : l \in left[p]} = {p \in Places : l \in Rest(p)}
    OBVIOUS
  <2> QED BY <1>5, <2>1
<1>7. \A p \in Places : \A l \in left[p] : l % NrParts = p[2][1]
  BY <1>4
<1> HIDE DEF left
<1> QED BY <1>6, <1>7 DEF WorkPartition, left

-----------------------------------------------------------------------------
(***************************************************************************)
(* The pages in use are those the write pointer has passed: the page it    *)
(* fills is the only one that a step adds.                                 *)
(***************************************************************************)
Used(p) == {a \in (0 .. p.line) \X Dies \X (0 .. PgsPerBlk - 1) :
              a[1] < p.line \/ a[3] < p.counter[a[2]]}
Filling(p) == <<p.line, p.die, p.counter[p.die]>>
WrittenOf(i) == {l \in Lpns : l % NrParts = i /\ maptbl[l] # UNMAPPED}

DenseIn(i) ==
  /\ {maptbl[l] : l \in WrittenOf(i)} = Used(ftl[i])
  /\ \A l, m \in WrittenOf(i) : l # m => maptbl[l] # maptbl[m]

\* Bumped adds the page that is filled.
LEMMA BumpedPage ==
  ASSUME NEW p \in PointerType, HasRoom(p)
  PROVE  /\ Filling(p) \in (0 .. p.line) \X Dies \X (0 .. PgsPerBlk - 1)
         /\ Filling(p) \notin Used(p)
         /\ \A a \in (0 .. p.line) \X Dies \X (0 .. PgsPerBlk - 1) :
              (a[1] < p.line \/ a[3] < Bumped(p)[a[2]])
                 <=> (a \in Used(p) \/ a = Filling(p))
<1>1. /\ Bumped(p) \in [Dies -> 0 .. PgsPerBlk]
      /\ Bumped(p)[p.die] = p.counter[p.die] + 1
      /\ \A d \in Dies : d # p.die => Bumped(p)[d] = p.counter[d]
      /\ p.die \in Dies /\ p.line \in Nat
      /\ p.counter[p.die] \in 0 .. PgsPerBlk - 1
  BY BumpedType
<1>2. p.counter \in [Dies -> 0 .. PgsPerBlk] /\ PgsPerBlk \in Nat
  BY Sizes DEF PointerType
<1>3. /\ Filling(p)[1] = p.line /\ Filling(p)[2] = p.die /\ Filling(p)[3] = p.counter[p.die]
      /\ Filling(p) \in (0 .. p.line) \X Dies \X (0 .. PgsPerBlk - 1)
  BY <1>1 DEF Filling
<1>4. Filling(p) \notin Used(p)
  BY <1>1, <1>3 DEF Used
<1>5. ASSUME NEW a \in (0 .. p.line) \X Dies \X (0 .. PgsPerBlk - 1)
      PROVE  (a[1] < p.line \/ a[3] < Bumped(p)[a[2]])
                <=> (a \in Used(p) \/ a = Filling(p))
  <2>1. /\ a = <<a[1], a[2], a[3]>> /\ a[1] \in 0 .. p.line /\ a[2] \in Dies
        /\ a[3] \in 0 .. PgsPerBlk - 1
    OBVIOUS
  <2>2. a \in Used(p) <=> (a[1] < p.line \/ a[3] < p.counter[a[2]])
    BY DEF Used
  <2>3. a = Filling(p) <=> a[1] = p.line /\ a[2] = p.die /\ a[3] = p.counter[p.die]
    BY <2>1 DEF Filling
  <2>4. CASE a[2] # p.die
    <3>1. Bumped(p)[a[2]] = p.counter[a[2]]
      BY <1>1, <2>1, <2>4
    <3> QED BY <2>2, <2>3, <2>4, <3>1
  <2>5. CASE a[2] = p.die
    <3>1. a[3] < Bumped(p)[a[2]] <=> a[3] < p.counter[a[2]] \/ a[3] = p.counter[p.die]
      BY <1>1, <1>2, <2>1, <2>5
    <3>2. a[1] = p.line \/ a[1] < p.line
      BY <1>1, <2>1
    <3> QED BY <2>2, <2>3, <2>5, <3>1, <3>2
  <2> QED BY <2>4, <2>5
<1> QED BY <1>3, <1>4, <1>5

LEMMA UsedStep ==
  ASSUME NEW p \in PointerType, HasRoom(p), NEW r, PointerStep(p, r)
  PROVE  Used(r) = Used(p) \cup {Filling(p)} /\ Filling(p) \notin Used(p)
<1>1. /\ Filling(p) \in (0 .. p.line) \X Dies \X (0 .. PgsPerBlk - 1)
      /\ Filling(p) \notin Used(p)
      /\ \A a \in (0 .. p.line) \X Dies \X (0 .. PgsPerBlk - 1) :
           (a[1] < p.line \/ a[3] < Bumped(p)[a[2]])
              <=> (a \in Used(p) \/ a = Filling(p))
  BY BumpedPage
<1>2. p.line \in Nat /\ PgsPerBlk \in Nat
  BY Sizes DEF PointerType
<1> DEFINE Region == (0 .. p.line) \X Dies \X (0 .. PgsPerBlk - 1)
<1>3. Used(p) \subseteq Region
  BY DEF Used
<1>4. CASE r.line = p.line /\ r.counter = Bumped(p)
  <2>1. Used(r) = {a \in Region : a[1] < p.line \/ a[3] < Bumped(p)[a[2]]}
    BY <1>4 DEF Used
  <2> HIDE DEF Region
  <2> QED BY <1>1, <1>3, <2>1 DEF Region
<1>5. CASE /\ \A d \in Dies : Bumped(p)[d] = PgsPerBlk
           /\ r.line = p.line + 1 /\ r.counter = [d \in Dies |-> 0]
  <2>1. Used(r) = Region
    <3>1. ASSUME NEW a \in Used(r) PROVE a \in Region
      <4>1. /\ a \in (0 .. p.line + 1) \X Dies \X (0 .. PgsPerBlk - 1)
            /\ a[1] < p.line + 1 \/ a[3] < 0
        BY <1>5 DEF Used
      <4>2. /\ a = <<a[1], a[2], a[3]>> /\ a[1] \in 0 .. p.line + 1 /\ a[2] \in Dies
            /\ a[3] \in 0 .. PgsPerBlk - 1
        BY <4>1
      <4>3. a[1] \in 0 .. p.line
        BY <1>2, <4>1, <4>2
      <4> QED BY <4>2, <4>3
    <3>2. ASSUME NEW a \in Region PROVE a \in Used(r)
      <4>1. /\ a = <<a[1], a[2], a[3]>> /\ a[1] \in 0 .. p.line /\ a[2] \in Dies
            /\ a[3] \in 0 .. PgsPerBlk - 1
        OBVIOUS
      <4>2. a[1] \in 0 .. p.line + 1 /\ a[1] < p.line + 1
        BY <1>2, <4>1
      <4>3. a \in (0 .. r.line) \X Dies \X (0 .. PgsPerBlk - 1) /\ a[1] < r.line
        BY <1>5, <4>1, <4>2
      <4> QED BY <4>3 DEF Used
    <3> QED BY <3>1, <3>2
  <2>2. ASSUME NEW a \in Region PROVE a \in Used(p) \/ a = Filling(p)
    <3>1. a[2] \in Dies /\ a[3] < PgsPerBlk
      BY <1>2
    <3>2. a[3] < Bumped(p)[a[2]]
      BY <1>5, <3>1
    <3> QED BY <1>1, <3>2
  <2> HIDE DEF Region
  <2>3. Filling(p) \in Region
    BY <1>1 DEF Region
  <2> QED BY <1>1, <1>3, <2>1, <2>2, <2>3
<1> QED BY <1>1, <1>4, <1>5 DEF PointerStep

LEMMA DenseInit ==
  ASSUME Init, NEW i \in Parts
  PROVE  DenseIn(i)
<1>1. WrittenOf(i) = {}
  BY DEF Init, WrittenOf
<1>2. Used(ftl[i]) = {}
  <2> SUFFICES ASSUME NEW a \in Used(ftl[i]) PROVE FALSE
    OBVIOUS
  <2>1. ftl[i].line = 0 /\ ftl[i].counter = [d \in Dies |-> 0]
    BY DEF Init
  <2>2. /\ a \in (0 .. 0) \X Dies \X (0 .. PgsPerBlk - 1)
        /\ a[1] < 0 \/ a[3] < ftl[i].counter[a[2]]
    BY <2>1 DEF Used
  <2>3. a[1] = 0 /\ a[2] \in Dies /\ a[3] \in 0 .. PgsPerBlk - 1
    BY <2>2
  <2>4. a[3] < 0
    BY <2>1, <2>2, <2>3
  <2> QED BY <2>3, <2>4
<1> QED BY <1>1, <1>2 DEF DenseIn

LEMMA DenseWrite ==
  ASSUME CleanTypes, ShareInv, pc = "page", lpn <= Chunk.end,
         NEW i \in Parts, i = cur[1], DenseIn(i),
         maptbl' = [maptbl EXCEPT ![lpn] = Filling(ftl[i])], mapped' = mapped
  PROVE  /\ {maptbl'[l] : l \in WrittenOf(i)'} = Used(ftl[i]) \cup {Filling(ftl[i])}
         /\ \A l, m \in WrittenOf(i)' : l # m => maptbl'[l] # maptbl'[m]
         /\ WrittenOf(i)' \subseteq {l \in mapped : l % NrParts = i}
         /\ \A j \in Parts : j # i =>
              WrittenOf(j)' = WrittenOf(j) /\ \A l \in WrittenOf(j) : maptbl'[l] = maptbl[l]
<1>1. /\ maptbl \in [Lpns -> {UNMAPPED} \cup Written]
      /\ ftl[i] \in PointerType /\ HasRoom(ftl[i])
  BY DEF CleanTypes
<1>2. lpn \in Todo /\ lpn \in Lpns /\ \A l \in Lpns : maptbl'[l] # UNMAPPED => l \in mapped'
  <2> DEFINE a == ftl[i].line
             d == ftl[i].die
             g == ftl[i].counter[d]
  <2>1. maptbl' = [maptbl EXCEPT ![lpn] = <<a, d, g>>]
    BY DEF Filling
  <2> HIDE DEF a, d, g
  <2> QED
    BY ONLY <2>1, CleanTypes, ShareInv, pc = "page", lpn <= Chunk.end, mapped' = mapped, PageLeaves
<1>3. lpn % NrParts = i /\ maptbl[lpn] = UNMAPPED
  BY <1>2, RunningPages DEF Todo
<1>4. Filling(ftl[i]) # UNMAPPED /\ Filling(ftl[i]) \notin Used(ftl[i])
  BY <1>1, BumpedPage DEF Filling, UNMAPPED
<1>5. \A l \in Lpns : maptbl'[l] = IF l = lpn THEN Filling(ftl[i]) ELSE maptbl[l]
  BY <1>1, <1>2
<1>6. WrittenOf(i)' = WrittenOf(i) \cup {lpn} /\ lpn \notin WrittenOf(i)
  BY <1>2, <1>3, <1>4, <1>5 DEF WrittenOf
<1>7. \A l \in WrittenOf(i) : maptbl'[l] = maptbl[l]
  BY <1>5, <1>6 DEF WrittenOf
<1>8. maptbl'[lpn] = Filling(ftl[i])
  BY <1>2, <1>5
<1>9. {maptbl'[l] : l \in WrittenOf(i)'} = Used(ftl[i]) \cup {Filling(ftl[i])}
  <2>1. {maptbl[l] : l \in WrittenOf(i)} = Used(ftl[i])
    BY DEF DenseIn
  <2> QED BY <1>6, <1>7, <1>8, <2>1
<1>10. ASSUME NEW l \in WrittenOf(i)', NEW m \in WrittenOf(i)', l # m
       PROVE  maptbl'[l] # maptbl'[m]
  <2>1. \A k \in WrittenOf(i) : maptbl'[k] \in Used(ftl[i])
    BY <1>7 DEF DenseIn
  <2>2. CASE l = lpn
    BY <1>4, <1>6, <1>8, <1>10, <2>1, <2>2
  <2>3. CASE m = lpn
    BY <1>4, <1>6, <1>8, <1>10, <2>1, <2>3
  <2>4. CASE l # lpn /\ m # lpn
    <3>1. l \in WrittenOf(i) /\ m \in WrittenOf(i)
      BY <1>6, <1>10, <2>4
    <3> QED BY <1>7, <1>10, <3>1 DEF DenseIn
  <2> QED BY <2>2, <2>3, <2>4
<1>11. WrittenOf(i)' \subseteq {l \in mapped : l % NrParts = i}
  BY <1>2 DEF WrittenOf
<1>12. ASSUME NEW j \in Parts, j # i
       PROVE  WrittenOf(j)' = WrittenOf(j) /\ \A l \in WrittenOf(j) : maptbl'[l] = maptbl[l]
  BY <1>3, <1>5, <1>12 DEF WrittenOf
<1> QED BY <1>9, <1>10, <1>11, <1>12

-----------------------------------------------------------------------------
(***************************************************************************)
(* A partition whose mapped pages fit into its lines without the           *)
(* collector's never runs out of lines.                                    *)
(***************************************************************************)
Roomy == \A m \in MappedSets : \A i \in Parts :
           Cardinality({l \in m : l % NrParts = i}) < (TtLines - 1) * NrDies * PgsPerBlk

LEMMA LinesSuffice ==
  ASSUME Roomy, NEW m \in MappedSets, NEW i \in Parts,
         NEW W, \A l \in W : l \in m /\ l % NrParts = i, NEW f,
         \A l \in W : f[l] \in (0 .. TtLines - 2) \X Dies \X (0 .. PgsPerBlk - 1)
  PROVE  \E a \in (0 .. TtLines - 2) \X Dies \X (0 .. PgsPerBlk - 1) : \A l \in W : f[l] # a
<1> SUFFICES ASSUME \A a \in (0 .. TtLines - 2) \X Dies \X (0 .. PgsPerBlk - 1) :
                       \E l \in W : f[l] = a
             PROVE  FALSE
  OBVIOUS
<1> DEFINE M == {l \in m : l % NrParts = i}
           A == 0 .. TtLines - 2
           C == 0 .. PgsPerBlk - 1
           T == (A \X Dies) \X C
           g == [l \in W |-> <<<<f[l][1], f[l][2]>>, f[l][3]>>]
<1>1. TtLines \in Nat /\ TtLines > 1 /\ NrDies \in Nat \ {0} /\ PgsPerBlk \in Nat \ {0}
  BY CleanAssumption
<1>2. IsFiniteSet(W) /\ IsFiniteSet(M) /\ Cardinality(W) <= Cardinality(M)
  <2>1. IsFiniteSet(Lpns) /\ M \in SUBSET Lpns
    BY Sizes, CleanAssumption
  <2>2. IsFiniteSet(M)
    BY <2>1, FS_Subset
  <2>3. W \in SUBSET M
    OBVIOUS
  <2> HIDE DEF M
  <2> QED BY <2>2, <2>3, FS_Subset
<1>3. IsFiniteSet(A) /\ Cardinality(A) = TtLines - 1
  BY <1>1, FS_Interval
<1>4. IsFiniteSet(Dies) /\ Cardinality(Dies) = NrDies
  BY <1>1, FS_Interval DEF Dies
<1>5. IsFiniteSet(C) /\ Cardinality(C) = PgsPerBlk
  BY <1>1, FS_Interval
<1>6. \A l \in W : f[l] \in A \X Dies \X C
  OBVIOUS
<1>7. \A x \in A \X Dies \X C : \E l \in W : f[l] = x
  OBVIOUS
<1> HIDE DEF A, C, M
<1>8. IsFiniteSet(T) /\ Cardinality(T) = (TtLines - 1) * NrDies * PgsPerBlk
  <2>1. IsFiniteSet(A \X Dies) /\ Cardinality(A \X Dies) = (TtLines - 1) * NrDies
    BY <1>3, <1>4, FS_Product
  <2> QED BY <1>5, <2>1, FS_Product
<1>9. g \in [W -> T]
  <2> SUFFICES ASSUME NEW l \in W PROVE <<<<f[l][1], f[l][2]>>, f[l][3]>> \in T
    OBVIOUS
  <2>1. f[l][1] \in A /\ f[l][2] \in Dies /\ f[l][3] \in C
    BY <1>6
  <2> QED BY <2>1
<1>10. ASSUME NEW t \in T PROVE \E l \in W : g[l] = t
  <2>1. PICK a \in A, d \in Dies, c \in C : t = <<<<a, d>>, c>>
    OBVIOUS
  <2>2. PICK l \in W : f[l] = <<a, d, c>>
    BY <1>7
  <2> QED BY <2>1, <2>2
<1> HIDE DEF T, g
<1>11. g \in Surjection(W, T)
  BY <1>9, <1>10, Fun_IsSurj
<1>12. Cardinality(T) <= Cardinality(W)
  BY <1>2, <1>11, FS_Surjection
<1>13. Cardinality(M) < (TtLines - 1) * NrDies * PgsPerBlk
  BY DEF Roomy, M
<1>14. Cardinality(M) \in Nat /\ Cardinality(W) \in Nat /\ Cardinality(T) \in Nat
  BY <1>2, <1>8, FS_CardinalityType
<1> QED BY <1>2, <1>8, <1>12, <1>13, <1>14

CleanInv ==
  /\ CleanTypes
  /\ ShareInv
  /\ pc # "oops" /\ \A i \in Parts : DenseIn(i)

LEMMA DenseStep ==
  ASSUME Roomy, CleanInv, WritePage
  PROVE  pc' # "oops" /\ \A i \in Parts : DenseIn(i)'
<1>1. CleanTypes /\ ShareInv /\ \A i \in Parts : DenseIn(i)
  BY DEF CleanInv
<1>2. PICK i \in Parts : i = cur[1]
  BY <1>1 DEF CleanTypes, Slots
<1>3. Part = ftl[i] /\ ftl[i] \in PointerType /\ HasRoom(ftl[i])
  BY <1>1, <1>2 DEF Part, CleanTypes
<1>4. /\ pc = "page" /\ lpn <= Chunk.end
      /\ maptbl' = [maptbl EXCEPT ![lpn] = Filling(ftl[i])] /\ mapped' = mapped
      /\ \/ PageOops
         \/ /\ \E r : PointerStep(ftl[i], r) /\ ftl' = [ftl EXCEPT ![i] = r]
            /\ PageGoesOn \/ PageEnds \/ PageReturns
  BY <1>1, <1>2, <1>3, WriteInTable, WriteEffect DEF Filling
<1>5. /\ {maptbl'[l] : l \in WrittenOf(i)'} = Used(ftl[i]) \cup {Filling(ftl[i])}
      /\ \A l, m \in WrittenOf(i)' : l # m => maptbl'[l] # maptbl'[m]
      /\ WrittenOf(i)' \subseteq {l \in mapped : l % NrParts = i}
      /\ \A j \in Parts : j # i =>
           WrittenOf(j)' = WrittenOf(j) /\ \A l \in WrittenOf(j) : maptbl'[l] = maptbl[l]
  BY <1>1, <1>2, <1>4, DenseWrite
<1>6. ~ PageOops
  <2> SUFFICES ASSUME PageOops PROVE FALSE
    OBVIOUS
  <2>1. /\ ftl[i].line = TtLines - 2
        /\ \A d \in Dies : Bumped(ftl[i])[d] = PgsPerBlk
    BY <1>3 DEF PageOops, NoFreeLine
  <2> DEFINE Region == (0 .. TtLines - 2) \X Dies \X (0 .. PgsPerBlk - 1)
  <2>2. Used(ftl[i]) \subseteq Region /\ Filling(ftl[i]) \in Region
    <3>1. Used(ftl[i]) \subseteq Region
      BY <2>1 DEF Used
    <3> QED BY <1>3, <2>1, <3>1, BumpedPage
  <2>3. ASSUME NEW a \in Region PROVE a \in Used(ftl[i]) \/ a = Filling(ftl[i])
    <3>1. a[2] \in Dies /\ a[3] < PgsPerBlk
      BY Sizes
    <3>2. a[3] < Bumped(ftl[i])[a[2]]
      BY <2>1, <3>1
    <3> QED BY <1>3, <2>1, <3>2, BumpedPage
  <2>4. {maptbl'[l] : l \in WrittenOf(i)'} = Region
    <3> HIDE DEF Region
    <3> QED BY <1>5, <2>2, <2>3
  <2>5. PICK W : W = WrittenOf(i)'
    OBVIOUS
  <2>6. PICK f : f = maptbl'
    OBVIOUS
  <2>7. mapped \in MappedSets
    BY <1>1 DEF CleanTypes
  <2>8. PICK m \in MappedSets : m = mapped
    BY <2>7
  <2>9. W \in SUBSET {l \in m : l % NrParts = i}
    BY <1>5, <2>5, <2>8
  <2>10. \A l \in W : l \in m /\ l % NrParts = i /\ f[l] \in Region
    <3> HIDE DEF Region
    <3> QED BY <2>4, <2>5, <2>6, <2>9
  <2>11. PICK a \in Region : \A l \in W : f[l] # a
    BY <1>2, <2>8, <2>10, LinesSuffice
  <2> HIDE DEF Region
  <2> QED BY <2>4, <2>5, <2>6, <2>11
<1>7. PICK r : PointerStep(ftl[i], r) /\ ftl' = [ftl EXCEPT ![i] = r]
  BY <1>4, <1>6
<1>8. pc' # "oops"
  BY <1>4, <1>6 DEF PageGoesOn, PageEnds, PageReturns, Returns
<1>9. ftl'[i] = r /\ \A j \in Parts : j # i => ftl'[j] = ftl[j]
  BY <1>1, <1>7 DEF CleanTypes
<1>10. DenseIn(i)'
  <2>1. Used(ftl'[i]) = Used(ftl[i]) \cup {Filling(ftl[i])}
    BY <1>3, <1>7, <1>9, UsedStep
  <2> QED BY <1>5, <2>1 DEF DenseIn
<1>11. ASSUME NEW j \in Parts, j # i
       PROVE  DenseIn(j)'
  <2>1. DenseIn(j)
    BY <1>1
  <2>2. WrittenOf(j)' = WrittenOf(j) /\ \A l \in WrittenOf(j) : maptbl'[l] = maptbl[l]
    BY <1>5, <1>11
  <2>3. Used(ftl'[j]) = Used(ftl[j])
    BY <1>9, <1>11
  <2>4. {maptbl'[l] : l \in WrittenOf(j)'} = {maptbl[l] : l \in WrittenOf(j)}
    BY <2>2
  <2> QED BY <2>1, <2>2, <2>3, <2>4 DEF DenseIn
<1> QED BY <1>8, <1>10, <1>11

LEMMA CleanInvInit ==
  ASSUME Striped, Init
  PROVE  CleanInv
<1>1. pc # "oops"
  BY DEF Init
<1> QED BY <1>1, TypesInit, ShareInit, DenseInit DEF CleanInv

LEMMA CleanInvStep ==
  ASSUME Roomy, CleanInv, [Next]_vars
  PROVE  CleanInv'
<1>1. CleanTypes /\ ShareInv /\ pc # "oops" /\ \A i \in Parts : DenseIn(i)
  BY DEF CleanInv
<1>2. CleanTypes' /\ ShareInv'
  BY <1>1, TypesStep, ShareStep
<1>3. CASE WritePage
  BY <1>2, <1>3, DenseStep DEF CleanInv
<1>4. CASE ~ WritePage
  <2>1. maptbl' = maptbl /\ ftl' = ftl /\ pc' # "oops"
    BY <1>1, <1>4 DEF Next, vars, SelectList, CallCleaner, LoopEnd, ChunkWritten, ReturnNull,
                      Preempt
  <2>2. \A i \in Parts : DenseIn(i)'
    BY <1>1, <2>1 DEF DenseIn, WrittenOf
  <2> QED BY <1>2, <2>1, <2>2 DEF CleanInv
<1> QED BY <1>3, <1>4

(***************************************************************************)
(* The hypotheses: Striped, no run of mapped pages ends before the last    *)
(* page of the first stripe (else generate_lpn computes the end of a       *)
(* chunk below zero: OnlyMapped is violated without it), and Roomy, the    *)
(* mapped pages of a partition are fewer than its lines without the        *)
(* collector's hold, as over-provisioning makes them.                      *)
(*                                                                         *)
(* WorkPartition: the chunks of phfrag_cleaner share out the pages that    *)
(* are still to be written, however often they wait and preempt.           *)
(***************************************************************************)
THEOREM WorkIsShared ==
  ASSUME Striped, Roomy
  PROVE  Spec => []WorkPartition
<1>1. Init => CleanInv
  BY CleanInvInit
<1>2. CleanInv /\ [Next]_vars => CleanInv'
  BY CleanInvStep
<1>3. CleanInv => WorkPartition
  BY PartitionFollows DEF CleanInv, ShareInv
<1> QED BY <1>1, <1>2, <1>3, PTL DEF Spec

\* FlashDense: advance_write_pointer_cleanver fills every line to its last
\* page, uses no page twice and leaves no page of a block out.
THEOREM FlashIsDense ==
  ASSUME Striped, Roomy
  PROVE  Spec => []FlashDense
<1>1. Init => CleanInv
  BY CleanInvInit
<1>2. CleanInv /\ [Next]_vars => CleanInv'
  BY CleanInvStep
<1>3. CleanInv => FlashDense
  BY DEF CleanInv, FlashDense, DenseIn, WrittenOf, Used
<1> QED BY <1>1, <1>2, <1>3, PTL DEF Spec

\* get_next_free_line finds a line for every page that is written: clean_ftl
\* never goes on with a write pointer that has none.
THEOREM LinesLast ==
  ASSUME Striped, Roomy
  PROVE  Spec => [](pc # "oops")
<1>1. Init => CleanInv
  BY CleanInvInit
<1>2. CleanInv /\ [Next]_vars => CleanInv'
  BY CleanInvStep
<1>3. CleanInv => pc # "oops"
  BY DEF CleanInv
<1> QED BY <1>1, <1>2, <1>3, PTL DEF Spec

\* OnlyMapped: what had no mapping before has none afterwards.  It needs only
\* Striped, and is what the run shorter than a stripe violates.
THEOREM NothingInvented ==
  ASSUME Striped
  PROVE  Spec => []OnlyMapped
<1>1. Init => CleanTypes /\ ShareInv
  BY TypesInit, ShareInit
<1>2. CleanTypes /\ ShareInv /\ [Next]_vars => (CleanTypes /\ ShareInv)'
  BY TypesStep, ShareStep
<1>3. CleanTypes /\ ShareInv => OnlyMapped
  BY DEF ShareInv, OnlyMapped
<1> QED BY <1>1, <1>2, <1>3, PTL DEF Spec

=============================================================================
