------------------------------ MODULE ConvFtl ------------------------------
(***************************************************************************)
(* One partition of the conventional (page-mapped) FTL of conv_ftl.c: the  *)
(* mapping tables, the page status of every line (super-block), the line   *)
(* lists, the two write pointers, the write-credit flow control and the    *)
(* foreground garbage collector.                                           *)
(*                                                                         *)
(* The FTL runs in the dispatcher thread only, so one pc is enough.  A     *)
(* host write of one logical page is the sequence                          *)
(*     WritePage -> ProgramPage -> User... [-> Refill... [-> Gc...]]       *)
(* which the pc forces; the states in between are those that a thread      *)
(* which does not stop the dispatcher (save_device) can see.               *)
(*                                                                         *)
(* A page number pg of a block is the pair <<wl, off>> that stands for     *)
(* pg = wl * pgs_per_oneshotpg + off, and the pair (ch, lun) is the die    *)
(* lun * nchs + ch, the order in which both write pointers visit them.     *)
(***************************************************************************)
EXTENDS Integers, Sequences, FiniteSets

CONSTANTS
  TtLines,        \* lm.tt_lines: number of lines
  NrChs,          \* spp->nchs
  LunsPerCh,      \* spp->luns_per_ch
  WlsPerBlk,      \* spp->oneshotpgs_per_blk
  PgsPerOneshot,  \* spp->pgs_per_oneshotpg
  Lpns,           \* the logical pages of this partition the host can address
  UNMAPPED        \* UNMAPPED_PPA, and INVALID_LPN in rmap

Lines == 0 .. TtLines - 1
Dies  == 0 .. NrChs * LunsPerCh - 1
Pgs   == (0 .. WlsPerBlk - 1) \X (0 .. PgsPerOneshot - 1)
Slots == Dies \X Pgs            \* the pages of a line
Pages == Lines \X Slots

\* spp->pgs_per_line
PgsPerLine == Cardinality(Slots)

\* cpp->gc_thres_lines_high, "Need only two lines.(host write, gc)"
GcThresLinesHigh == 2

ASSUME GeometryAssumption ==
  /\ NrChs \in Nat \ {0}
  /\ LunsPerCh \in Nat \ {0}
  /\ WlsPerBlk \in Nat \ {0}
  /\ PgsPerOneshot \in Nat \ {0}
  /\ TtLines \in Nat
  /\ TtLines >= 5

ASSUME LpnsAssumption ==
  /\ IsFiniteSet(Lpns)
  /\ UNMAPPED \notin Lpns \cup Pages \cup Lines

(***************************************************************************)
(* Over-provisioning: conv_init_namespace hides 7% of the flash from the   *)
(* host, which is more than four lines for any real geometry.              *)
(***************************************************************************)
ASSUME OverProvisioningAssumption ==
  Cardinality(Lpns) < (TtLines - 4) * PgsPerLine

VARIABLES
  maptbl,        \* lpn -> page or UNMAPPED
  rmap,          \* page -> lpn or UNMAPPED
  status,        \* page -> "FREE" | "VALID" | "INVALID"
  vpc, ipc,      \* valid / invalid page count of every line
  free,          \* lm.free_line_list, in list order
  full,          \* lm.full_line_list
  victim,        \* lm.victim_line_pq: the lines with pos # 0
  wp, gc_wp,     \* write pointers: line, die and page number
  page_counter,  \* pages of wp.line programmed on every die
  credits,       \* wfc.write_credits
  refill,        \* wfc.credits_to_refill
  gcline,        \* the dangling victim line of a running do_gc
  todo,          \* slots of gcline that do_gc has not visited yet
  cur,           \* the lpn being written
  writer,        \* who writes pages: "cleaner" (phfrag_cleaner) or "host" (conv_write)
  pc             \* where the dispatcher is

mapVars  == <<maptbl, rmap>>
lineVars == <<vpc, ipc, free, full, victim>>
wfcVars  == <<credits, refill>>
gcVars   == <<gcline, todo>>
reqVars  == <<cur, writer>>
vars == <<maptbl, rmap, status, vpc, ipc, free, full, victim, wp, gc_wp,
          page_counter, credits, refill, gcline, todo, cur, writer, pc>>

Writers == {"host", "cleaner"}
PCs == {"idle", "program", "advance", "refill", "gc", "gcadvance", "oops"}

-----------------------------------------------------------------------------
(***************************************************************************)
(* Page numbers.                                                           *)
(***************************************************************************)
\* pg + 1
NextPg(pg) == IF pg[2] + 1 = PgsPerOneshot THEN <<pg[1] + 1, 0>>
                                           ELSE <<pg[1], pg[2] + 1>>

\* pgs_per_blk - 1
LastPg == <<WlsPerBlk - 1, PgsPerOneshot - 1>>

\* pg < pgs_per_blk
InBlk(pg) == pg[1] < WlsPerBlk

\* How many steps of the scan lead from die d to die e: 1 .. tt_luns.
ScanDist(d, e) == IF e > d THEN e - d ELSE e - d + NrChs * LunsPerCh

\* e is the first die after d, in scan order, whose block has room.
NextDie(counter, d, e) ==
  /\ InBlk(counter[e])
  /\ \A f \in Dies : InBlk(counter[f]) => ScanDist(d, e) <= ScanDist(d, f)

\* get_new_page
NewPage(w) == <<w.line, <<w.die, w.pg>>>>

-----------------------------------------------------------------------------
(***************************************************************************)
(* init_maptbl, init_rmap, init_lines, prepare_write_pointer for USER_IO   *)
(* and GC_IO, init_write_flow_control.  clean_ftl stops the dispatcher and *)
(* builds a new FTL, into which the cleaner writes before the dispatcher   *)
(* is started again: the cleaner can only come first.                      *)
(***************************************************************************)
Init ==
  /\ maptbl = [l \in Lpns |-> UNMAPPED]
  /\ rmap = [p \in Pages |-> UNMAPPED]
  /\ status = [p \in Pages |-> "FREE"]
  /\ vpc = [i \in Lines |-> 0]
  /\ ipc = [i \in Lines |-> 0]
  /\ free = [i \in 1 .. TtLines - 2 |-> i + 1]
  /\ full = {}
  /\ victim = {}
  /\ wp = [line |-> 0, die |-> 0, pg |-> <<0, 0>>]
  /\ gc_wp = [line |-> 1, die |-> 0, pg |-> <<0, 0>>]
  /\ page_counter = [d \in Dies |-> <<0, 0>>]
  /\ credits = PgsPerLine
  /\ refill = PgsPerLine
  /\ gcline = UNMAPPED
  /\ todo = {}
  /\ cur = UNMAPPED
  /\ writer \in Writers
  /\ pc = "idle"

\* Mutant of InvalidateOld: the line leaves the full list for nowhere.
InvalidateOldNoVictim(old) ==
  LET i == old[1] IN
  /\ status' = [status EXCEPT ![old] = "INVALID"]
  /\ rmap' = [rmap EXCEPT ![old] = UNMAPPED]
  /\ ipc' = [ipc EXCEPT ![i] = @ + 1]
  /\ vpc' = [vpc EXCEPT ![i] = @ - 1]
  /\ full' = IF vpc[i] = PgsPerLine THEN full \ {i} ELSE full
  /\ UNCHANGED victim

(***************************************************************************)
(* The first half of a page write, by conv_write or by phfrag_cleaner:     *)
(* the old copy, if there is one, is invalidated (mark_page_invalid,       *)
(* set_rmap_ent).  A full line that loses a page becomes a victim.         *)
(***************************************************************************)
InvalidateOld(old) ==
  LET i == old[1] IN
  /\ status' = [status EXCEPT ![old] = "INVALID"]
  /\ rmap' = [rmap EXCEPT ![old] = UNMAPPED]
  /\ ipc' = [ipc EXCEPT ![i] = @ + 1]
  /\ vpc' = [vpc EXCEPT ![i] = @ - 1]
  /\ IF vpc[i] = PgsPerLine
     THEN full' = full \ {i} /\ victim' = victim \cup {i}
     ELSE UNCHANGED <<full, victim>>

WritePage(l, w) ==
  /\ pc = "idle"
  /\ w = "cleaner" => writer = "cleaner"
  /\ IF maptbl[l] # UNMAPPED
     THEN InvalidateOld(maptbl[l])
     ELSE UNCHANGED <<status, rmap, ipc, vpc, full, victim>>
  /\ cur' = l
  /\ writer' = w
  /\ pc' = "program"
  /\ UNCHANGED <<maptbl, free, wp, gc_wp, page_counter, wfcVars, gcVars>>

\* Mutant of Map: set_rmap_ent is forgotten.
MapNoRmap(l, p) ==
  /\ maptbl' = [maptbl EXCEPT ![l] = p]
  /\ status' = [status EXCEPT ![p] = "VALID"]
  /\ vpc' = [vpc EXCEPT ![p[1]] = @ + 1]
  /\ UNCHANGED rmap

\* set_maptbl_ent, set_rmap_ent and mark_page_valid of a new page.
Map(l, p) ==
  /\ maptbl' = [maptbl EXCEPT ![l] = p]
  /\ rmap' = [rmap EXCEPT ![p] = l]
  /\ status' = [status EXCEPT ![p] = "VALID"]
  /\ vpc' = [vpc EXCEPT ![p[1]] = @ + 1]

ProgramPage ==
  /\ pc = "program"
  /\ Map(cur, NewPage(wp))
  /\ pc' = "advance"
  /\ UNCHANGED <<ipc, free, full, victim, wp, gc_wp, page_counter, wfcVars,
                 gcVars, reqVars>>

(***************************************************************************)
(* A used-up line leaves its write pointer: to the full list when all its  *)
(* pages are valid, to the victim queue otherwise.                         *)
(***************************************************************************)
RetireLine(i) ==
  IF vpc[i] = PgsPerLine
  THEN full' = full \cup {i} /\ UNCHANGED victim
  ELSE victim' = victim \cup {i} /\ UNCHANGED full

\* Mutant of ConsumeCredit: the refill waits for a negative balance.
ConsumeCreditLate ==
  /\ credits' = credits - 1
  /\ pc' = IF credits - 1 < 0 THEN "refill" ELSE "idle"
  /\ UNCHANGED refill

\* consume_write_credit, then the test of check_and_refill_write_credit.
ConsumeCredit ==
  /\ credits' = credits - 1
  /\ pc' = IF credits - 1 <= 0 THEN "refill" ELSE "idle"
  /\ UNCHANGED refill

(***************************************************************************)
(* advance_write_pointer(USER_IO) and advance_write_pointer_cleanver.  The *)
(* pointer stays on its die until a one-shot page is complete, the cleaner *)
(* may then stay for another one (fragmentation degree, a random choice),  *)
(* otherwise it moves to the next die with room.  When no die has room,    *)
(* the line is retired and the next free line is taken; when there is no   *)
(* free line, get_next_free_line returns NULL, which the caller            *)
(* dereferences.                                                           *)
(***************************************************************************)
\* Mutant of UserCounter: the page just written is not counted.
UserCounterStuck == page_counter

UserCounter == [page_counter EXCEPT ![wp.die] = NextPg(@)]

EndOfRequest ==
  /\ cur' = UNMAPPED
  /\ UNCHANGED <<mapVars, status, vpc, ipc, gc_wp, gcVars, writer>>

UserStay ==
  LET next == UserCounter[wp.die] IN
  /\ pc = "advance"
  /\ InBlk(next)
  /\ next[2] # 0 \/ writer = "cleaner"
  /\ page_counter' = UserCounter
  /\ wp' = [wp EXCEPT !.pg = next]
  /\ ConsumeCredit
  /\ UNCHANGED <<free, full, victim>>
  /\ EndOfRequest

UserNextDie(d) ==
  /\ pc = "advance"
  /\ UserCounter[wp.die][2] = 0
  /\ NextDie(UserCounter, wp.die, d)
  /\ page_counter' = UserCounter
  /\ wp' = [wp EXCEPT !.die = d, !.pg = UserCounter[d]]
  /\ ConsumeCredit
  /\ UNCHANGED <<free, full, victim>>
  /\ EndOfRequest

\* Mutant of UserNextLine: page_counter is not reset for the new line.
UserNextLineKeepCounter ==
  /\ pc = "advance"
  /\ UserCounter[wp.die][2] = 0
  /\ \A d \in Dies : ~InBlk(UserCounter[d])
  /\ page_counter' = UserCounter
  /\ RetireLine(wp.line)
  /\ free # << >>
  /\ wp' = [line |-> Head(free), die |-> 0, pg |-> <<0, 0>>]
  /\ free' = Tail(free)
  /\ ConsumeCredit
  /\ EndOfRequest

\* Mutant of UserNextLine: the head of the free list is unlinked, not its
\* first entry.
UserNextLineCutsList ==
  /\ pc = "advance"
  /\ UserCounter[wp.die][2] = 0
  /\ \A d \in Dies : ~InBlk(UserCounter[d])
  /\ page_counter' = [d \in Dies |-> <<0, 0>>]
  /\ RetireLine(wp.line)
  /\ IF free = << >>
     THEN pc' = "oops" /\ UNCHANGED <<free, wp, credits, refill>>
     ELSE /\ wp' = [line |-> Head(free), die |-> 0, pg |-> <<0, 0>>]
          /\ free' = << >>
          /\ ConsumeCredit
  /\ EndOfRequest

UserNextLine ==
  /\ pc = "advance"
  /\ UserCounter[wp.die][2] = 0
  /\ \A d \in Dies : ~InBlk(UserCounter[d])
  /\ page_counter' = [d \in Dies |-> <<0, 0>>]
  /\ RetireLine(wp.line)
  /\ IF free = << >>
     THEN pc' = "oops" /\ UNCHANGED <<free, wp, credits, refill>>
     ELSE /\ wp' = [line |-> Head(free), die |-> 0, pg |-> <<0, 0>>]
          /\ free' = Tail(free)
          /\ ConsumeCredit
  /\ EndOfRequest

-----------------------------------------------------------------------------
(***************************************************************************)
(* check_and_refill_write_credit with no credit left: forground_gc, which  *)
(* collects one victim line when at most two lines are free, then the      *)
(* refill.                                                                 *)
(***************************************************************************)
ShouldGcHigh == Len(free) <= GcThresLinesHigh

\* No collection: enough free lines, or no victim (do_gc returns -1).
RefillOnly ==
  /\ pc = "refill"
  /\ ~ShouldGcHigh \/ victim = {}
  /\ credits' = credits + refill
  /\ pc' = "idle"
  /\ UNCHANGED <<mapVars, status, lineVars, wp, gc_wp, page_counter, refill,
                 gcVars, reqVars>>

(***************************************************************************)
(* select_victim_line(force) and the head of do_gc.  The priority queue    *)
(* yields a line with the fewest valid pages; which one of several depends *)
(* on the layout of the heap.                                              *)
(***************************************************************************)
SelectVictim(i) ==
  /\ pc = "refill"
  /\ ShouldGcHigh
  /\ \A j \in victim : vpc[i] <= vpc[j]
  /\ victim' = victim \ {i}
  /\ gcline' = i
  /\ todo' = Slots
  /\ refill' = ipc[i]
  /\ pc' = "gc"
  /\ UNCHANGED <<mapVars, status, vpc, ipc, free, full, wp, gc_wp,
                 page_counter, credits, reqVars>>

(***************************************************************************)
(* The loops of do_gc and clean_one_flashpg visit flash pages, channels,   *)
(* luns, then the pages of the flash page (one flash page per one-shot     *)
(* page, as in the shipped configurations).                                *)
(***************************************************************************)
VisitedBefore(s, t) ==
  LET ch(x)  == x[1] % NrChs
      lun(x) == x[1] \div NrChs
      wl(x)  == x[2][1]
      off(x) == x[2][2]
  IN \/ wl(s) < wl(t)
     \/ wl(s) = wl(t) /\ ch(s) < ch(t)
     \/ wl(s) = wl(t) /\ ch(s) = ch(t) /\ lun(s) < lun(t)
     \/ wl(s) = wl(t) /\ ch(s) = ch(t) /\ lun(s) = lun(t) /\ off(s) < off(t)

NextToVisit(s) == \A t \in todo \ {s} : VisitedBefore(s, t)

\* Mutant of LastOfBlk: the block is erased one page too early.
LastOfBlkEarly(s) == NextPg(s[2]) = LastPg

\* The last page of a block: mark_block_free erases the block of this die.
LastOfBlk(s) == s[2] = LastPg

\* Mutant of EraseBlk: the blocks of all dies are erased together.
EraseLine(st, i, d) == [p \in Pages |-> IF p[1] = i THEN "FREE" ELSE st[p]]

EraseBlk(st, i, d) ==
  [p \in Pages |-> IF p[1] = i /\ p[2][1] = d THEN "FREE" ELSE st[p]]

\* Nothing is left at slot s: go on to the next one, erasing a finished block.
LeaveSlot(s) ==
  /\ todo' = todo \ {s}
  /\ status' = IF LastOfBlk(s) THEN EraseBlk(status, gcline, s[1]) ELSE status
  /\ pc' = "gc"

\* A page of the victim that is not valid is skipped.
GcSkip(s) ==
  /\ pc = "gc"
  /\ NextToVisit(s)
  /\ status[<<gcline, s>>] # "VALID"
  /\ LeaveSlot(s)
  /\ UNCHANGED <<mapVars, lineVars, wp, gc_wp, page_counter, wfcVars, gcline,
                 reqVars>>

(***************************************************************************)
(* gc_write_page: the lpn found in rmap is mapped to the page under the GC *)
(* write pointer.  The old page keeps its status and its rmap entry.       *)
(***************************************************************************)
GcCopy(s) ==
  /\ pc = "gc"
  /\ NextToVisit(s)
  /\ status[<<gcline, s>>] = "VALID"
  /\ Map(rmap[<<gcline, s>>], NewPage(gc_wp))
  /\ pc' = "gcadvance"
  /\ UNCHANGED <<ipc, free, full, victim, wp, gc_wp, page_counter, wfcVars,
                 gcVars, reqVars>>

(***************************************************************************)
(* advance_write_pointer(GC_IO), the end of gc_write_page: page by page    *)
(* within the one-shot page, then the next die, the next one-shot page of  *)
(* the first die, and at the end of the line the next free line.           *)
(***************************************************************************)
GcAdvanced ==
  UNCHANGED <<mapVars, vpc, ipc, wp, page_counter, wfcVars, gcline, reqVars>>

GcWithinLine(s) ==
  LET next == NextPg(gc_wp.pg)
      d    == gc_wp.die + 1
  IN
  /\ pc = "gcadvance"
  /\ NextToVisit(s)
  /\ \/ /\ next[2] # 0
        /\ gc_wp' = [gc_wp EXCEPT !.pg = next]
     \/ /\ next[2] = 0
        /\ d \in Dies
        /\ gc_wp' = [gc_wp EXCEPT !.die = d, !.pg = <<gc_wp.pg[1], 0>>]
     \/ /\ next[2] = 0
        /\ d \notin Dies
        /\ InBlk(next)
        /\ gc_wp' = [gc_wp EXCEPT !.die = 0, !.pg = next]
  /\ LeaveSlot(s)
  /\ UNCHANGED <<free, full, victim>>
  /\ GcAdvanced

GcNextLine(s) ==
  /\ pc = "gcadvance"
  /\ NextToVisit(s)
  /\ NextPg(gc_wp.pg)[2] = 0
  /\ gc_wp.die + 1 \notin Dies
  /\ ~InBlk(NextPg(gc_wp.pg))
  /\ RetireLine(gc_wp.line)
  /\ IF free = << >>
     THEN pc' = "oops" /\ UNCHANGED <<free, gc_wp, todo, status>>
     ELSE /\ gc_wp' = [line |-> Head(free), die |-> 0, pg |-> <<0, 0>>]
          /\ free' = Tail(free)
          /\ LeaveSlot(s)
  /\ GcAdvanced

\* mark_line_free, and the refill that follows forground_gc.
GcDone ==
  /\ pc = "gc"
  /\ todo = {}
  /\ vpc' = [vpc EXCEPT ![gcline] = 0]
  /\ ipc' = [ipc EXCEPT ![gcline] = 0]
  /\ free' = Append(free, gcline)
  /\ gcline' = UNMAPPED
  /\ credits' = credits + refill
  /\ pc' = "idle"
  /\ UNCHANGED <<mapVars, status, full, victim, wp, gc_wp, page_counter,
                 refill, todo, reqVars>>

-----------------------------------------------------------------------------
Next ==
  \/ \E l \in Lpns, w \in Writers : WritePage(l, w)
  \/ ProgramPage
  \/ UserStay
  \/ \E d \in Dies : UserNextDie(d)
  \/ UserNextLine
  \/ RefillOnly
  \/ \E i \in victim : SelectVictim(i)
  \/ \E s \in todo : GcSkip(s) \/ GcCopy(s) \/ GcWithinLine(s) \/ GcNextLine(s)
  \/ GcDone

Spec == Init /\ [][Next]_vars

\* The dispatcher finishes what it began: everything but a new host request.
Finish == Next /\ pc # "idle"

-----------------------------------------------------------------------------
(***************************************************************************)
(* Properties.                                                             *)
(***************************************************************************)
WritePointer == [line : Lines, die : Dies, pg : Pgs]
Counters == (0 .. WlsPerBlk) \X (0 .. PgsPerOneshot - 1)

(***************************************************************************)
(* Types of the FTL's state (struct conv_ftl, line_mgmt, write_pointer),   *)
(* and what is where while the dispatcher is inside a request.             *)
(***************************************************************************)
TypeOK ==
  /\ maptbl \in [Lpns -> Pages \cup {UNMAPPED}]
  /\ rmap \in [Pages -> Lpns \cup {UNMAPPED}]
  /\ status \in [Pages -> {"FREE", "VALID", "INVALID"}]
  /\ vpc \in [Lines -> Int]
  /\ ipc \in [Lines -> Int]
  /\ free \in Seq(Lines)
  /\ full \in SUBSET Lines
  /\ victim \in SUBSET Lines
  /\ wp \in WritePointer
  /\ gc_wp \in WritePointer
  /\ page_counter \in [Dies -> Counters]
  /\ credits \in Int
  /\ refill \in Int
  /\ gcline \in Lines \cup {UNMAPPED}
  /\ todo \in SUBSET Slots
  /\ cur \in Lpns \cup {UNMAPPED}
  /\ writer \in Writers
  /\ pc \in PCs
  /\ pc \in {"program", "advance"} => cur \in Lpns
  /\ pc \in {"gc", "gcadvance"} => gcline \in Lines
  /\ pc \in {"idle", "program", "advance", "refill"} =>
       gcline = UNMAPPED /\ todo = {}
  /\ pc # "oops" => page_counter[wp.die] = wp.pg

\* The lpn whose old copy is already invalid and whose new one is not written.
InFlight(l) == pc = "program" /\ l = cur

\* A slot of the victim whose content has already been copied away.
CopiedAway(p) ==
  /\ p[1] = gcline
  /\ \/ p[2] \notin todo
     \/ pc \in {"gcadvance", "oops"} /\ NextToVisit(p[2])

(***************************************************************************)
(* maptbl and rmap are inverse to each other on the valid pages: a mapped  *)
(* lpn points to a valid page whose rmap entry is that lpn, and every      *)
(* valid page is the current copy of the lpn in its rmap entry, unless     *)
(* do_gc has copied it away (gc_write_page leaves the old page as it is).  *)
(* So no two lpns share a page, GC finds the owner of every live page in   *)
(* rmap although mark_block_free never resets rmap, and no mapping points  *)
(* into the part of the victim that may be erased.                         *)
(***************************************************************************)
MapConsistent ==
  /\ \A l \in Lpns : maptbl[l] # UNMAPPED /\ ~InFlight(l) =>
        /\ status[maptbl[l]] = "VALID"
        /\ rmap[maptbl[l]] = l
        /\ ~CopiedAway(maptbl[l])
  /\ \A l \in Lpns : maptbl[l] # UNMAPPED /\ InFlight(l) =>
        status[maptbl[l]] = "INVALID"
  /\ \A p \in Pages : status[p] = "VALID" /\ ~CopiedAway(p) =>
        rmap[p] \in Lpns /\ maptbl[rmap[p]] = p

PagesWith(i, st) == {s \in Slots : status[<<i, s>>] = st}

\* The counters of a line that is not being collected count its pages.
LineCounts ==
  \A i \in Lines \ {gcline} :
    /\ vpc[i] = Cardinality(PagesWith(i, "VALID"))
    /\ ipc[i] = Cardinality(PagesWith(i, "INVALID"))

InFree(i) == \E k \in DOMAIN free : free[k] = i

\* The lines that are neither free nor on a list.
InUse == {wp.line, gc_wp.line, gcline}

(***************************************************************************)
(* Every line is in exactly one place: on the free list (once), on the     *)
(* full list, in the victim queue, under one of the two write pointers, or *)
(* being collected.  No line is lost and none is handed out twice.         *)
(***************************************************************************)
LinePlaces == pc # "oops" =>
  /\ \A i \in Lines : InFree(i) \/ i \in full \cup victim \cup InUse
  /\ \A i \in Lines : InFree(i) => i \notin full \cup victim \cup InUse
  /\ \A j, k \in DOMAIN free : j # k => free[j] # free[k]
  /\ full \cap victim = {}
  /\ InUse \cap (full \cup victim) = {}
  /\ wp.line # gc_wp.line
  /\ gcline \notin {wp.line, gc_wp.line}

(***************************************************************************)
(* The lists hold what their names say: free lines are erased, full lines  *)
(* entirely valid, and a victim has no free page and at least one invalid  *)
(* page, so that collecting it always gains something.                     *)
(***************************************************************************)
ListContents == pc # "oops" =>
  /\ \A i \in Lines, s \in Slots : InFree(i) => status[<<i, s>>] = "FREE"
  /\ \A i \in full, s \in Slots : status[<<i, s>>] = "VALID"
  /\ \A i \in victim, s \in Slots : status[<<i, s>>] # "FREE"
  /\ \A i \in victim : \E s \in Slots : status[<<i, s>>] = "INVALID"

(***************************************************************************)
(* The write frontiers: on the line of a write pointer exactly the pages   *)
(* the pointer has not passed are free.  The user pointer jumps between    *)
(* dies, so page_counter describes its frontier; the GC pointer goes       *)
(* through the line in order.                                              *)
(***************************************************************************)
Passed(pg, counter) ==
  pg[1] < counter[1] \/ (pg[1] = counter[1] /\ pg[2] < counter[2])

UserPassed(d, pg) ==
  \/ Passed(pg, page_counter[d])
  \/ pc = "advance" /\ d = wp.die /\ pg = wp.pg

GcPassed(d, pg) ==
  \/ pg[1] < gc_wp.pg[1]
  \/ pg[1] = gc_wp.pg[1] /\ d < gc_wp.die
  \/ pg[1] = gc_wp.pg[1] /\ d = gc_wp.die /\ pg[2] < gc_wp.pg[2]
  \/ pc = "gcadvance" /\ d = gc_wp.die /\ pg = gc_wp.pg

Frontiers == pc # "oops" =>
  \A d \in Dies, pg \in Pgs :
    /\ status[<<wp.line, <<d, pg>>>>] = "FREE" <=> ~UserPassed(d, pg)
    /\ status[<<gc_wp.line, <<d, pg>>>>] = "FREE" <=> ~GcPassed(d, pg)

(***************************************************************************)
(* While a victim is collected, the part not visited yet has no free page  *)
(* ("there shouldn't be any free page in victim blocks"), and a block is   *)
(* erased exactly when its last page has been visited.                     *)
(***************************************************************************)
VictimProgress == pc \in {"gc", "gcadvance"} =>
  /\ \A s \in todo : status[<<gcline, s>>] # "FREE"
  /\ \A d \in Dies, pg \in Pgs : <<d, LastPg>> \notin todo =>
        <<d, pg>> \notin todo /\ status[<<gcline, <<d, pg>>>>] = "FREE"

\* get_next_free_line never returns NULL to a caller that dereferences it.
FreeLineLeft == pc # "oops"

(***************************************************************************)
(* The flow control keeps a reserve.  Between requests the pages that can  *)
(* still be programmed exceed the credits handed out by more than two      *)
(* lines, the room a collection may need; inside a request and inside a    *)
(* collection the same holds with what is under way added.  The credits    *)
(* never stay at zero.                                                     *)
(***************************************************************************)
Room(w) == PgsPerLine - vpc[w.line] - ipc[w.line]

\* Pages that can still be programmed without collecting a line.
Writable == Len(free) * PgsPerLine + Room(wp) + Room(gc_wp)

\* Live pages of the victim that do_gc has not visited yet.
ToCopy == {s \in todo : status[<<gcline, s>>] = "VALID"}

CreditReserve ==
  LET reserve == 2 * PgsPerLine + 2 IN
  /\ pc \in {"idle", "program", "advance"} => credits > 0 /\ refill > 0
  /\ pc \in {"refill", "gc", "gcadvance"} => credits = 0 /\ refill > 0
  /\ refill <= PgsPerLine
  /\ pc \in {"idle", "program", "refill"} => Writable >= reserve + credits
  /\ pc = "advance" => Writable + 1 >= reserve + credits
  /\ pc = "gc" =>
       Writable - Cardinality(ToCopy) >= reserve + refill - PgsPerLine
  /\ pc = "gcadvance" =>
       Writable + 1 - Cardinality(ToCopy) >= reserve + refill - PgsPerLine

(***************************************************************************)
(* What NAND flash allows: the pages of a block are programmed in          *)
(* ascending order, each once (mark_page_valid); a valid page can only     *)
(* become invalid (mark_page_invalid); and an erase clears the whole block *)
(* (mark_block_free) at a moment when no lpn is mapped into it.            *)
(***************************************************************************)
NandStep(i, d, pg) ==
  LET st(q)  == status[<<i, <<d, q>>>>]
      new(q) == status'[<<i, <<d, q>>>>]
  IN st(pg) # new(pg) =>
       \/ /\ st(pg) = "FREE" /\ new(pg) = "VALID"
          /\ \A q \in Pgs : Passed(q, pg) => st(q) # "FREE"
       \/ st(pg) = "VALID" /\ new(pg) = "INVALID"
       \/ \A q \in Pgs : /\ new(q) = "FREE"
                         /\ \A l \in Lpns : maptbl[l] # <<i, <<d, q>>>>

NandDiscipline ==
  [][\A i \in Lines, d \in Dies, pg \in Pgs : NandStep(i, d, pg)]_vars

\* The structural part of the inductive invariant behind ConvFtlProofs.
Core ==
  /\ TypeOK
  /\ LinePlaces
  /\ ListContents
  /\ LineCounts
  /\ Frontiers
  /\ VictimProgress
  /\ MapConsistent

=============================================================================
