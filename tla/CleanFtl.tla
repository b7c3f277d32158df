------------------------------ MODULE CleanFtl ------------------------------
(***************************************************************************)
(* The fragmentation cleaner: clean_ftl of main.c, which runs with the     *)
(* dispatcher and the workers stopped, and phfrag_cleaner with             *)
(* advance_write_pointer_cleanver of conv_ftl.c.  The mapped logical pages *)
(* of the old FTL are cut into chunks, the FTL is built anew, and every    *)
(* chunk is written again into its partition.  A chunk whose turn ends on  *)
(* a die waits on the second set of lists and preempts another chunk when  *)
(* the write pointer comes back to that die.                               *)
(*                                                                         *)
(* A partition is its write pointer and the pages behind it.  The line     *)
(* lists, the credits and the collector of a page write are in ConvFtl     *)
(* (writer = "cleaner"); here no page is ever rewritten (WorkPartition),   *)
(* so every used-up line is full and the collector finds no victim.  Where *)
(* the end of a chunk has wrapped (OnlyMapped) pages are written twice,    *)
(* and the model follows the code until the free lines are used up.        *)
(* Logical pages are global ones: lpn l belongs to partition l % NrParts.  *)
(***************************************************************************)
EXTENDS Integers, FiniteSets, SequencesExt

CONSTANTS
  NrParts,        \* ns->nr_parts
  NrDies,         \* dies of a partition, in the order of the write pointer
  PgsPerBlk,      \* spp->pgs_per_blk
  PgsPerOneshot,  \* spp->pgs_per_oneshotpg
  TtLines,        \* lines of a partition, one of them the collector's
  NumList,        \* dev->num_list
  MaxCon,         \* spp->max_con
  Budget,         \* 16 * spp->pgs_per_oneshotpg
  StaleBudgets,   \* what clean_ftl may read for it through the freed spp
  MappedSets,     \* the sets of logical pages that may be mapped before
  Wrap            \* 2^64, the modulus of uint64_t

Parts == 0 .. NrParts - 1
Dies  == 0 .. NrDies - 1
TtPgs == TtLines * NrDies * PgsPerBlk    \* spp->tt_pgs
Total == TtPgs * NrParts
Lpns  == 0 .. Total - 1
NIL   == -1
UNMAPPED == << >>
Slots == Parts \X (0 .. NumList - 1)    \* cur_index * num_lists + cur_chunk

ASSUME CleanAssumption ==
  /\ {NrParts, NrDies, PgsPerBlk, PgsPerOneshot, NumList, Budget} \subseteq Nat \ {0}
  /\ TtLines \in Nat /\ TtLines > 1
  /\ PgsPerBlk % PgsPerOneshot = 0
  /\ MaxCon \in Nat
  /\ StaleBudgets \subseteq Nat \ {0}
  /\ MappedSets \subseteq SUBSET Lpns
  /\ Wrap \in Nat /\ Wrap > Total + NrParts

VARIABLES
  mapped,   \* the logical pages that the old tables map
  maptbl,   \* the new table: lpn -> page <<line, die, pg>> or UNMAPPED
  ftl,      \* per partition: write pointer (line, die) and page_counter
  active,   \* active_lba_chunks_list
  lists,    \* lists: the chunks that wait for their die
  restart, count, cur,   \* cur is <<cur_index, cur_chunk>>
  pos,      \* position of the running chunk in active[cur]
  prem,     \* position of the preempting chunk in lists[cur], or 0
  lpn,      \* the loop variable of phfrag_cleaner
  budget,   \* 16 * spp->pgs_per_oneshotpg as clean_ftl reads it
  pc

loopVars == <<restart, count, cur, pos, prem, lpn>>
vars == <<mapped, maptbl, ftl, active, lists, loopVars, budget, pc>>

-----------------------------------------------------------------------------
(***************************************************************************)
(* create_list_from_table_split and list_sort.                             *)
(***************************************************************************)
\* The maximal runs <<first, last>> of mapped pages.
Runs(m) == {r \in m \X m : /\ r[1] .. r[2] \subseteq m /\ r[1] <= r[2]
                           /\ r[1] - 1 \notin m /\ r[2] + 1 \notin m}

\* cur_chunk when the page behind the run, or the end of the table, is met.
FiledIn(r) ==
  LET split == Total \div NumList
      seen  == IF r[2] + 1 < Total THEN r[2] + 2 ELSE Total
      steps == seen \div (IF split = 0 THEN 1 ELSE split)
  IN  IF steps < NumList THEN steps ELSE NumList - 1

\* generate_lpn: the part of run r that belongs to partition i, empty when
\* start > end.
PartChunk(r, i) ==
  [start |-> r[1] + ((i - r[1]) % NrParts),
   end   |-> (r[2] - ((r[2] - i) % NrParts)) % Wrap,
   die   |-> NIL, conti |-> NIL]

\* list_sort is stable and compares the lengths of the whole runs.
SortsBefore(r, q) ==
  LET size(x) == x[2] - x[1] IN
  size(r) < size(q) \/ (size(r) = size(q) /\ r[1] < q[1])

\* The runs of set S in this order.
SortedRuns(S) ==
  CHOOSE q \in [1 .. Cardinality(S) -> S] :
    \A j, k \in DOMAIN q : j < k => SortsBefore(q[j], q[k])

CreateList(m, s) ==
  LET filed == SortedRuns({r \in Runs(m) : FiledIn(r) = s[2]})
  IN  [k \in DOMAIN filed |-> PartChunk(filed[k], s[1])]

(***************************************************************************)
(* clean_ftl up to its loop: NVMEV_NAMESPACE_FINAL and _INIT give an empty *)
(* FTL and free the memory spp points to.                                  *)
(***************************************************************************)
Init ==
  /\ mapped \in MappedSets
  /\ maptbl = [l \in Lpns |-> UNMAPPED]
  /\ ftl = [i \in Parts |-> [line |-> 0, die |-> 0, counter |-> [d \in Dies |-> 0]]]
  /\ active = [s \in Slots |-> CreateList(mapped, s)]
  /\ lists = [s \in Slots |-> << >>]
  /\ restart = TRUE
  /\ count = 0
  /\ cur = <<0, 0>>
  /\ pos = 1
  /\ prem = 0
  /\ lpn = 0
  /\ budget \in StaleBudgets
  /\ pc = "top"

-----------------------------------------------------------------------------
(***************************************************************************)
(* The do loop of clean_ftl.                                               *)
(***************************************************************************)
\* Mutant of SelectList: the count is not reset for the next list.
SelectListKeepCount ==
  LET leave == (~restart /\ count >= budget) \/ active[cur] = << >>
      have  == \E s \in Slots : s[1] = cur[1] /\ active[s] # << >>
  IN
  /\ pc = "top"
  /\ cur' = CASE ~leave -> cur
              [] leave /\ have -> <<cur[1], (cur[2] + 1) % NumList>>
              [] leave /\ ~have -> <<(cur[1] + 1) % NrParts, 0>>
  /\ UNCHANGED count
  /\ restart' = FALSE
  /\ pos' = 1
  /\ pc' = "each"
  /\ UNCHANGED <<mapped, maptbl, ftl, active, lists, prem, lpn, budget>>

\* Head of the loop: the next list of the partition, or the next partition.
SelectList ==
  LET leave == (~restart /\ count >= budget) \/ active[cur] = << >>
      have  == \E s \in Slots : s[1] = cur[1] /\ active[s] # << >>
  IN
  /\ pc = "top"
  /\ cur' = CASE ~leave -> cur
              [] leave /\ have -> <<cur[1], (cur[2] + 1) % NumList>>
              [] leave /\ ~have -> <<(cur[1] + 1) % NrParts, 0>>
  /\ count' = IF leave THEN 0 ELSE count
  /\ restart' = FALSE
  /\ pos' = 1
  /\ pc' = "each"
  /\ UNCHANGED <<mapped, maptbl, ftl, active, lists, prem, lpn, budget>>

EndOfList == pos > Len(active[cur]) \/ count >= budget

\* list_for_each_entry_safe: phfrag_cleaner is called for the next chunk.
CallCleaner ==
  /\ pc = "each"
  /\ ~EndOfList
  /\ prem' = 0
  /\ lpn' = active[cur][pos].start
  /\ pc' = "page"
  /\ UNCHANGED <<mapped, maptbl, ftl, active, lists, restart, count, cur, pos, budget>>

\* When the list is used up, the first chunk that waits goes on.
Unpark ==
  IF ~restart /\ active[cur] = << >> /\ lists[cur] # << >>
  THEN /\ active' = [active EXCEPT ![cur] = <<[Head(lists[cur]) EXCEPT !.conti = NIL]>>]
       /\ lists' = [lists EXCEPT ![cur] = Tail(@)]
  ELSE UNCHANGED <<active, lists>>

\* The end of the loop body and its condition.
LoopEnd ==
  /\ \/ pc = "each" /\ EndOfList
     \/ pc = "after"
  /\ Unpark
  /\ pc' = IF restart \/ \E s \in Slots : active'[s] # << >> THEN "top" ELSE "done"
  /\ UNCHANGED <<mapped, maptbl, ftl, loopVars, budget>>

-----------------------------------------------------------------------------
(***************************************************************************)
(* phfrag_cleaner, and what clean_ftl does with its result.                *)
(***************************************************************************)
\* The chunk that is being written, and its partition.
Chunk == IF prem = 0 THEN active[cur][pos] ELSE lists[cur][prem]
Part  == ftl[cur[1]]

\* The call returns NULL: the chunk is deleted.
ReturnNull ==
  IF prem = 0
  THEN /\ active' = [active EXCEPT ![cur] = RemoveAt(@, pos)]
       /\ pc' = "each"
       /\ UNCHANGED <<lists, restart>>
  ELSE /\ lists' = [lists EXCEPT ![cur] = RemoveAt(@, prem)]
       /\ restart' = TRUE
       /\ pc' = "after"
       /\ UNCHANGED active

(***************************************************************************)
(* The call returns with page l still to be written.  A chunk that stopped *)
(* on die d waits for it on lists, with its conti k; one that only used up *)
(* the budget (d = NIL) is, or goes back, on active, where die is not      *)
(* looked at.                                                              *)
(***************************************************************************)
ReturnAt(l, d, k) ==
  LET c == [Chunk EXCEPT !.start = l, !.die = d, !.conti = IF d = NIL THEN NIL ELSE k]
  IN
  /\ IF prem = 0
     THEN /\ pc' = "each"
          /\ UNCHANGED restart
          /\ IF d = NIL
             THEN active' = [active EXCEPT ![cur][pos] = c] /\ UNCHANGED lists
             ELSE /\ active' = [active EXCEPT ![cur] = RemoveAt(@, pos)]
                  /\ lists' = [lists EXCEPT ![cur] = Append(@, c)]
     ELSE /\ restart' = TRUE
          /\ pc' = "after"
          /\ IF d = NIL
             THEN /\ lists' = [lists EXCEPT ![cur] = RemoveAt(@, prem)]
                  /\ active' = [active EXCEPT ![cur] = Append(@, c)]
             ELSE lists' = [lists EXCEPT ![cur][prem] = c] /\ UNCHANGED active
  /\ pos' = IF prem = 0 /\ d = NIL THEN pos + 1 ELSE pos

\* The loop of phfrag_cleaner ends.
ChunkWritten ==
  /\ pc = "page"
  /\ lpn > Chunk.end
  /\ ReturnNull
  /\ UNCHANGED <<mapped, maptbl, ftl, count, cur, pos, prem, lpn, budget>>

\* The chunks that wait for the die under the write pointer; only a call
\* that began without preempting looks for them.
Waiting == IF prem # 0 THEN {}
           ELSE {k \in DOMAIN lists[cur] : lists[cur][k].die = Part.die}

\* Mutant of Preempt: the chunk that is put off forgets how far it came.
PreemptForgets ==
  /\ pc = "page"
  /\ lpn <= Chunk.end
  /\ Waiting # {}
  /\ prem' = CHOOSE k \in Waiting : \A j \in Waiting : k <= j
  /\ lpn' = lists[cur][prem'].start
  /\ UNCHANGED <<mapped, maptbl, ftl, active, lists, restart, count, cur, pos, budget, pc>>

\* The running chunk is put off and the first chunk that waits is run.
Preempt ==
  /\ pc = "page"
  /\ lpn <= Chunk.end
  /\ Waiting # {}
  /\ active' = [active EXCEPT ![cur][pos].start = lpn, ![cur][pos].die = NIL]
  /\ prem' = CHOOSE k \in Waiting : \A j \in Waiting : k <= j
  /\ lpn' = lists[cur][prem'].start
  /\ UNCHANGED <<mapped, maptbl, ftl, lists, restart, count, cur, pos, budget, pc>>

(***************************************************************************)
(* advance_write_pointer_cleanver decides whether the pointer stays on its *)
(* die, what becomes of conti, and whether the call ends on this die (at). *)
(* whole: a one-shot page is complete; room: the block has another page;   *)
(* n: pages written in this turn.  The draw against the degree may go      *)
(* either way.                                                             *)
(***************************************************************************)
Decisions(k, n, d, whole, room) ==
  LET conti == IF k + 1 >= MaxCon THEN NIL ELSE k + 1
      go(c) == [stay |-> FALSE, conti |-> c, at |-> NIL]
      end(c) == [stay |-> FALSE, conti |-> c, at |-> d]
      stay(c) == [stay |-> TRUE, conti |-> c, at |-> NIL]
  IN  CASE ~whole -> {stay(k)}
        [] whole /\ k >= 0 -> {IF n >= Budget THEN end(conti)
                               ELSE IF room THEN stay(conti) ELSE go(conti - 1)}
        [] whole /\ k < 0 -> {go(k), IF n >= Budget THEN end(0)
                                     ELSE IF room THEN stay(0) ELSE go(0)}

\* Mutant of MoveOn: the next die is taken without looking.
MoveOnBlind(p, counter) ==
  IF \A d \in Dies : counter[d] = PgsPerBlk
  THEN [line |-> p.line + 1, die |-> 0, counter |-> [d \in Dies |-> 0]]
  ELSE [p EXCEPT !.counter = counter, !.die = (@ + 1) % NrDies]

\* Mutant of MoveOn: the scan stops before it is back at its own die.
MoveOnShort(p, counter) ==
  LET after(j) == (p.die + j) % NrDies
      free == {j \in 1 .. NrDies - 1 : counter[after(j)] < PgsPerBlk}
  IN  IF free = {} THEN [line |-> p.line + 1, die |-> 0, counter |-> [d \in Dies |-> 0]]
      ELSE [p EXCEPT !.counter = counter,
                     !.die = after(CHOOSE j \in free : \A h \in free : j <= h)]

\* The pointer moves to the next die with room, the present one last, or to
\* the next line.
MoveOn(p, counter) ==
  LET after(j) == (p.die + j) % NrDies
      free == {j \in 1 .. NrDies : counter[after(j)] < PgsPerBlk}
  IN  IF free = {} THEN [line |-> p.line + 1, die |-> 0, counter |-> [d \in Dies |-> 0]]
      ELSE [p EXCEPT !.counter = counter,
                     !.die = after(CHOOSE j \in free : \A h \in free : j <= h)]

\* get_next_free_line returns NULL, and the pointer to the line is used.
NoFreeLine(p, counter) ==
  p.line = TtLines - 2 /\ \A d \in Dies : counter[d] = PgsPerBlk

\* The page is mapped, the pointer advanced, and the call goes on or returns.
MapPage ==
  LET d == Part.die
      counter == [Part.counter EXCEPT ![d] = @ + 1]
      n == count + 1
      next == lpn + NrParts
  IN
  /\ count' = n
  /\ maptbl' = [maptbl EXCEPT ![lpn] = <<Part.line, d, Part.counter[d]>>]
  /\ \E r \in Decisions(Chunk.conti, n, d, counter[d] % PgsPerOneshot = 0,
                        counter[d] < PgsPerBlk) :
       IF ~r.stay /\ NoFreeLine(Part, counter)
       THEN pc' = "oops" /\ UNCHANGED <<ftl, active, lists, restart, pos, lpn>>
       ELSE
       /\ ftl' = [ftl EXCEPT ![cur[1]] = IF r.stay THEN [Part EXCEPT !.counter = counter]
                                                   ELSE MoveOn(Part, counter)]
       /\ IF r.at = NIL /\ n < Budget
          THEN /\ lpn' = next
               /\ active' = IF prem = 0 THEN [active EXCEPT ![cur][pos].conti = r.conti]
                                        ELSE active
               /\ lists' = IF prem = 0 THEN lists
                                       ELSE [lists EXCEPT ![cur][prem].conti = r.conti]
               /\ UNCHANGED <<restart, pos, pc>>
          ELSE /\ IF next > Chunk.end THEN ReturnNull /\ UNCHANGED pos
                                      ELSE ReturnAt(next, r.at, r.conti)
               /\ UNCHANGED lpn
  /\ UNCHANGED <<mapped, cur, prem, budget>>

\* A page is written.  One past the table, which only a chunk whose end has
\* wrapped can come to, is looked up in what lies behind the table, and stops
\* at the assertion of set_maptbl_ent.
WritePage ==
  /\ pc = "page"
  /\ lpn <= Chunk.end
  /\ Waiting = {}
  /\ IF lpn < Total THEN MapPage
     ELSE pc' = "astray" /\ UNCHANGED <<mapped, maptbl, ftl, active, lists, loopVars, budget>>

Next ==
  SelectList \/ CallCleaner \/ LoopEnd \/ ChunkWritten \/ Preempt \/ WritePage

\* clean_ftl runs in the thread that wrote to the proc file and never waits.
Spec == Init /\ [][Next]_vars /\ WF_vars(Next)

-----------------------------------------------------------------------------
(***************************************************************************)
(* Properties.                                                             *)
(***************************************************************************)
ChunkType == [start : Nat, end : Nat, die : Dies \cup {NIL}, conti : -2 .. MaxCon]

\* The running chunk is on the list it was taken from.
Positioned ==
  pc = "page" => IF prem = 0 THEN pos \in 1 .. Len(active[cur])
                             ELSE prem \in 1 .. Len(lists[cur])

TypeOK ==
  /\ mapped \subseteq Lpns
  /\ \A l \in Lpns : maptbl[l] = UNMAPPED \/ maptbl[l] \in Nat \X Dies \X (0 .. PgsPerBlk - 1)
  /\ ftl \in [Parts -> [line : Nat, die : Dies, counter : [Dies -> 0 .. PgsPerBlk]]]
  /\ \A i \in Parts : ftl[i].counter[ftl[i].die] < PgsPerBlk
  /\ DOMAIN active = Slots /\ DOMAIN lists = Slots
  /\ \A s \in Slots : Range(active[s]) \cup Range(lists[s]) \subseteq ChunkType
  /\ restart \in BOOLEAN /\ count \in Nat /\ cur \in Slots
  /\ pos \in Nat \ {0} /\ prem \in Nat /\ lpn \in Nat /\ budget \in StaleBudgets
  /\ Positioned
  /\ pc \in {"top", "each", "page", "after", "done", "oops", "astray"}

\* The chunks that exist, by list and position.
Places == UNION {   {<<0, s, k>> : k \in DOMAIN active[s]}
                \cup {<<1, s, k>> : k \in DOMAIN lists[s]} : s \in Slots}

Running == pc = "page"

\* The pages that the chunk at place p has still to write.
Rest(p) ==
  LET c    == (IF p[1] = 0 THEN active[p[2]] ELSE lists[p[2]])[p[3]]
      runs == Running /\ p = (IF prem = 0 THEN <<0, cur, pos>> ELSE <<1, cur, prem>>)
      from == IF runs THEN lpn ELSE c.start
  IN  {l \in Lpns : from <= l /\ l <= c.end /\ l % NrParts = from % NrParts}

(***************************************************************************)
(* Whatever preempts what, the chunks share out the work: each mapped page *)
(* that has not been written yet belongs to exactly one chunk, no chunk    *)
(* holds a page that was written already or was never mapped, and every    *)
(* chunk is on a list of the partition its pages belong to (the assertion  *)
(* lpn->idx == cur_index).  So the cleaner loses no page, invents none and *)
(* writes none twice.                                                      *)
(***************************************************************************)
WorkPartition ==
  LET left == [p \in Places |-> Rest(p)] IN
  /\ \A l \in Lpns : Cardinality({p \in Places : l \in left[p]}) =
                      IF l \in mapped /\ maptbl[l] = UNMAPPED THEN 1 ELSE 0
  /\ \A p \in Places : \A l \in left[p] : l % NrParts = p[2][1]

(***************************************************************************)
(* However the pointer jumps between the dies, the pages in use are those  *)
(* it has passed, each by one logical page: none is used twice, no page of *)
(* a block is skipped, and a line is left only when it is full.            *)
(***************************************************************************)
FlashDense ==
  \A i \in Parts :
    LET written == {l \in Lpns : l % NrParts = i /\ maptbl[l] # UNMAPPED} IN
    /\ {maptbl[l] : l \in written} =
         {a \in (0 .. ftl[i].line) \X Dies \X (0 .. PgsPerBlk - 1) :
            a[1] < ftl[i].line \/ a[3] < ftl[i].counter[a[2]]}
    /\ \A l, m \in written : l # m => maptbl[l] # maptbl[m]

\* "Arrange the contiguous LBAs in the physical area according to the
\* degree" (clean_ftl): what had no mapping before has none afterwards.
OnlyMapped == \A l \in Lpns \ mapped : maptbl[l] = UNMAPPED

\* The cleaner comes to an end, and when it starts the dispatcher again every
\* page that was mapped is mapped, and no chunk is left waiting for its die.
CleanerEnds ==
  <>(/\ pc = "done"
     /\ \A l \in mapped : maptbl[l] # UNMAPPED
     /\ \A s \in Slots : lists[s] = << >>)

=============================================================================
