----------------------------- MODULE VictimQueue -----------------------------
(***************************************************************************)
(* The victim queue of the conventional FTL: the binary heap of pqueue.c   *)
(* with the lines of line_mgmt as its elements, composed with ConvFtl.     *)
(* The priority of a line is its vpc, which the FTL also changes itself;   *)
(* the position of a line, kept in the line, is what mark_page_invalid     *)
(* takes for "in the queue".  pqueue_remove has no caller.                 *)
(***************************************************************************)
EXTENDS ConvFtl

VARIABLE queue   \* d: the elements 1 .. size - 1 of q->d; pos: line->pos

-----------------------------------------------------------------------------
(***************************************************************************)
(* pqueue.c.  pri gives the priority of every line, the least one is first *)
(* (victim_line_cmp_pri).                                                  *)
(***************************************************************************)
\* The nodes that a loop comes to that starts at node i and goes on from a
\* node k to node to[k], until that is 0: the least set that holds i and, with
\* every node, the next one.
Visited(i, to) ==
  LET Closed(S) == i \in S /\ \A k \in S : to[k] # 0 => to[k] \in S
  IN  {j \in DOMAIN to : \A S \in SUBSET DOMAIN to : Closed(S) => j \in S}

\* The array in which every element on the way from node i has moved to the
\* node before its own, and the element of node i to the last node.
Shifted(d, i, to) ==
  [j \in DOMAIN d |-> IF j \notin Visited(i, to) THEN d[j]
                      ELSE IF to[j] # 0 THEN d[to[j]]
                      ELSE d[i]]

\* What both loops do to the queue: setpos for every node that was stored.
Sift(q, i, to) ==
  LET nd        == Shifted(q.d, i, to)
      Holds(x, j) == nd[j] = x
  IN  [d   |-> nd,
       pos |-> [x \in Lines |-> IF \E j \in Visited(i, to) : Holds(x, j)
                                THEN CHOOSE j \in Visited(i, to) : Holds(x, j)
                                ELSE q.pos[x]]]

\* The element of node i moves up past the parents that sort behind it.
UpFrom(d, i, pri) ==
  [j \in DOMAIN d |-> IF j > 1 /\ pri[d[j \div 2]] > pri[d[i]] THEN j \div 2 ELSE 0]

BubbleUp(q, i, pri) == Sift(q, i, UpFrom(q.d, i, pri))

\* maxchild: the child that sorts first, 0 when there is none.
MaxChild(d, i, pri) ==
  IF 2 * i > Len(d) THEN 0
  ELSE IF 2 * i + 1 <= Len(d) /\ pri[d[2 * i]] > pri[d[2 * i + 1]] THEN 2 * i + 1
  ELSE 2 * i

\* The element of node i moves down past the children that sort before it.
DownFrom(d, i, pri) ==
  [j \in DOMAIN d |->
     LET c == MaxChild(d, j, pri)
     IN  IF c # 0 /\ pri[d[i]] > pri[d[c]] THEN c ELSE 0]

PercolateDown(q, i, pri) == Sift(q, i, DownFrom(q.d, i, pri))

\* pqueue_insert
Insert(q, i, pri) == BubbleUp([q EXCEPT !.d = Append(@, i)], Len(q.d) + 1, pri)

\* pqueue_change_priority of line i from its old priority to pri[i].
ChangePriority(q, i, old, pri) ==
  IF old > pri[i] THEN BubbleUp(q, q.pos[i], pri) ELSE PercolateDown(q, q.pos[i], pri)

\* pqueue_pop: the last element replaces the first.  The only element of a
\* queue replaces itself, and is given position 1 once more.
Pop(q, pri) ==
  LET n == Len(q.d) IN
  IF n = 1 THEN [d |-> << >>, pos |-> [q.pos EXCEPT ![q.d[1]] = 1]]
  ELSE PercolateDown([q EXCEPT !.d = [j \in 1 .. n - 1 |-> IF j = 1 THEN q.d[n] ELSE q.d[j]]],
                     1, pri)

-----------------------------------------------------------------------------
(***************************************************************************)
(* Where conv_ftl.c uses the queue.                                        *)
(***************************************************************************)
\* Mutant of MarkInvalid: the line stays where it is in the queue.
MarkInvalidInPlace(i) ==
  IF vpc[i] = PgsPerLine THEN Insert(queue, i, vpc') ELSE queue

\* mark_page_invalid of a page of line i.
MarkInvalid(i) ==
  LET q == IF queue.pos[i] # 0 THEN ChangePriority(queue, i, vpc[i], vpc') ELSE queue
  IN  IF vpc[i] = PgsPerLine THEN Insert(q, i, vpc') ELSE q

\* advance_write_pointer: a used-up line that is not entirely valid.
Retired(i) == IF vpc[i] = PgsPerLine THEN queue ELSE Insert(queue, i, vpc)

\* select_victim_line: peek, pop, and pos = 0.
Taken == [Pop(queue, vpc) EXCEPT !.pos[queue.d[1]] = 0]

VictimInit == Init /\ queue = [d |-> << >>, pos |-> [i \in Lines |-> 0]]

HostOrCleanerWrite(l, w) ==
  /\ WritePage(l, w)
  /\ queue' = IF maptbl[l] # UNMAPPED THEN MarkInvalid(maptbl[l][1]) ELSE queue

\* The steps of a request once it has begun.
VictimFinish ==
  \/ /\ \/ ProgramPage \/ UserStay \/ RefillOnly \/ GcDone
        \/ \E d \in Dies : UserNextDie(d)
        \/ \E s \in todo : GcSkip(s) \/ GcCopy(s) \/ GcWithinLine(s)
     /\ UNCHANGED queue
  \/ UserNextLine /\ queue' = Retired(wp.line)
  \/ \E s \in todo : GcNextLine(s) /\ queue' = Retired(gc_wp.line)
  \/ queue.d # << >> /\ SelectVictim(queue.d[1]) /\ queue' = Taken

VictimNext == VictimFinish \/ \E l \in Lpns, w \in Writers : HostOrCleanerWrite(l, w)

VictimSpec == VictimInit /\ [][VictimNext]_<<vars, queue>>

-----------------------------------------------------------------------------
(***************************************************************************)
(* The heap stays a heap while the FTL changes counts on its own: it holds *)
(* the victim lines, each once and each where its pos says; a line has a   *)
(* position exactly while it is in the queue, so that an overwrite in a    *)
(* line under a write pointer, in collection or reused does not reach into *)
(* the queue; and no parent has more valid pages than its children         *)
(* (subtree_is_valid), so that the first line is the cheapest to collect.  *)
(***************************************************************************)
VictimHeap ==
  /\ \A i \in Lines : queue.pos[i] # 0 <=> i \in victim
  /\ Len(queue.d) = Cardinality(victim)
  /\ \A j \in DOMAIN queue.d : queue.pos[queue.d[j]] = j
  /\ \A j \in DOMAIN queue.d : j > 1 => vpc[queue.d[j \div 2]] <= vpc[queue.d[j]]

=============================================================================
