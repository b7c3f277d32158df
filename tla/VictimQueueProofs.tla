-------------------------- MODULE VictimQueueProofs --------------------------
(***************************************************************************)
(* Proofs about VictimQueue: the loops of pqueue.c permute the array, keep *)
(* the positions in the lines and restore the order of the heap, and the   *)
(* FTL uses the queue so that it stays one.                                *)
(*                                                                         *)
(* The way of a loop through the nodes is a least set, so that what holds  *)
(* along the way needs no induction: the nodes where it holds are closed.  *)
(***************************************************************************)
EXTENDS VictimQueue, ConvFtlProofs, SequenceTheorems, FunctionTheorems

\* Every nonempty set of naturals has a least element.
LEMMA LeastNatural ==
  ASSUME NEW T \in SUBSET Nat, T # {}
  PROVE  \E x \in T : \A y \in T : x <= y
<1>1. PICK m \in T : TRUE
  OBVIOUS
<1> DEFINE B == 1 .. m
           R == StrictSubsetOrdering(B)
           U == {1 .. x : x \in {y \in T : y <= m}}
<1>2. IsWellFoundedOn(R, SUBSET B)
  <2>1. IsFiniteSet(B)
    BY FS_Interval
  <2> HIDE DEF B
  <2>2. FiniteSubsetsOf(B) = SUBSET B
    BY <2>1, FS_FiniteSubsetsOfFinite
  <2>3. IsWellFoundedOn(R, FiniteSubsetsOf(B))
    BY FS_StrictSubsetOrderingWellFounded
  <2> QED BY <2>2, <2>3
<1>3. U \in SUBSET SUBSET B /\ U # {}
  OBVIOUS
<1>4. \E s \in U : \A t \in U : ~ (<<t, s>> \in R)
  <2> HIDE DEF R, U, B
  <2> QED BY <1>2, <1>3, WFMin
<1>5. PICK x \in {y \in T : y <= m} : \A t \in U : ~ (<<t, 1 .. x>> \in R)
  BY <1>4
<1>6. ASSUME NEW y \in T PROVE x <= y
  <2> SUFFICES ASSUME y < x PROVE FALSE
    OBVIOUS
  <2>1. 1 .. y \in U
    OBVIOUS
  <2>2. /\ x \in 1 .. x /\ x \notin 1 .. y /\ 1 .. y \subseteq 1 .. x
        /\ x \in Nat /\ m \in Nat /\ x <= m
    OBVIOUS
  <2>3. <<1 .. y, 1 .. x>> \notin R
    BY <1>5, <2>1
  <2>4. 1 .. y \in SUBSET B /\ 1 .. x \in SUBSET B
    BY <2>2
  <2> QED BY <2>2, <2>3, <2>4 DEF StrictSubsetOrdering
<1> QED BY <1>6

-----------------------------------------------------------------------------
(***************************************************************************)
(* The way of a loop.                                                      *)
(***************************************************************************)
\* to leads from a node of an array of n nodes to another one or to the end,
\* 0; rank is a different natural for every node and falls along the way.
IsWay(to, n, rank) ==
  /\ n \in Nat
  /\ to \in [1 .. n -> 0 .. n]
  /\ rank \in [1 .. n -> Nat]
  /\ \A j, k \in 1 .. n : rank[j] = rank[k] => j = k
  /\ \A j \in 1 .. n : to[j] # 0 => rank[to[j]] < rank[j]

LEMMA VisitedClosed ==
  ASSUME NEW n \in Nat, NEW to, DOMAIN to = 1 .. n, NEW i \in 1 .. n,
         \A j \in 1 .. n : to[j] # 0 => to[j] \in 1 .. n
  PROVE  /\ Visited(i, to) \subseteq 1 .. n
         /\ i \in Visited(i, to)
         /\ \A k \in Visited(i, to) : to[k] # 0 => to[k] \in Visited(i, to)
BY DEF Visited

\* The nodes on the way are in every closed set.
LEMMA VisitedLeast ==
  ASSUME NEW to, NEW i, NEW S \in SUBSET DOMAIN to, i \in S,
         \A k \in S : to[k] # 0 => to[k] \in S
  PROVE  Visited(i, to) \subseteq S
BY DEF Visited

\* Every node on the way but the first is the next one of another.
LEMMA VisitedFrom ==
  ASSUME NEW n \in Nat, NEW to, DOMAIN to = 1 .. n, NEW i \in 1 .. n,
         \A j \in 1 .. n : to[j] # 0 => to[j] \in 1 .. n,
         NEW j \in Visited(i, to), j # i
  PROVE  \E k \in Visited(i, to) : to[k] = j /\ to[k] # 0
<1> SUFFICES ASSUME \A k \in Visited(i, to) : to[k] # 0 => to[k] # j
             PROVE  FALSE
  OBVIOUS
<1> DEFINE S == Visited(i, to) \ {j}
<1>1. S \in SUBSET DOMAIN to /\ i \in S
  BY VisitedClosed
<1>2. \A k \in S : to[k] # 0 => to[k] \in S
  BY VisitedClosed
<1>3. Visited(i, to) \subseteq S
  <2> HIDE DEF S
  <2> QED BY <1>1, <1>2, VisitedLeast
<1> QED BY <1>3

\* The ranks of the nodes on the way: none is higher than that of the first,
\* and none is between that of a node and that of its next one.
LEMMA VisitedLine ==
  ASSUME NEW n, NEW to, NEW rank, IsWay(to, n, rank), NEW i \in 1 .. n,
         NEW j \in Visited(i, to), NEW k \in Visited(i, to)
  PROVE  /\ rank[k] <= rank[i]
         /\ rank[k] < rank[j] => to[j] # 0 /\ rank[k] <= rank[to[j]]
<1> DEFINE V == Visited(i, to)
<1>0. /\ DOMAIN to = 1 .. n /\ n \in Nat
      /\ \A x \in 1 .. n : to[x] # 0 => to[x] \in 1 .. n
  BY DEF IsWay
<1>1. /\ V \subseteq 1 .. n /\ i \in V
      /\ \A x \in V : to[x] # 0 => to[x] \in V /\ to[x] \in 1 .. n
  BY <1>0, VisitedClosed
<1>2. \A x \in V : rank[x] \in Nat
  BY <1>1 DEF IsWay
<1>3. \A x \in V : rank[x] <= rank[i]
  <2> DEFINE S == {x \in V : rank[x] <= rank[i]}
  <2>1. S \in SUBSET DOMAIN to /\ i \in S
    BY <1>0, <1>1, <1>2
  <2>2. ASSUME NEW x \in S, to[x] # 0 PROVE to[x] \in S
    <3> HIDE DEF V
    <3>1. to[x] \in V /\ x \in 1 .. n /\ rank[to[x]] < rank[x]
      BY <1>1, <2>2 DEF IsWay
    <3> QED BY <3>1, <1>1, <1>2
  <2>3. V \subseteq S
    <3> HIDE DEF S
    <3> QED BY <2>1, <2>2, VisitedLeast
  <2> QED BY <2>3
<1>4. \A x, y \in V : (rank[y] < rank[x] => to[x] # 0 /\ rank[y] <= rank[to[x]])
                   /\ (rank[y] > rank[x] => to[y] # 0 /\ rank[to[y]] >= rank[x])
  <2> HIDE DEF V
  <2> DEFINE Q(x) == \A y \in V :
                /\ rank[y] < rank[x] => to[x] # 0 /\ rank[y] <= rank[to[x]]
                /\ rank[y] > rank[x] => to[y] # 0 /\ rank[to[y]] >= rank[x]
             \* Nothing on the way is between x and its next node.
             Below(x) == \A y \in V : rank[y] < rank[x] => to[x] # 0 /\ rank[y] <= rank[to[x]]
             S == {x \in V : Q(x)}
  <2>1. ASSUME NEW x \in V, \A y \in V : rank[y] > rank[x] => to[y] # 0 /\ rank[to[y]] >= rank[x]
        PROVE  Below(x)
    <3> DEFINE W == {y \in V : rank[y] >= rank[x]}
                    \cup {y \in V : to[x] # 0 /\ rank[y] <= rank[to[x]]}
    <3>1. W \in SUBSET DOMAIN to /\ i \in W
      BY <1>0, <1>1, <1>2, <1>3
    <3>2. ASSUME NEW y \in W, to[y] # 0 PROVE to[y] \in W
      <4>1. y \in V /\ to[y] \in V /\ rank[to[y]] < rank[y] /\ y \in 1 .. n /\ x \in 1 .. n
        BY <1>1, <3>2 DEF IsWay
      <4>2. rank[y] \in Nat /\ rank[x] \in Nat /\ rank[to[y]] \in Nat
        BY <4>1, <1>2
      <4>3. CASE rank[y] = rank[x]
        <5>1. y = x
          BY <4>1, <4>3 DEF IsWay
        <5> QED BY <5>1, <4>1, <4>2, <3>2
      <4>4. CASE rank[y] > rank[x]
        BY <4>1, <4>2, <4>4, <2>1
      <4>5. CASE rank[y] < rank[x]
        <5>1. to[x] # 0 /\ rank[y] <= rank[to[x]]
          BY <4>2, <4>5
        <5>2. rank[to[x]] \in Nat
          BY <5>1, <1>1, <1>2
        <5> QED BY <5>1, <5>2, <4>1, <4>2
      <4> QED BY <4>2, <4>3, <4>4, <4>5
    <3>3. V \subseteq W
      <4> HIDE DEF W
      <4> QED BY <3>1, <3>2, VisitedLeast DEF V
    <3> QED BY <3>3, <1>2
  <2>2. S \in SUBSET DOMAIN to /\ i \in S
    <3>1. \A y \in V : ~(rank[y] > rank[i])
      BY <1>1, <1>2, <1>3
    <3>2. Below(i)
      BY <2>1, <3>1, <1>1
    <3> QED BY <3>1, <3>2, <1>0, <1>1
  <2>3. ASSUME NEW x \in S, to[x] # 0 PROVE to[x] \in S
    <3>1. x \in V /\ to[x] \in V /\ rank[to[x]] < rank[x] /\ Q(x)
      BY <1>1, <2>3 DEF IsWay
    <3>2. \A y \in V : rank[y] > rank[to[x]] => to[y] # 0 /\ rank[to[y]] >= rank[to[x]]
      <4> SUFFICES ASSUME NEW y \in V, rank[y] > rank[to[x]]
                   PROVE  to[y] # 0 /\ rank[to[y]] >= rank[to[x]]
        OBVIOUS
      <4>1. rank[y] >= rank[x]
        BY <3>1, <1>2
      <4>2. CASE rank[y] = rank[x]
        <5>1. y = x
          BY <3>1, <4>2, <1>1 DEF IsWay
        <5> QED BY <5>1, <2>3, <1>2, <3>1
      <4>3. CASE rank[y] > rank[x]
        <5>1. to[y] # 0 /\ rank[to[y]] >= rank[x]
          BY <3>1, <4>3
        <5> QED BY <5>1, <3>1, <1>1, <1>2
      <4> QED BY <4>1, <4>2, <4>3, <1>2, <3>1
    <3>3. Below(to[x])
      BY <2>1, <3>1, <3>2
    <3> QED BY <3>1, <3>2, <3>3
  <2>4. V \subseteq S
    <3> HIDE DEF S
    <3> QED BY <2>2, <2>3, VisitedLeast DEF V
  <2> QED BY <2>4
<1> QED BY <1>3, <1>4

\* No two nodes on the way have the same next node, none leads back to the
\* first one, and the way has one end.
LEMMA VisitedEnds ==
  ASSUME NEW n, NEW to, NEW rank, IsWay(to, n, rank), NEW i \in 1 .. n
  PROVE  /\ \A j, k \in Visited(i, to) : to[j] = to[k] => j = k
         /\ \A j \in Visited(i, to) : to[j] # i
         /\ \E j \in Visited(i, to) : to[j] = 0
<1> DEFINE V == Visited(i, to)
<1>0. /\ DOMAIN to = 1 .. n /\ n \in Nat
      /\ \A x \in 1 .. n : to[x] # 0 => to[x] \in 1 .. n
  BY DEF IsWay
<1>1. /\ V \subseteq 1 .. n /\ i \in V
      /\ \A x \in V : to[x] # 0 => to[x] \in V
  BY <1>0, VisitedClosed
<1>2. /\ \A x \in V : rank[x] \in Nat
      /\ \A x \in V : to[x] # 0 => rank[to[x]] < rank[x]
      /\ \A x, y \in V : rank[x] = rank[y] => x = y
  BY <1>1 DEF IsWay
<1>3. \A x, y \in V : /\ rank[y] <= rank[i]
                      /\ rank[y] < rank[x] => to[x] # 0 /\ rank[y] <= rank[to[x]]
  BY VisitedLine
<1> HIDE DEF V
<1>4. ASSUME NEW j \in V, NEW k \in V, to[j] = to[k], rank[k] < rank[j] PROVE FALSE
  <2>1. to[j] # 0 /\ rank[k] <= rank[to[j]]
    BY <1>3, <1>4
  <2>2. rank[to[k]] < rank[k] /\ to[k] \in V
    BY <2>1, <1>1, <1>2, <1>4
  <2> QED BY <2>1, <2>2, <1>2, <1>4
<1>5. \A j, k \in V : to[j] = to[k] => j = k
  <2> SUFFICES ASSUME NEW j \in V, NEW k \in V, to[j] = to[k] PROVE j = k
    OBVIOUS
  <2>1. ~(rank[k] < rank[j]) /\ ~(rank[j] < rank[k])
    BY <1>4
  <2> QED BY <2>1, <1>2
<1>6. \A j \in V : to[j] # i
  BY <1>1, <1>2, <1>3, <1>0
<1>7. \E j \in V : to[j] = 0
  <2> DEFINE T == {rank[x] : x \in V}
  <2>1. T \in SUBSET Nat /\ T # {}
    BY <1>1, <1>2
  <2>2. PICK j \in V : \A y \in T : rank[j] <= y
    <3>1. \E t \in T : \A y \in T : t <= y
      <4> HIDE DEF T
      <4> QED BY <2>1, LeastNatural
    <3> QED BY <3>1
  <2>3. SUFFICES ASSUME to[j] # 0 PROVE FALSE
    OBVIOUS
  <2>4. to[j] \in V /\ rank[to[j]] < rank[j]
    BY <2>3, <1>1, <1>2
  <2> QED BY <2>2, <2>4, <1>2
<1> QED BY <1>5, <1>6, <1>7 DEF V

-----------------------------------------------------------------------------
(***************************************************************************)
(* What a loop does to the queue.                                          *)
(***************************************************************************)
OneEach(d) == \A j, k \in DOMAIN d : d[j] = d[k] => j = k

Elements(d) == {d[j] : j \in DOMAIN d}

\* A queue of the lines of S: every line once and where its position says.
\* Lines that are not in the queue have position 0.
Queued(q, S) ==
  /\ q = [d |-> q.d, pos |-> q.pos]
  /\ Len(q.d) \in Nat
  /\ q.d \in [1 .. Len(q.d) -> Lines]
  /\ q.pos \in [Lines -> Nat]
  /\ \A j \in DOMAIN q.d : q.pos[q.d[j]] = j
  /\ \A x \in Lines : q.pos[x] # 0 <=> x \in S
  /\ Elements(q.d) = S

\* The elements move to other nodes: none is lost and none is doubled.
LEMMA ShiftedPermutes ==
  ASSUME NEW n, NEW to, NEW rank, IsWay(to, n, rank), NEW i \in 1 .. n,
         NEW d \in [1 .. n -> Lines], OneEach(d)
  PROVE  /\ Shifted(d, i, to) \in [1 .. n -> Lines]
         /\ OneEach(Shifted(d, i, to))
         /\ Elements(Shifted(d, i, to)) = Elements(d)
<1> DEFINE V == Visited(i, to)
           nd == Shifted(d, i, to)
           from == [j \in 1 .. n |-> IF j \notin V THEN j
                                     ELSE IF to[j] # 0 THEN to[j] ELSE i]
<1>0. /\ DOMAIN to = 1 .. n /\ n \in Nat
      /\ \A x \in 1 .. n : to[x] # 0 => to[x] \in 1 .. n
  BY DEF IsWay
<1>1. /\ V \subseteq 1 .. n /\ i \in V
      /\ \A x \in V : to[x] # 0 => to[x] \in V
  BY <1>0, VisitedClosed
<1>2. /\ \A j, k \in V : to[j] = to[k] => j = k
      /\ \A j \in V : to[j] # i
      /\ \E j \in V : to[j] = 0
  BY VisitedEnds
<1>3. \A j \in V : j # i => \E k \in V : to[k] = j /\ to[k] # 0
  BY <1>0, VisitedFrom
<1>4. /\ DOMAIN nd = 1 .. n
      /\ \A j \in 1 .. n : from[j] \in 1 .. n /\ nd[j] = d[from[j]]
  BY <1>0, <1>1 DEF Shifted
<1> HIDE DEF V, nd
<1>5. \A j, k \in 1 .. n : from[j] = from[k] => j = k
  BY <1>1, <1>2
<1>6. \A m \in 1 .. n : \E j \in 1 .. n : from[j] = m
  <2> SUFFICES ASSUME NEW m \in 1 .. n PROVE \E j \in 1 .. n : from[j] = m
    OBVIOUS
  <2>1. CASE m \notin V
    BY <2>1
  <2>2. CASE m \in V /\ m # i
    BY <2>2, <1>1, <1>3
  <2>3. CASE m = i
    BY <2>3, <1>1, <1>2
  <2> QED BY <2>1, <2>2, <2>3
<1> HIDE DEF from
<1>7. \A j \in 1 .. n : nd[j] \in Lines
  BY <1>4
<1>8. nd \in [1 .. n -> Lines]
  <2>1. nd = [j \in 1 .. n |-> nd[j]]
    BY <1>0 DEF nd, Shifted
  <2> QED BY <2>1, <1>7
<1>9. OneEach(nd)
  BY <1>4, <1>5 DEF OneEach
<1>10. Elements(nd) = Elements(d)
  <2>1. \A j \in 1 .. n : nd[j] \in Elements(d)
    BY <1>4 DEF Elements
  <2>2. ASSUME NEW m \in 1 .. n PROVE d[m] \in Elements(nd)
    <3>1. PICK j \in 1 .. n : from[j] = m
      BY <1>6
    <3> QED BY <3>1, <1>4 DEF Elements
  <2>3. DOMAIN d = 1 .. n
    OBVIOUS
  <2> QED BY <1>4, <2>1, <2>2, <2>3, ZenonT(30) DEF Elements
<1> QED BY <1>8, <1>9, <1>10 DEF nd

\* A queue of n lines in which only the element of node i may have a wrong
\* position.
Displaced(q, n, i) ==
  /\ q.d \in [1 .. n -> Lines] /\ Len(q.d) = n /\ OneEach(q.d)
  /\ q.pos \in [Lines -> Nat]
  /\ \A j \in 1 .. n : j # i => q.pos[q.d[j]] = j
  /\ \A x \in Lines \ Elements(q.d) : q.pos[x] = 0

\* A loop that starts at node i puts all positions right.
LEMMA SiftQueued ==
  ASSUME NEW n \in Nat, NEW to, NEW rank, IsWay(to, n, rank), NEW i \in 1 .. n,
         NEW q, Displaced(q, n, i)
  PROVE  /\ Queued(Sift(q, i, to), Elements(q.d))
         /\ Sift(q, i, to).d = Shifted(q.d, i, to)
         /\ Len(Sift(q, i, to).d) = n
<1> DEFINE V == Visited(i, to)
           nd == Shifted(q.d, i, to)
           np == Sift(q, i, to).pos
<1> USE DEF Displaced
<1>0. /\ DOMAIN to = 1 .. n /\ n \in Nat
      /\ \A x \in 1 .. n : to[x] # 0 => to[x] \in 1 .. n
  BY DEF IsWay
<1>1. V \subseteq 1 .. n /\ i \in V
  BY <1>0, VisitedClosed
<1>2. /\ nd \in [1 .. n -> Lines] /\ OneEach(nd) /\ Elements(nd) = Elements(q.d)
  BY ShiftedPermutes, SMTT(30)
<1>3. \A j \in 1 .. n : j \notin V => nd[j] = q.d[j]
  BY DEF Shifted
<1>4. Sift(q, i, to) = [d |-> nd, pos |-> np]
  BY DEF Sift
<1>5. np = [x \in Lines |-> IF \E j \in V : nd[j] = x THEN CHOOSE j \in V : nd[j] = x
                            ELSE q.pos[x]]
  BY DEF Sift
<1> HIDE DEF V, nd, np
<1>6. \A j \in V : np[nd[j]] = j
  <2> SUFFICES ASSUME NEW j \in V PROVE np[nd[j]] = j
    OBVIOUS
  <2>1. nd[j] \in Lines /\ j \in 1 .. n
    BY <1>1, <1>2
  <2>2. np[nd[j]] = CHOOSE k \in V : nd[k] = nd[j]
    BY <1>5, <2>1
  <2>3. \A k \in V : nd[k] = nd[j] <=> k = j
    BY <1>1, <1>2 DEF OneEach
  <2> QED BY <2>2, <2>3
<1>7. \A j \in 1 .. n : j \notin V => np[nd[j]] = j
  <2> SUFFICES ASSUME NEW j \in 1 .. n, j \notin V PROVE np[nd[j]] = j
    OBVIOUS
  <2>1. ~ \E k \in V : nd[k] = nd[j]
    BY <1>1, <1>2 DEF OneEach
  <2>2. np[nd[j]] = q.pos[nd[j]]
    BY <1>2, <1>5, <2>1
  <2> QED BY <2>2, <1>1, <1>3
<1>8. \A x \in Lines : x \notin Elements(q.d) => np[x] = 0
  <2> SUFFICES ASSUME NEW x \in Lines, x \notin Elements(q.d) PROVE np[x] = 0
    OBVIOUS
  <2>1. ~ \E k \in V : nd[k] = x
    BY <1>1, <1>2, ZenonT(30) DEF Elements
  <2> QED BY <1>5, <2>1
<1>9. np \in [Lines -> Nat]
  <2>1. \A x \in Lines : np[x] \in Nat
    <3> SUFFICES ASSUME NEW x \in Lines PROVE np[x] \in Nat
      OBVIOUS
    <3>1. CASE \E j \in V : nd[j] = x
      BY <3>1, <1>1, <1>6
    <3>2. CASE ~ \E j \in V : nd[j] = x
      BY <3>2, <1>5
    <3> QED BY <3>1, <3>2
  <2> QED BY <2>1, <1>5
<1>10. \A x \in Lines : np[x] # 0 <=> x \in Elements(q.d)
  <2>1. ASSUME NEW x \in Elements(q.d) PROVE np[x] # 0
    <3>1. PICK j \in 1 .. n : x = nd[j]
      BY <1>2 DEF Elements
    <3> QED BY <3>1, <1>6, <1>7
  <2> QED BY <2>1, <1>8
<1>11. Len(nd) = n
  BY <1>0, <1>2
<1> DEFINE r == [d |-> nd, pos |-> np]
<1>12. r.d = nd /\ r.pos = np /\ r = [d |-> r.d, pos |-> r.pos]
  OBVIOUS
<1> HIDE DEF r
<1>13. Queued(r, Elements(q.d))
  <2>1. DOMAIN nd = 1 .. n /\ \A j \in 1 .. n : np[nd[j]] = j
    BY <1>2, <1>6, <1>7
  <2> QED BY <2>1, <1>2, <1>9, <1>10, <1>11, <1>12 DEF Queued
<1> QED BY <1>4, <1>11, <1>12, <1>13 DEF nd, r

-----------------------------------------------------------------------------
(***************************************************************************)
(* The order of the heap.                                                  *)
(***************************************************************************)
Above(j) == j \div 2

Ordered(d, pri) == \A j \in DOMAIN d : j > 1 => pri[d[Above(j)]] <= pri[d[j]]

LEMMA Parent ==
  ASSUME NEW j \in Nat, j > 1
  PROVE  Above(j) \in Nat /\ Above(j) >= 1 /\ Above(j) < j
         /\ (j = 2 * Above(j) \/ j = 2 * Above(j) + 1)
BY DEF Above

Numbers(n) == [j \in 1 .. n |-> j]

\* The steps of bubble_up.
UpSteps(to, n, d, i, pri) ==
  /\ DOMAIN to = 1 .. n
  /\ \A j \in 1 .. n : to[j] # 0 =>
       to[j] = Above(j) /\ j > 1 /\ pri[d[Above(j)]] > pri[d[i]]
  /\ \A j \in 1 .. n : to[j] = 0 => ~(j > 1 /\ pri[d[Above(j)]] > pri[d[i]])

LEMMA UpWay ==
  ASSUME NEW n \in Nat, NEW d, DOMAIN d = 1 .. n, NEW i, NEW pri
  PROVE  /\ IsWay(UpFrom(d, i, pri), n, Numbers(n))
         /\ UpSteps(UpFrom(d, i, pri), n, d, i, pri)
BY Parent DEF IsWay, UpFrom, Above, Numbers, UpSteps

\* Only the element of node i may be out of place, and it sorts before the
\* elements below it.
TooLow(d, n, i, pri) ==
  /\ \A j \in 2 .. n : j # i => pri[d[Above(j)]] <= pri[d[j]]
  /\ \A j \in 2 .. n : i > 1 /\ Above(j) = i => pri[d[Above(i)]] <= pri[d[j]]

\* bubble_up then restores the order.
LEMMA UpOrdered ==
  ASSUME NEW n \in Nat, NEW d \in [1 .. n -> Lines], NEW i \in 1 .. n,
         NEW pri \in [Lines -> Int], TooLow(d, n, i, pri)
  PROVE  Ordered(Shifted(d, i, UpFrom(d, i, pri)), pri)
<1> DEFINE to == UpFrom(d, i, pri)
           rank == Numbers(n)
           V == Visited(i, to)
           nd == Shifted(d, i, to)
           p(j) == pri[d[j]]
<1>1. /\ IsWay(to, n, rank) /\ DOMAIN to = 1 .. n
      /\ \A j \in 1 .. n : to[j] # 0 =>
           to[j] = Above(j) /\ j > 1 /\ p(Above(j)) > p(i)
      /\ \A j \in 1 .. n : to[j] = 0 => ~(j > 1 /\ p(Above(j)) > p(i))
  <2>1. IsWay(to, n, rank) /\ UpSteps(to, n, d, i, pri)
    BY UpWay
  <2> HIDE DEF to, rank
  <2> QED BY <2>1 DEF UpSteps
<1>2. \A x \in 1 .. n : to[x] # 0 => to[x] \in 1 .. n
  BY <1>1 DEF IsWay
<1>3. /\ V \subseteq 1 .. n /\ i \in V
      /\ \A x \in V : to[x] # 0 => to[x] \in V
  BY <1>1, <1>2, VisitedClosed
<1>4. \A j, k \in V : k < j => to[j] # 0 /\ k <= to[j]
  <2> HIDE DEF to, rank
  <2>1. \A j, k \in V : rank[k] < rank[j] => to[j] # 0 /\ rank[k] <= rank[to[j]]
    BY <1>1, VisitedLine
  <2>2. \A j \in 1 .. n : rank[j] = j
    BY DEF rank, Numbers
  <2> HIDE DEF V
  <2> QED BY <1>2, <1>3, <2>1, <2>2, ZenonT(30)
<1>11. \A j \in V : to[j] # i
  <2> HIDE DEF to, rank
  <2> QED BY <1>1, VisitedEnds
<1>5. \A j \in 1 .. n : p(j) \in Int
  OBVIOUS
<1> HIDE DEF to
<1>6. \A j \in V : j # i => p(j) > p(i)
  <2> DEFINE S == {j \in 1 .. n : j = i \/ p(j) > p(i)}
  <2>1. S \in SUBSET DOMAIN to /\ i \in S
    BY <1>1
  <2>2. \A k \in S : to[k] # 0 => to[k] \in S
    BY <1>1, <1>2
  <2>3. V \subseteq S
    <3> HIDE DEF S
    <3> QED BY <2>1, <2>2, VisitedLeast
  <2> QED BY <2>3
<1>7. /\ DOMAIN nd = 1 .. n
      /\ \A j \in 1 .. n : /\ j \notin V => pri[nd[j]] = p(j)
                           /\ j \in V /\ to[j] # 0 => pri[nd[j]] = p(to[j])
                           /\ j \in V /\ to[j] = 0 => pri[nd[j]] = p(i)
  BY DEF Shifted
<1>8. \A j \in 2 .. n : j # i => p(Above(j)) <= p(j)
  BY DEF TooLow
<1>9. \A j \in 2 .. n : i > 1 /\ Above(j) = i => p(Above(i)) <= p(j)
  BY DEF TooLow
<1> HIDE DEF V, nd, p
<1>10. ASSUME NEW j \in 1 .. n, j > 1, NEW m, m = Above(j)
       PROVE  pri[nd[m]] <= pri[nd[j]]
  <2>1. m \in 1 .. n /\ m < j /\ j \in 2 .. n /\ m = Above(j)
    BY <1>10, Parent
  <2>2. p(m) \in Int /\ p(j) \in Int /\ p(i) \in Int
    BY <1>5, <2>1
  <2>3. m > 1 => Above(m) \in 1 .. n /\ m \in 2 .. n /\ p(Above(m)) \in Int
    <3> SUFFICES ASSUME m > 1
                 PROVE  Above(m) \in 1 .. n /\ m \in 2 .. n /\ p(Above(m)) \in Int
      OBVIOUS
    <3>1. m \in 1 .. n /\ m > 1
      BY <2>1
    <3> HIDE <1>10
    <3>2. Above(m) \in 1 .. n
      BY <3>1, Parent
    <3>3. p(Above(m)) \in Int
      BY <3>2, <1>5
    <3> QED BY <3>1, <3>2, <3>3
  <2>4. j # i => p(m) <= p(j)
    BY <1>8, <2>1
  <2>5. i > 1 /\ m = i => p(Above(i)) <= p(j)
    BY <1>9, <2>1
  <2>6. m > 1 /\ m # i => p(Above(m)) <= p(m)
    BY <1>8, <2>3
  <2>7. m \in V /\ m # i => p(m) > p(i)
    BY <1>6
  <2>8. to[m] # 0 => to[m] = Above(m) /\ m > 1
    BY <1>1, <2>1
  <2>9. /\ to[j] # 0 => to[j] = m
        /\ to[j] = 0 => ~(p(m) > p(i))
    BY <1>1, <2>1
  <2>10. CASE j \in V /\ to[j] # 0
    <3>1. m \in V /\ pri[nd[j]] = p(m)
      BY <2>10, <2>9, <1>3, <1>7
    <3>2. CASE to[m] = 0
      BY <3>1, <3>2, <1>7, <2>1, <2>2, <2>7
    <3>3. CASE to[m] # 0
      <4>1. m # i
        BY <2>10, <2>9, <1>11
      <4> QED BY <3>1, <3>3, <4>1, <1>7, <2>1, <2>6, <2>8
    <3> QED BY <3>2, <3>3
  <2>11. CASE j \in V /\ to[j] = 0
    <3>1. m \notin V
      BY <2>11, <2>1, <1>4
    <3> QED BY <3>1, <2>11, <2>9, <1>7, <2>1, <2>2
  <2>12. CASE j \notin V
    <3>1. j # i /\ pri[nd[j]] = p(j)
      BY <2>12, <1>3, <1>7, <2>1
    <3>2. CASE m \notin V
      BY <3>1, <3>2, <1>7, <2>1, <2>4
    <3>3. CASE m \in V /\ to[m] # 0
      <4>1. pri[nd[m]] = p(Above(m)) /\ m > 1
        BY <3>3, <2>8, <1>7, <2>1
      <4> QED BY <3>1, <4>1, <2>2, <2>3, <2>4, <2>5, <2>6, SMTT(30)
    <3>4. CASE m \in V /\ to[m] = 0
      BY <3>1, <3>4, <1>7, <2>1, <2>2, <2>4, <2>7
    <3> QED BY <3>2, <3>3, <3>4
  <2> QED BY <2>10, <2>11, <2>12
<1> QED BY <1>7, <1>10 DEF Ordered, nd, to

\* The steps of percolate_down: to a child, of two to the one that sorts
\* first, as long as it sorts before the element that moves down.
DownSteps(to, n, d, i, pri) ==
  /\ DOMAIN to = 1 .. n
  /\ \A j \in 1 .. n : to[j] # 0 =>
       to[j] \in 2 .. n /\ Above(to[j]) = j /\ pri[d[to[j]]] < pri[d[i]]
  /\ \A j, k \in 1 .. n : k > 1 /\ Above(k) = j =>
       IF to[j] # 0 THEN pri[d[to[j]]] <= pri[d[k]] ELSE pri[d[i]] <= pri[d[k]]

\* The nodes numbered from the last one.
Countdown(n) == [j \in 1 .. n |-> n - j]

LEMMA MaxChildFirst ==
  ASSUME NEW n \in Nat, NEW d, Len(d) = n, NEW j \in 1 .. n,
         NEW pri, \A k \in 1 .. n : pri[d[k]] \in Int
  PROVE  /\ MaxChild(d, j, pri) # 0 =>
              MaxChild(d, j, pri) \in 2 .. n /\ Above(MaxChild(d, j, pri)) = j
         /\ \A k \in 1 .. n : k > 1 /\ Above(k) = j =>
              MaxChild(d, j, pri) # 0 /\ pri[d[MaxChild(d, j, pri)]] <= pri[d[k]]
<1>1. 2 * j \in Nat /\ 2 * j > 1 /\ Above(2 * j) = j /\ Above(2 * j + 1) = j
  BY DEF Above
<1>2. \A k \in 1 .. n : k > 1 /\ Above(k) = j => k = 2 * j \/ k = 2 * j + 1
  BY Parent
<1> QED BY <1>1, <1>2, SMTT(30) DEF MaxChild

LEMMA DownWay ==
  ASSUME NEW n \in Nat, NEW d, DOMAIN d = 1 .. n, Len(d) = n, NEW i \in 1 .. n,
         NEW pri, \A k \in 1 .. n : pri[d[k]] \in Int
  PROVE  /\ IsWay(DownFrom(d, i, pri), n, Countdown(n))
         /\ DownSteps(DownFrom(d, i, pri), n, d, i, pri)
<1> DEFINE to == DownFrom(d, i, pri)
           c(j) == MaxChild(d, j, pri)
<1>1. /\ DOMAIN to = 1 .. n
      /\ \A j \in 1 .. n : to[j] = IF c(j) # 0 /\ pri[d[i]] > pri[d[c(j)]] THEN c(j) ELSE 0
  BY DEF DownFrom
<1>2. \A j \in 1 .. n : /\ c(j) # 0 => c(j) \in 2 .. n /\ Above(c(j)) = j
                        /\ \A k \in 1 .. n : k > 1 /\ Above(k) = j =>
                             c(j) # 0 /\ pri[d[c(j)]] <= pri[d[k]]
  BY MaxChildFirst
<1>3. to = [j \in 1 .. n |-> to[j]]
  BY <1>1 DEF DownFrom
<1> HIDE DEF to, c
<1>4. DownSteps(to, n, d, i, pri)
  BY <1>1, <1>2, SMTT(30) DEF DownSteps
<1>5. \A j \in 1 .. n : to[j] \in 0 .. n
  BY <1>1, <1>2
<1>6. \A j \in 1 .. n : to[j] # 0 => to[j] > j
  <2> SUFFICES ASSUME NEW j \in 1 .. n, to[j] # 0 PROVE to[j] > j
    OBVIOUS
  <2>1. to[j] \in 2 .. n /\ Above(to[j]) = j
    BY <1>4 DEF DownSteps
  <2> QED BY <2>1, Parent
<1>7. IsWay(to, n, Countdown(n))
  BY <1>3, <1>5, <1>6 DEF IsWay, Countdown
<1> QED BY <1>4, <1>7 DEF to

\* percolate_down from the first node restores the order when only the
\* element of the first node is out of place.
LEMMA DownOrdered ==
  ASSUME NEW n \in Nat, n >= 1, NEW d \in [1 .. n -> Lines], Len(d) = n,
         NEW pri \in [Lines -> Int],
         \A j \in 2 .. n : Above(j) # 1 => pri[d[Above(j)]] <= pri[d[j]]
  PROVE  Ordered(Shifted(d, 1, DownFrom(d, 1, pri)), pri)
<1> DEFINE to == DownFrom(d, 1, pri)
           V == Visited(1, to)
           nd == Shifted(d, 1, to)
           p(j) == pri[d[j]]
<1>0. 1 \in 1 .. n /\ DOMAIN d = 1 .. n /\ \A j \in 1 .. n : p(j) \in Int
  OBVIOUS
<1>1. IsWay(to, n, Countdown(n)) /\ DownSteps(to, n, d, 1, pri)
  BY <1>0, DownWay
<1> HIDE DEF to
<1>2. /\ DOMAIN to = 1 .. n
      /\ \A j \in 1 .. n : to[j] # 0 => to[j] \in 2 .. n /\ Above(to[j]) = j
      /\ \A j, k \in 1 .. n : k > 1 /\ Above(k) = j =>
           IF to[j] # 0 THEN p(to[j]) <= p(k) ELSE p(1) <= p(k)
      /\ \A j \in 1 .. n : to[j] # 0 => p(to[j]) < p(1)
  BY <1>1 DEF DownSteps
<1>3. \A x \in 1 .. n : to[x] # 0 => to[x] \in 1 .. n
  BY <1>1 DEF IsWay
<1>4. /\ V \subseteq 1 .. n /\ 1 \in V
      /\ \A x \in V : to[x] # 0 => to[x] \in V
  BY <1>0, <1>2, <1>3, VisitedClosed
<1>5. \A j \in V : j # 1 => \E k \in V : to[k] = j /\ to[k] # 0
  <2>1. ASSUME NEW i \in 1 .. n, NEW j \in Visited(i, to), j # i
        PROVE  \E k \in Visited(i, to) : to[k] = j /\ to[k] # 0
    <3>1. DOMAIN to = 1 .. n
      BY <1>2
    <3> QED BY <2>1, <3>1, <1>3, VisitedFrom
  <2> QED BY <2>1, <1>0
<1>6. /\ DOMAIN nd = 1 .. n
      /\ \A j \in 1 .. n : /\ j \notin V => pri[nd[j]] = p(j)
                           /\ j \in V /\ to[j] # 0 => pri[nd[j]] = p(to[j])
                           /\ j \in V /\ to[j] = 0 => pri[nd[j]] = p(1)
  BY DEF Shifted
<1>7. \A j \in 2 .. n : Above(j) # 1 => p(Above(j)) <= p(j)
  OBVIOUS
<1> HIDE DEF V, nd, p
<1>8. ASSUME NEW j \in 1 .. n, j > 1, NEW m, m = Above(j)
      PROVE  pri[nd[m]] <= pri[nd[j]]
  <2>1. m \in 1 .. n /\ m < j /\ j \in 2 .. n /\ m = Above(j) /\ j > 1
    BY <1>8, Parent
  <2>2. p(m) \in Int /\ p(j) \in Int /\ p(1) \in Int
    BY <1>0, <2>1
  <2>3. IF to[m] # 0 THEN p(to[m]) <= p(j) ELSE p(1) <= p(j)
    BY <1>2, <2>1
  <2>4. j \in V => m \in V /\ to[m] = j
    <3> SUFFICES ASSUME j \in V PROVE m \in V /\ to[m] = j
      OBVIOUS
    <3>1. PICK k \in V : to[k] = j /\ to[k] # 0
      BY <1>5, <2>1
    <3>2. Above(j) = k
      BY <3>1, <1>2, <1>4
    <3> QED BY <3>1, <3>2, <2>1
  <2>5. CASE m \notin V
    <3>1. j \notin V /\ m # 1
      BY <2>4, <2>5, <1>4
    <3> QED BY <3>1, <2>1, <2>5, <1>6, <1>7
  <2>6. CASE m \in V /\ j \notin V
    <3>1. pri[nd[j]] = p(j)
      BY <2>1, <2>6, <1>6
    <3>2. pri[nd[m]] = IF to[m] # 0 THEN p(to[m]) ELSE p(1)
      BY <2>1, <2>6, <1>6
    <3> QED BY <3>1, <3>2, <2>3
  <2>7. CASE m \in V /\ j \in V
    <3>1. to[m] = j /\ pri[nd[m]] = p(j)
      BY <2>1, <2>4, <2>7, <1>6
    <3>2. CASE to[j] = 0
      <4>1. p(j) < p(1)
        BY <3>1, <1>2, <2>1
      <4>2. pri[nd[j]] = p(1)
        BY <3>2, <2>7, <1>6
      <4> QED BY <3>1, <4>1, <4>2, <2>2
    <3>3. CASE to[j] # 0
      <4>1. to[j] \in 2 .. n /\ Above(to[j]) = j
        BY <3>3, <1>2
      <4>2. p(j) <= p(to[j])
        <5>1. Above(to[j]) # 1
          BY <4>1, <2>1
        <5> QED BY <4>1, <5>1, <1>7
      <4>3. pri[nd[j]] = p(to[j])
        BY <3>3, <2>7, <1>6
      <4> QED BY <3>1, <4>2, <4>3
    <3> QED BY <3>2, <3>3
  <2> QED BY <2>5, <2>6, <2>7
<1> QED BY <1>6, <1>8 DEF Ordered, nd, to

-----------------------------------------------------------------------------
(***************************************************************************)
(* The operations of the queue.                                            *)
(***************************************************************************)
HeapOf(q, S, pri) == Queued(q, S) /\ Ordered(q.d, pri)

LEMMA QueuedFacts ==
  ASSUME NEW q, NEW S, Queued(q, S)
  PROVE  /\ DOMAIN q.d = 1 .. Len(q.d) /\ Len(q.d) \in Nat
         /\ OneEach(q.d)
         /\ S \subseteq Lines
         /\ \A j \in 1 .. Len(q.d) : q.d[j] \in S
         /\ \A x \in S : q.pos[x] \in 1 .. Len(q.d) /\ q.d[q.pos[x]] = x
         /\ \A x \in Lines \ S : q.pos[x] = 0
<1>1. DOMAIN q.d = 1 .. Len(q.d) /\ Len(q.d) \in Nat
  BY DEF Queued
<1>2. OneEach(q.d)
  BY DEF Queued, OneEach
<1>3. ASSUME NEW x \in S
      PROVE  x \in Lines /\ q.pos[x] \in 1 .. Len(q.d) /\ q.d[q.pos[x]] = x
  <2>1. PICK j \in 1 .. Len(q.d) : x = q.d[j]
    BY <1>1 DEF Queued, Elements
  <2> QED BY <2>1, <1>1 DEF Queued
<1>4. \A j \in 1 .. Len(q.d) : q.d[j] \in S
  BY <1>1 DEF Queued, Elements
<1>5. \A x \in Lines \ S : q.pos[x] = 0
  BY DEF Queued
<1> QED BY <1>1, <1>2, <1>3, <1>4, <1>5

LEMMA AppendArray ==
  ASSUME NEW m \in Nat, NEW d \in [1 .. m -> Lines], Len(d) = m, NEW x \in Lines
  PROVE  /\ Append(d, x) \in [1 .. m + 1 -> Lines] /\ Len(Append(d, x)) = m + 1
         /\ \A j \in 1 .. m : Append(d, x)[j] = d[j]
         /\ Append(d, x)[m + 1] = x
<1>1. d \in Seq(Lines)
  OBVIOUS
<1>2. /\ Append(d, x) \in Seq(Lines) /\ Len(Append(d, x)) = m + 1
      /\ \A j \in 1 .. m : Append(d, x)[j] = d[j]
      /\ Append(d, x)[m + 1] = x
  BY <1>1, AppendProperties
<1>3. Append(d, x) \in [1 .. m + 1 -> Lines]
  BY <1>2, LenProperties
<1> QED BY <1>2, <1>3

\* pqueue_insert
LEMMA InsertHeap ==
  ASSUME NEW q, NEW S, NEW pri \in [Lines -> Int], HeapOf(q, S, pri),
         NEW x \in Lines \ S
  PROVE  HeapOf(Insert(q, x, pri), S \cup {x}, pri)
<1> DEFINE n == Len(q.d) + 1
           d1 == Append(q.d, x)
           q1 == [q EXCEPT !.d = Append(@, x)]
<1>1. /\ DOMAIN q.d = 1 .. Len(q.d) /\ Len(q.d) \in Nat
      /\ OneEach(q.d) /\ S \subseteq Lines
      /\ \A j \in 1 .. Len(q.d) : q.d[j] \in S
      /\ \A y \in Lines \ S : q.pos[y] = 0
  BY QueuedFacts DEF HeapOf
<1>2. /\ q = [d |-> q.d, pos |-> q.pos] /\ q.d \in [1 .. Len(q.d) -> Lines]
      /\ q.pos \in [Lines -> Nat] /\ Elements(q.d) = S
      /\ \A j \in 1 .. Len(q.d) : q.pos[q.d[j]] = j
  BY <1>1 DEF HeapOf, Queued
<1>3. q1.d = d1 /\ q1.pos = q.pos
  BY <1>2
<1>4. /\ n \in Nat /\ n >= 1 /\ n \in 1 .. n
      /\ d1 \in [1 .. n -> Lines] /\ Len(d1) = n
      /\ \A j \in 1 .. n : j # n => j \in 1 .. Len(q.d) /\ d1[j] = q.d[j]
      /\ d1[n] = x
  <2>1. Len(q.d) \in Nat /\ q.d \in [1 .. Len(q.d) -> Lines] /\ x \in Lines
    BY <1>1, <1>2
  <2>2. d1 \in [1 .. n -> Lines] /\ Len(d1) = n
    BY <2>1, AppendArray
  <2>3. \A j \in 1 .. Len(q.d) : d1[j] = q.d[j]
    BY <2>1, AppendArray
  <2>4. d1[n] = x
    BY <2>1, AppendArray
  <2> HIDE DEF d1
  <2> QED BY <2>1, <2>2, <2>3, <2>4
<1> HIDE DEF n, d1, q1
<1>5. OneEach(d1)
  BY <1>1, <1>4 DEF OneEach
<1>6. Elements(d1) = S \cup {x}
  <2>1. \A j \in 1 .. n : d1[j] \in S \cup {x}
    BY <1>1, <1>4
  <2>2. x \in Elements(d1)
    BY <1>4 DEF Elements
  <2>3. ASSUME NEW y \in S PROVE y \in Elements(d1)
    <3>1. PICK j \in 1 .. Len(q.d) : y = q.d[j]
      BY <1>1, <1>2 DEF Elements
    <3>2. j \in 1 .. n /\ d1[j] = q.d[j]
      BY <1>1, <1>4 DEF n, d1
    <3> QED BY <3>1, <3>2, <1>4 DEF Elements
  <2>4. DOMAIN d1 = 1 .. n
    BY <1>4
  <2> QED BY <2>1, <2>2, <2>3, <2>4 DEF Elements
<1>7. Queued(BubbleUp(q1, n, pri), S \cup {x})
      /\ BubbleUp(q1, n, pri).d = Shifted(d1, n, UpFrom(d1, n, pri))
  <2>1. IsWay(UpFrom(d1, n, pri), n, Numbers(n))
    BY <1>4, UpWay
  <2>2. \A j \in 1 .. n : j # n => q1.pos[q1.d[j]] = j
    BY <1>2, <1>3, <1>4, ZenonT(30)
  <2>3. \A y \in Lines \ Elements(q1.d) : q1.pos[y] = 0
    BY <1>1, <1>3, <1>6
  <2>4. /\ q1.d \in [1 .. n -> Lines] /\ Len(q1.d) = n /\ OneEach(q1.d)
        /\ q1.pos \in [Lines -> Nat]
    BY <1>2, <1>3, <1>4, <1>5
  <2>5. Displaced(q1, n, n)
    BY <2>2, <2>3, <2>4 DEF Displaced
  <2>6. Queued(Sift(q1, n, UpFrom(d1, n, pri)), Elements(q1.d))
        /\ Sift(q1, n, UpFrom(d1, n, pri)).d = Shifted(q1.d, n, UpFrom(d1, n, pri))
    BY <1>4, <2>1, <2>5, SiftQueued
  <2> QED BY <2>6, <1>3, <1>6 DEF BubbleUp
<1>8. Ordered(Shifted(d1, n, UpFrom(d1, n, pri)), pri)
  <2>1. ASSUME NEW j \in 2 .. n, j # n PROVE pri[d1[Above(j)]] <= pri[d1[j]]
    <3>1. j \in 1 .. Len(q.d) /\ j > 1 /\ Above(j) \in 1 .. n /\ Above(j) < n /\ j \in 1 .. n
      BY <1>4, <2>1, Parent
    <3>2. pri[q.d[Above(j)]] <= pri[q.d[j]]
      BY <3>1, <1>1 DEF HeapOf, Ordered
    <3>3. d1[j] = q.d[j] /\ d1[Above(j)] = q.d[Above(j)]
      BY <3>1, <1>4, <2>1
    <3> QED BY <3>2, <3>3
  <2>2. ASSUME NEW j \in 2 .. n PROVE Above(j) # n
    BY <1>4, Parent
  <2>3. TooLow(d1, n, n, pri)
    BY <2>1, <2>2 DEF TooLow
  <2> QED BY <1>4, <2>3, UpOrdered
<1>9. Insert(q, x, pri) = BubbleUp(q1, n, pri)
  BY DEF Insert, q1, n
<1> QED BY <1>7, <1>8, <1>9 DEF HeapOf

\* pqueue_change_priority of a line that becomes cheaper.
LEMMA RaiseHeap ==
  ASSUME NEW q, NEW S, NEW old \in [Lines -> Int], HeapOf(q, S, old),
         NEW x \in S, NEW pri \in [Lines -> Int], pri[x] <= old[x],
         \A y \in Lines : y # x => pri[y] = old[y]
  PROVE  HeapOf(BubbleUp(q, q.pos[x], pri), S, pri)
<1> DEFINE n == Len(q.d)
           d == q.d
           i == q.pos[x]
<1>1. /\ DOMAIN d = 1 .. n /\ n \in Nat /\ OneEach(d) /\ S \subseteq Lines
      /\ \A j \in 1 .. n : d[j] \in S
      /\ i \in 1 .. n /\ d[i] = x
      /\ \A y \in Lines \ S : q.pos[y] = 0
  BY QueuedFacts DEF HeapOf
<1>2. /\ d \in [1 .. n -> Lines] /\ q.pos \in [Lines -> Nat] /\ Elements(d) = S
      /\ \A j \in 1 .. n : q.pos[d[j]] = j
  BY <1>1 DEF HeapOf, Queued
<1>3. \A j \in 1 .. n : j > 1 => old[d[Above(j)]] <= old[d[j]]
  BY <1>1 DEF HeapOf, Ordered
<1> HIDE DEF n, d, i
<1>4. \A j \in 1 .. n : j # i => pri[d[j]] = old[d[j]] /\ d[j] \in Lines
  BY <1>1, <1>2 DEF OneEach
<1>5. pri[d[i]] <= old[d[i]] /\ \A j \in 1 .. n : pri[d[j]] \in Int /\ old[d[j]] \in Int
  BY <1>1, <1>2
<1>6. TooLow(d, n, i, pri)
  <2>1. \A j \in 2 .. n : j \in 1 .. n /\ j > 1 /\ Above(j) \in 1 .. n /\ Above(j) < j
    BY <1>1, Parent
  <2>2. \A j \in 2 .. n : j # i => pri[d[Above(j)]] <= pri[d[j]]
    <3> SUFFICES ASSUME NEW j \in 2 .. n, j # i PROVE pri[d[Above(j)]] <= pri[d[j]]
      OBVIOUS
    <3>1. old[d[Above(j)]] <= old[d[j]] /\ pri[d[j]] = old[d[j]]
      BY <2>1, <1>3, <1>4
    <3>2. CASE Above(j) = i
      BY <3>1, <3>2, <2>1, <1>5
    <3>3. CASE Above(j) # i
      BY <3>1, <3>3, <2>1, <1>4
    <3> QED BY <3>2, <3>3
  <2>3. \A j \in 2 .. n : i > 1 /\ Above(j) = i => pri[d[Above(i)]] <= pri[d[j]]
    <3> SUFFICES ASSUME NEW j \in 2 .. n, i > 1, Above(j) = i
                 PROVE  pri[d[Above(i)]] <= pri[d[j]]
      OBVIOUS
    <3>1. i \in 2 .. n /\ Above(i) \in 1 .. n /\ Above(i) # i /\ j # i /\ j \in 1 .. n
      BY <1>1, <2>1
    <3>2. old[d[i]] <= old[d[j]] /\ old[d[Above(i)]] <= old[d[i]]
      BY <3>1, <2>1, <1>3
    <3>3. pri[d[Above(i)]] = old[d[Above(i)]] /\ pri[d[j]] = old[d[j]]
      BY <3>1, <1>4
    <3> QED BY <3>1, <3>2, <3>3, <1>5
  <2> QED BY <2>2, <2>3 DEF TooLow
<1>7. Displaced(q, n, i)
  <2>1. \A j \in 1 .. n : j # i => q.pos[q.d[j]] = j
    BY <1>2 DEF d
  <2>2. \A y \in Lines \ Elements(q.d) : q.pos[y] = 0
    BY <1>1, <1>2 DEF d
  <2>3. Len(q.d) = n
    BY DEF n
  <2> QED BY <2>1, <2>2, <2>3, <1>1, <1>2 DEF Displaced, d
<1>8. /\ Queued(Sift(q, i, UpFrom(d, i, pri)), S)
      /\ Sift(q, i, UpFrom(d, i, pri)).d = Shifted(d, i, UpFrom(d, i, pri))
  <2>1. IsWay(UpFrom(d, i, pri), n, Numbers(n))
    BY <1>1, UpWay
  <2>2. /\ Queued(Sift(q, i, UpFrom(d, i, pri)), Elements(q.d))
        /\ Sift(q, i, UpFrom(d, i, pri)).d = Shifted(q.d, i, UpFrom(d, i, pri))
    BY <1>1, <1>7, <2>1, SiftQueued
  <2> QED BY <2>2, <1>2 DEF d
<1>9. Ordered(Shifted(d, i, UpFrom(d, i, pri)), pri)
  BY <1>1, <1>2, <1>6, UpOrdered
<1>10. BubbleUp(q, q.pos[x], pri) = Sift(q, i, UpFrom(d, i, pri))
  BY DEF BubbleUp, d, i
<1> QED BY <1>8, <1>9, <1>10 DEF HeapOf

\* pqueue_pop, and the reset of the position of the line that is taken.
LEMMA PopHeap ==
  ASSUME NEW q, NEW S, NEW pri \in [Lines -> Int], HeapOf(q, S, pri), q.d # << >>
  PROVE  HeapOf([Pop(q, pri) EXCEPT !.pos[q.d[1]] = 0], S \ {q.d[1]}, pri)
<1> DEFINE n == Len(q.d)
           h == q.d[1]
           m == n - 1
           d1 == [j \in 1 .. m |-> IF j = 1 THEN q.d[n] ELSE q.d[j]]
           q1 == [q EXCEPT !.d = d1]
           q2 == [d |-> d1, pos |-> [q.pos EXCEPT ![h] = 0]]
           to == DownFrom(d1, 1, pri)
<1>1. /\ DOMAIN q.d = 1 .. n /\ n \in Nat /\ OneEach(q.d) /\ S \subseteq Lines
      /\ \A j \in 1 .. n : q.d[j] \in S
      /\ \A y \in Lines \ S : q.pos[y] = 0
  BY QueuedFacts DEF HeapOf
<1>2. /\ q = [d |-> q.d, pos |-> q.pos] /\ q.d \in [1 .. n -> Lines]
      /\ q.pos \in [Lines -> Nat] /\ Elements(q.d) = S
      /\ \A j \in 1 .. n : q.pos[q.d[j]] = j
  BY <1>1 DEF HeapOf, Queued
<1>3. n >= 1 /\ h \in S /\ h \in Lines
  <2>1. n # 0
    <3> SUFFICES ASSUME n = 0 PROVE FALSE
      OBVIOUS
    <3>1. q.d \in Seq(Lines)
      BY <1>1, <1>2
    <3> QED BY <3>1, EmptySeq
  <2> QED BY <2>1, <1>1
<1>4. CASE n = 1
  <2>1. S = {h}
    BY <1>1, <1>2, <1>4 DEF Elements
  <2>2. [Pop(q, pri) EXCEPT !.pos[q.d[1]] = 0]
          = [d |-> << >>, pos |-> [q.pos EXCEPT ![h] = 0]]
    BY <1>2, <1>3, <1>4 DEF Pop
  <2> DEFINE np == [q.pos EXCEPT ![h] = 0]
             r == [d |-> << >>, pos |-> np]
  <2>3. r.d = << >> /\ r.pos = np /\ r = [d |-> r.d, pos |-> r.pos]
    OBVIOUS
  <2>4. np \in [Lines -> Nat] /\ \A x \in Lines : np[x] = 0
    BY <1>1, <1>2, <1>3, <2>1
  <2> HIDE DEF r, np
  <2>5. /\ Len(r.d) = 0 /\ DOMAIN r.d = {} /\ r.d \in [1 .. 0 -> Lines]
    BY <2>3
  <2>6. Elements(r.d) = {}
    BY <2>5 DEF Elements
  <2>7. Queued(r, S \ {h})
    BY <2>1, <2>3, <2>4, <2>5, <2>6 DEF Queued
  <2>8. Ordered(r.d, pri)
    BY <2>5 DEF Ordered
  <2> QED BY <2>2, <2>7, <2>8 DEF HeapOf, r, np
<1>5. CASE n # 1
  <2>0. n \in Nat /\ n >= 1 /\ n # 1 /\ q.d \in [1 .. n -> Lines]
    BY <1>1, <1>2, <1>3, <1>5
  <2> HIDE DEF n
  <2>1. m \in Nat /\ m >= 1 /\ 1 \in 1 .. m /\ 1 .. m \subseteq 1 .. n /\ n \in 1 .. n /\ n > m
    BY <2>0
  <2> HIDE DEF m
  <2>2. /\ d1 \in [1 .. m -> Lines] /\ Len(d1) = m /\ DOMAIN d1 = 1 .. m
        /\ d1[1] = q.d[n] /\ \A j \in 1 .. m : j # 1 => d1[j] = q.d[j]
    BY <2>0, <2>1
  <2> HIDE DEF d1
  <2>3. q1 = [d |-> d1, pos |-> q.pos]
    BY <1>2
  <2>4. Pop(q, pri) = Sift(q1, 1, to)
    <3>1. Pop(q, pri) = PercolateDown(q1, 1, pri)
      BY <1>5 DEF Pop, n, m, d1
    <3>2. q1.d = d1
      BY <2>3
    <3> QED BY <3>1, <3>2 DEF PercolateDown
  <2> HIDE DEF to
  <2>5. OneEach(d1)
    <3>1. \A j, k \in 1 .. n : q.d[j] = q.d[k] => j = k
      BY <1>1 DEF OneEach
    <3> SUFFICES ASSUME NEW j \in 1 .. m, NEW k \in 1 .. m, d1[j] = d1[k] PROVE j = k
      BY <2>2 DEF OneEach
    <3>2. j \in 1 .. n /\ k \in 1 .. n /\ j # n /\ k # n /\ n \in 1 .. n
      BY <2>1
    <3> QED BY <2>2, <3>1, <3>2
  <2>6. \A j \in 1 .. n : q.d[j] = h <=> j = 1
    BY <1>1, <1>3 DEF OneEach
  <2>7. Elements(d1) = S \ {h}
    <3>1. \A j \in 1 .. m : d1[j] \in S \ {h}
      BY <1>1, <2>1, <2>2, <2>6
    <3>2. ASSUME NEW y \in S \ {h} PROVE y \in Elements(d1)
      <4>1. PICK j \in 1 .. n : y = q.d[j]
        BY <1>1, <1>2 DEF Elements
      <4>2. j # 1
        BY <4>1, <2>6
      <4>3. CASE j = n
        BY <4>1, <4>3, <2>1, <2>2 DEF Elements
      <4>4. CASE j # n
        <5>1. j \in 1 .. m
          BY <4>4, <1>1 DEF m
        <5> QED BY <4>1, <4>2, <5>1, <2>2 DEF Elements
      <4> QED BY <4>3, <4>4
    <3> QED BY <3>1, <3>2, <2>2 DEF Elements
  <2>8. Displaced(q2, m, 1)
    <3>1. q2.d = d1 /\ q2.pos = [q.pos EXCEPT ![h] = 0]
      OBVIOUS
    <3> HIDE DEF q2
    <3>2. q2.pos \in [Lines -> Nat]
      <4>1. ASSUME NEW f \in [Lines -> Nat], NEW x PROVE [f EXCEPT ![x] = 0] \in [Lines -> Nat]
        OBVIOUS
      <4>2. q.pos \in [Lines -> Nat]
        BY <1>2
      <4>3. [q.pos EXCEPT ![h] = 0] \in [Lines -> Nat]
        BY <4>1, <4>2, Zenon
      <4> QED BY <3>1, <4>3, Zenon
    <3>3. ASSUME NEW j \in 1 .. m, j # 1 PROVE q2.pos[d1[j]] = j
      BY <3>1, <3>3, <1>2, <2>1, <2>2, <2>6
    <3>4. ASSUME NEW y \in Lines \ (S \ {h}) PROVE q2.pos[y] = 0
      BY <3>1, <1>1, <1>2, <1>3
    <3> QED BY <3>1, <3>2, <3>3, <3>4, <2>2, <2>5, <2>7 DEF Displaced
  <2>9. IsWay(to, m, Countdown(m))
    <3>1. \A k \in 1 .. m : pri[d1[k]] \in Int
      BY <2>2
    <3> QED BY <2>1, <2>2, <3>1, DownWay DEF to
  <2>10. /\ Queued(Sift(q2, 1, to), S \ {h})
         /\ Sift(q2, 1, to).d = Shifted(d1, 1, to)
    <3>1. q2.d = d1
      OBVIOUS
    <3> HIDE DEF q2
    <3>2. ASSUME NEW i \in 1 .. m, Displaced(q2, m, i)
          PROVE  /\ Queued(Sift(q2, i, to), Elements(q2.d))
                 /\ Sift(q2, i, to).d = Shifted(q2.d, i, to)
      BY <2>1, <2>9, <3>2, SiftQueued
    <3> QED BY <2>1, <2>7, <2>8, <3>1, <3>2
  <2>11. [Sift(q1, 1, to) EXCEPT !.pos[h] = 0] = Sift(q2, 1, to)
    <3> DEFINE V == Visited(1, to)
               nd == Shifted(d1, 1, to)
               P(f) == [x \in Lines |-> IF \E j \in V : nd[j] = x
                                        THEN CHOOSE j \in V : nd[j] = x ELSE f[x]]
    <3>1. /\ Sift(q1, 1, to) = [d |-> nd, pos |-> P(q.pos)]
          /\ Sift(q2, 1, to) = [d |-> nd, pos |-> P([q.pos EXCEPT ![h] = 0])]
      BY <2>3 DEF Sift
    <3>2. ~ \E j \in V : nd[j] = h
      <4>1. Elements(nd) = S \ {h}
        BY <2>10 DEF Queued
      <4>2. V \subseteq DOMAIN nd
        BY <2>2 DEF Shifted, Visited, to, DownFrom
      <4> HIDE DEF V, nd
      <4> QED BY <4>1, <4>2 DEF Elements
    <3>3. [P(q.pos) EXCEPT ![h] = 0] = P([q.pos EXCEPT ![h] = 0])
      <4> HIDE DEF V, nd
      <4> QED BY <3>2, <1>2, <1>3
    <3> HIDE DEF P, nd
    <3> QED BY <3>1, <3>3
  <2>12. Ordered(Shifted(d1, 1, to), pri)
    <3>1. ASSUME NEW j \in 2 .. m, Above(j) # 1 PROVE pri[d1[Above(j)]] <= pri[d1[j]]
      <4>1. /\ j \in 1 .. m /\ j > 1 /\ j # 1 /\ Above(j) \in 1 .. m /\ j \in 1 .. n
        BY <2>1, <3>1, Parent
      <4>2. pri[q.d[Above(j)]] <= pri[q.d[j]]
        BY <4>1, <1>1 DEF HeapOf, Ordered
      <4> QED BY <4>1, <4>2, <3>1, <2>2
    <3> QED BY <2>1, <2>2, <3>1, DownOrdered DEF to
  <2> QED BY <2>4, <2>10, <2>11, <2>12 DEF HeapOf
<1> QED BY <1>4, <1>5

\* Priorities of lines that are not in the queue do not matter.
LEMMA HeapKept ==
  ASSUME NEW q, NEW S, NEW pri, HeapOf(q, S, pri), NEW new,
         \A x \in S : new[x] = pri[x]
  PROVE  HeapOf(q, S, new)
<1>1. /\ DOMAIN q.d = 1 .. Len(q.d) /\ Len(q.d) \in Nat
      /\ \A j \in 1 .. Len(q.d) : q.d[j] \in S
  BY QueuedFacts DEF HeapOf
<1> DEFINE n == Len(q.d)
<1>2. ASSUME NEW j \in 1 .. n, j > 1 PROVE new[q.d[Above(j)]] <= new[q.d[j]]
  <2>1. pri[q.d[Above(j)]] <= pri[q.d[j]]
    BY <1>1, <1>2 DEF HeapOf, Ordered
  <2>2. j \in Nat /\ n \in Nat
    BY <1>1
  <2>3. Above(j) \in 1 .. n
    <3> HIDE DEF n
    <3> QED BY <1>2, <2>2, Parent
  <2> QED BY <1>1, <2>1, <2>3
<1> QED BY <1>1, <1>2 DEF HeapOf, Ordered

\* The first element of a heap has the least priority.
LEMMA FirstLeast ==
  ASSUME NEW q, NEW S, NEW pri \in [Lines -> Int], HeapOf(q, S, pri), NEW x \in S
  PROVE  q.d # << >> /\ q.d[1] \in S /\ pri[q.d[1]] <= pri[x]
<1> DEFINE n == Len(q.d)
           p(j) == pri[q.d[j]]
           B == {j \in 1 .. n : p(j) < p(1)}
<1>1. /\ DOMAIN q.d = 1 .. n /\ n \in Nat /\ S \subseteq Lines
      /\ \A j \in 1 .. n : q.d[j] \in S
      /\ q.pos[x] \in 1 .. n /\ q.d[q.pos[x]] = x
  BY QueuedFacts DEF HeapOf
<1>2. \A j \in 1 .. n : p(j) \in Int
  BY <1>1
<1>3. \A j \in 1 .. n : j > 1 => p(Above(j)) <= p(j)
  BY <1>1 DEF HeapOf, Ordered
<1>4. q.d # << >>
  BY <1>1
<1> HIDE DEF n, p
<1>5. 1 \in 1 .. n
  BY <1>1
<1>6. B = {}
  <2> SUFFICES ASSUME B # {} PROVE FALSE
    OBVIOUS
  <2>1. B \in SUBSET Nat
    BY <1>1
  <2>2. PICK j \in B : \A k \in B : j <= k
    <3> HIDE DEF B
    <3> QED BY <2>1, LeastNatural
  <2>3. j \in 1 .. n /\ j > 1 /\ p(j) < p(1) /\ j \in Nat
    BY <1>1, <1>2, <1>5
  <2>4. Above(j) \in 1 .. n /\ Above(j) < j
    BY <1>1, <2>3, Parent
  <2>5. p(Above(j)) < p(1)
    BY <1>2, <1>3, <1>5, <2>3, <2>4
  <2>6. Above(j) \in B
    BY <2>4, <2>5
  <2> QED BY <2>2, <2>4, <2>6, <1>1
<1>7. p(1) <= p(q.pos[x])
  BY <1>1, <1>2, <1>5, <1>6
<1> QED BY <1>1, <1>4, <1>5, <1>7 DEF p

\* The length of the array is the number of lines in the queue.
LEMMA QueueLength ==
  ASSUME NEW q, NEW S, Queued(q, S)
  PROVE  Len(q.d) = Cardinality(S)
<1> DEFINE n == Len(q.d)
<1>1. /\ DOMAIN q.d = 1 .. n /\ n \in Nat /\ OneEach(q.d)
      /\ \A j \in 1 .. n : q.d[j] \in S
      /\ \A x \in S : q.pos[x] \in 1 .. n /\ q.d[q.pos[x]] = x
  BY QueuedFacts
<1>2. q.d \in [1 .. n -> S]
  BY <1>1 DEF Queued
<1>3. \A j, k \in 1 .. n : q.d[j] = q.d[k] => j = k
  BY <1>1 DEF OneEach
<1>4. \A x \in S : \E j \in 1 .. n : q.d[j] = x
  BY <1>1
<1> HIDE DEF n
<1>5. ExistsBijection(1 .. n, S)
  BY <1>2, <1>3, <1>4, Fun_IsBij DEF ExistsBijection
<1>6. Cardinality(S) = n
  BY <1>1, <1>5, FS_CountingElements
<1> QED BY <1>6 DEF n

-----------------------------------------------------------------------------
(***************************************************************************)
(* The FTL and its queue.                                                  *)
(***************************************************************************)
\* The queue is a heap of the victim lines, sorted by their counters.
HeapInv == HeapOf(queue, victim, vpc)

LEMMA HeapInit == VictimInit => HeapInv
<1> SUFFICES ASSUME VictimInit PROVE HeapInv
  OBVIOUS
<1> DEFINE pos == [i \in Lines |-> 0]
<1>1. queue = [d |-> << >>, pos |-> pos] /\ victim = {}
  BY DEF VictimInit, Init
<1>2. /\ queue.d = << >> /\ queue.pos = pos /\ queue = [d |-> queue.d, pos |-> queue.pos]
  BY <1>1
<1>3. pos \in [Lines -> Nat] /\ \A i \in Lines : pos[i] = 0
  OBVIOUS
<1> HIDE DEF pos
<1>4. Len(queue.d) = 0 /\ DOMAIN queue.d = {} /\ queue.d \in [1 .. 0 -> Lines]
  BY <1>2
<1>5. Elements(queue.d) = {}
  BY <1>4 DEF Elements
<1>6. Queued(queue, victim)
  BY <1>1, <1>2, <1>3, <1>4, <1>5 DEF Queued
<1> QED BY <1>4, <1>6 DEF HeapInv, HeapOf, Ordered

\* Steps of the FTL that leave the victims and their counters alone.
LEMMA HeapAside ==
  ASSUME HeapInv, UNCHANGED queue, victim' = victim,
         \A x \in victim : vpc'[x] = vpc[x]
  PROVE  HeapInv'
BY HeapKept DEF HeapInv

\* A used-up line that is not entirely valid enters the queue.
LEMMA HeapRetire ==
  ASSUME TypeOK, HeapInv, NEW i \in Lines \ victim, RetireLine(i),
         UNCHANGED vpc, queue' = Retired(i)
  PROVE  HeapInv'
<1>1. vpc \in [Lines -> Int]
  BY DEF TypeOK
<1>2. CASE vpc[i] = PgsPerLine
  BY <1>2, HeapAside DEF RetireLine, Retired
<1>3. CASE vpc[i] # PgsPerLine
  <2>1. HeapOf(Insert(queue, i, vpc), victim \cup {i}, vpc)
    BY <1>1, InsertHeap DEF HeapInv
  <2> QED BY <1>3, <2>1 DEF HeapInv, RetireLine, Retired
<1> QED BY <1>2, <1>3

\* mark_page_invalid: a victim moves up, a full line enters the queue.
LEMMA HeapWrite ==
  ASSUME Core, HeapInv, NEW l \in Lpns, NEW w \in Writers, HostOrCleanerWrite(l, w)
  PROVE  HeapInv'
<1>1. CASE maptbl[l] = UNMAPPED
  BY <1>1, HeapAside DEF HostOrCleanerWrite, WritePage
<1>2. CASE maptbl[l] # UNMAPPED
  <2> DEFINE i == maptbl[l][1]
             q == IF queue.pos[i] # 0 THEN ChangePriority(queue, i, vpc[i], vpc') ELSE queue
  <2>1. /\ pc = "idle" /\ InvalidateOld(maptbl[l]) /\ queue' = MarkInvalid(i)
    BY <1>2 DEF HostOrCleanerWrite, WritePage
  <2>2. maptbl[l] \in Pages
    BY <1>2 DEF Core, TypeOK
  <2>3. i \in Lines
    BY <2>2, PageParts
  <2> HIDE DEF i
  <2>4. /\ vpc' = [vpc EXCEPT ![i] = @ - 1]
        /\ IF vpc[i] = PgsPerLine
           THEN victim' = victim \cup {i} ELSE victim' = victim
    BY <2>1 DEF InvalidateOld, i
  <2>5. vpc \in [Lines -> Int]
    BY DEF Core, TypeOK
  <2>6. /\ vpc' \in [Lines -> Int]
        /\ vpc'[i] < vpc[i]
        /\ \A y \in Lines : y # i => vpc'[y] = vpc[y]
    BY <2>3, <2>4, <2>5
  <2>7. i \in victim => vpc[i] # PgsPerLine
    BY <2>1, <2>3, FullIff DEF Core, LinePlaces
  <2>8. /\ queue.pos[i] # 0 <=> i \in victim
        /\ victim \subseteq Lines
    BY <2>3 DEF HeapInv, HeapOf, Queued, Core, TypeOK
  <2>9. CASE i \in victim
    <3>1. HeapOf(BubbleUp(queue, queue.pos[i], vpc'), victim, vpc')
      <4>1. vpc'[i] <= vpc[i]
        BY <2>3, <2>5, <2>6
      <4> QED BY <2>5, <2>6, <2>9, <4>1, RaiseHeap DEF HeapInv
    <3>2. queue' = BubbleUp(queue, queue.pos[i], vpc') /\ victim' = victim
      BY <2>1, <2>4, <2>6, <2>7, <2>8, <2>9 DEF MarkInvalid, ChangePriority
    <3> QED BY <3>1, <3>2 DEF HeapInv
  <2>10. CASE i \notin victim
    <3>1. HeapOf(queue, victim, vpc')
      BY <2>6, <2>8, <2>10, HeapKept DEF HeapInv
    <3>2. CASE vpc[i] = PgsPerLine
      <4>1. HeapOf(Insert(queue, i, vpc'), victim \cup {i}, vpc')
        BY <2>3, <2>6, <2>10, <3>1, InsertHeap
      <4>2. queue' = Insert(queue, i, vpc') /\ victim' = victim \cup {i}
        BY <2>1, <2>4, <2>8, <2>10, <3>2 DEF MarkInvalid
      <4> QED BY <4>1, <4>2 DEF HeapInv
    <3>3. CASE vpc[i] # PgsPerLine
      <4>1. queue' = queue /\ victim' = victim
        BY <2>1, <2>4, <2>8, <2>10, <3>3 DEF MarkInvalid
      <4> QED BY <3>1, <4>1 DEF HeapInv
    <3> QED BY <3>2, <3>3
  <2> QED BY <2>9, <2>10
<1> QED BY <1>1, <1>2

LEMMA HeapFinish ==
  ASSUME Core, HeapInv, VictimFinish
  PROVE  HeapInv'
<1> USE DEF lineVars
<1>1. TypeOK
  BY DEF Core
<1>2. pc # "oops" =>
        /\ wp.line \in Lines \ victim
        /\ gc_wp.line \in Lines \ victim
        /\ gcline \notin victim
  BY DEF Core, TypeOK, WritePointer, LinePlaces, InUse
<1>3. vpc \in [Lines -> Int] /\ victim \subseteq Lines
  BY DEF Core, TypeOK
<1>4. ASSUME NEW i, NEW n, i \notin victim, vpc' = [vpc EXCEPT ![i] = n]
      PROVE  \A x \in victim : vpc'[x] = vpc[x]
  BY <1>3, <1>4
<1>5. CASE ProgramPage /\ UNCHANGED queue
  <2>1. /\ pc = "program" /\ victim' = victim
        /\ vpc' = [vpc EXCEPT ![wp.line] = vpc[wp.line] + 1]
    BY <1>5 DEF ProgramPage, Map, NewPage
  <2> QED BY <1>2, <1>4, <1>5, <2>1, HeapAside
<1>6. CASE UserStay /\ UNCHANGED queue
  BY <1>6, HeapAside DEF UserStay, EndOfRequest
<1>7. CASE RefillOnly /\ UNCHANGED queue
  BY <1>7, HeapAside DEF RefillOnly
<1>8. CASE GcDone /\ UNCHANGED queue
  <2>1. pc = "gc" /\ victim' = victim /\ vpc' = [vpc EXCEPT ![gcline] = 0]
    BY <1>8 DEF GcDone
  <2> QED BY <1>2, <1>4, <1>8, <2>1, HeapAside
<1>9. ASSUME NEW d \in Dies, UserNextDie(d), UNCHANGED queue PROVE HeapInv'
  BY <1>9, HeapAside DEF UserNextDie, EndOfRequest
<1>10. ASSUME NEW s \in todo, GcSkip(s), UNCHANGED queue PROVE HeapInv'
  BY <1>10, HeapAside DEF GcSkip
<1>11. ASSUME NEW s \in todo, GcCopy(s), UNCHANGED queue PROVE HeapInv'
  <2>1. /\ pc = "gc" /\ victim' = victim
        /\ vpc' = [vpc EXCEPT ![gc_wp.line] = vpc[gc_wp.line] + 1]
    BY <1>11 DEF GcCopy, Map, NewPage
  <2> QED BY <1>2, <1>4, <1>11, <2>1, HeapAside
<1>12. ASSUME NEW s \in todo, GcWithinLine(s), UNCHANGED queue PROVE HeapInv'
  BY <1>12, HeapAside DEF GcWithinLine, GcAdvanced
<1>13. CASE UserNextLine /\ queue' = Retired(wp.line)
  <2>1. pc = "advance" /\ RetireLine(wp.line) /\ UNCHANGED vpc
    BY <1>13 DEF UserNextLine, EndOfRequest
  <2> QED BY <1>1, <1>2, <1>13, <2>1, HeapRetire
<1>14. ASSUME NEW s \in todo, GcNextLine(s), queue' = Retired(gc_wp.line) PROVE HeapInv'
  <2>1. pc = "gcadvance" /\ RetireLine(gc_wp.line) /\ UNCHANGED vpc
    BY <1>14 DEF GcNextLine, GcAdvanced
  <2> QED BY <1>1, <1>2, <1>14, <2>1, HeapRetire
<1>15. CASE queue.d # << >> /\ SelectVictim(queue.d[1]) /\ queue' = Taken
  <2>1. HeapOf(Taken, victim \ {queue.d[1]}, vpc)
    BY <1>3, <1>15, PopHeap DEF HeapInv, Taken
  <2>2. victim' = victim \ {queue.d[1]} /\ vpc' = vpc
    BY <1>15 DEF SelectVictim
  <2> QED BY <1>15, <2>1, <2>2 DEF HeapInv
<1> QED BY <1>5, <1>6, <1>7, <1>8, <1>9, <1>10, <1>11, <1>12, <1>13, <1>14, <1>15
        DEF VictimFinish

\* Every step of the FTL with its queue is a step of the FTL: the first line
\* of the queue is one that ConvFtl allows it to take.
LEMMA VictimStep ==
  ASSUME HeapInv, VictimNext
  PROVE  Next
<1>1. ASSUME queue.d # << >>, SelectVictim(queue.d[1]) PROVE Next
  <2>1. DOMAIN queue.d = 1 .. Len(queue.d) /\ Len(queue.d) \in Nat
        /\ \A j \in 1 .. Len(queue.d) : queue.d[j] \in victim
    BY QueuedFacts DEF HeapInv, HeapOf
  <2>2. Len(queue.d) # 0
    BY <1>1, <2>1, EmptySeq DEF HeapInv, HeapOf, Queued
  <2>3. queue.d[1] \in victim
    BY <2>1, <2>2
  <2> QED BY <1>1, <2>3 DEF Next
<1>2. ASSUME NEW l \in Lpns, NEW w \in Writers, HostOrCleanerWrite(l, w) PROVE Next
  BY <1>2 DEF HostOrCleanerWrite, Next
<1> QED BY <1>1, <1>2 DEF VictimNext, VictimFinish, Next

LEMMA HeapStep ==
  Core /\ HeapInv /\ [VictimNext]_<<vars, queue>> => (Core /\ HeapInv)'
<1> SUFFICES ASSUME Core, HeapInv, [VictimNext]_<<vars, queue>>
             PROVE  Core' /\ HeapInv'
  OBVIOUS
<1>1. CASE VictimNext
  <2>1. Core'
    BY <1>1, VictimStep, CoreStep
  <2>2. HeapInv'
    BY <1>1, HeapFinish, HeapWrite DEF VictimNext
  <2> QED BY <2>1, <2>2
<1>2. CASE UNCHANGED <<vars, queue>>
  <2>1. Core'
    BY <1>2, CoreStutter
  <2>2. HeapInv'
    BY <1>2, HeapAside DEF vars
  <2> QED BY <2>1, <2>2
<1> QED BY <1>1, <1>2

LEMMA HeapHolds == VictimSpec => [](Core /\ HeapInv)
<1>1. VictimInit => Core /\ HeapInv
  BY CoreInit, HeapInit DEF VictimInit
<1> QED BY <1>1, HeapStep, PTL DEF VictimSpec

\* The invariant is what VictimHeap says.
LEMMA HeapFacts == ASSUME HeapInv PROVE VictimHeap
<1>1. Len(queue.d) = Cardinality(victim)
  BY QueueLength DEF HeapInv, HeapOf
<1>2. \A i \in Lines : queue.pos[i] # 0 <=> i \in victim
  BY DEF HeapInv, HeapOf, Queued
<1>3. \A j \in DOMAIN queue.d : queue.pos[queue.d[j]] = j
  BY DEF HeapInv, HeapOf, Queued
<1>4. \A j \in DOMAIN queue.d : j > 1 => vpc[queue.d[j \div 2]] <= vpc[queue.d[j]]
  BY DEF HeapInv, HeapOf, Ordered, Above
<1> QED BY <1>1, <1>2, <1>3, <1>4 DEF VictimHeap

(***************************************************************************)
(* The binary heap of pqueue.c stays the heap of the victim lines while    *)
(* mark_page_invalid, advance_write_pointer and select_victim_line use it  *)
(* and the FTL changes the counters it is sorted by.                       *)
(***************************************************************************)
THEOREM QueueIsHeap == VictimSpec => []VictimHeap
BY HeapFacts, HeapHolds, PTL

(***************************************************************************)
(* ConvFtl lets do_gc take any of the cheapest victims; taking the first   *)
(* line of the queue implements that.                                      *)
(***************************************************************************)
THEOREM QueueImplementsChoice == VictimSpec => Spec
<1>1. VictimInit => Init
  BY DEF VictimInit
<1>2. HeapInv /\ [VictimNext]_<<vars, queue>> => [Next]_vars
  BY VictimStep
<1> QED BY <1>1, <1>2, HeapHolds, PTL DEF VictimSpec, Spec

\* What select_victim_line needs of the queue: it has a first line whenever
\* there is a victim, that line is a victim, and none is cheaper.
FirstIsCheapest ==
  \A x \in victim : /\ queue.d # << >>
                    /\ queue.d[1] \in victim
                    /\ vpc[queue.d[1]] <= vpc[x]

(***************************************************************************)
(* The queue never keeps do_gc from a collection that ConvFtl allows: the  *)
(* line that pqueue_peek gives is always one of the cheapest victims.      *)
(***************************************************************************)
THEOREM CheapestFirst == VictimSpec => []FirstIsCheapest
<1>1. Core /\ HeapInv => FirstIsCheapest
  BY FirstLeast DEF Core, TypeOK, HeapInv, FirstIsCheapest
<1> QED BY <1>1, HeapHolds, PTL

=============================================================================
