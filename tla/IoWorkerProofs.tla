--------------------------- MODULE IoWorkerProofs ---------------------------
(***************************************************************************)
(* Proofs about IoWorker: the lists of the work queue stay lists, sorted   *)
(* as far as the insertion keeps them, whatever the worker is doing; no    *)
(* unit of write buffer is lost; and every request is copied once and then *)
(* answered once.                                                          *)
(***************************************************************************)
EXTENDS IoWorker, FiniteSetTheorems, TLAPS

\* A set of naturals has a least element, which is what inductions use.
LEMMA LeastNatural ==
  ASSUME NEW T \in SUBSET Nat, T # {}
  PROVE  \E x \in T : \A y \in T : x <= y
<1>1. PICK m \in T : TRUE
  OBVIOUS
<1> DEFINE B == 1 .. m
           R == StrictSubsetOrdering(B)
           U == {1 .. x : x \in {y \in T : y <= m}}
<1>2. IsWellFoundedOn(R, SUBSET B)
  <2>1. IsFiniteSet(B)
    BY FS_Interval
  <2> HIDE DEF B
  <2>2. FiniteSubsetsOf(B) = SUBSET B
    BY <2>1, FS_FiniteSubsetsOfFinite
  <2>3. IsWellFoundedOn(R, FiniteSubsetsOf(B))
    BY FS_StrictSubsetOrderingWellFounded
  <2> QED BY <2>2, <2>3
<1>3. U \in SUBSET SUBSET B /\ U # {}
  OBVIOUS
<1>4. \E s \in U : \A t \in U : ~ (<<t, s>> \in R)
  <2> HIDE DEF R, U, B
  <2> QED BY <1>2, <1>3, WFMin
<1>5. PICK x \in {y \in T : y <= m} : \A t \in U : ~ (<<t, 1 .. x>> \in R)
  BY <1>4
<1>6. ASSUME NEW y \in T PROVE x <= y
  <2> SUFFICES ASSUME y < x PROVE FALSE
    OBVIOUS
  <2>1. 1 .. y \in U
    OBVIOUS
  <2>2. /\ x \in 1 .. x /\ x \notin 1 .. y /\ 1 .. y \subseteq 1 .. x
        /\ x \in Nat /\ m \in Nat /\ x <= m
    OBVIOUS
  <2>3. <<1 .. y, 1 .. x>> \notin R
    BY <1>5, <2>1
  <2>4. 1 .. y \in SUBSET B /\ 1 .. x \in SUBSET B
    BY <2>2
  <2> QED BY <2>2, <2>3, <2>4 DEF StrictSubsetOrdering
<1> QED BY <1>6

-----------------------------------------------------------------------------
(***************************************************************************)
(* Lists.  l[1] .. l[n] are the entries of a list that is threaded by nx   *)
(* forwards and by pv backwards.                                           *)
(***************************************************************************)
Threads(l, n, nx) ==
  /\ \A i, j \in 1 .. n : l[i] = l[j] => i = j
  /\ \A i \in 1 .. n : nx[l[i]] = IF i < n THEN l[i + 1] ELSE NIL

Backs(l, n, pv) == \A i \in 1 .. n : pv[l[i]] = IF i > 1 THEN l[i - 1] ELSE NIL

Elems(l, n) == {l[i] : i \in 1 .. n}

\* Entry e behind the first k.
Ins(l, n, k, e) ==
  [i \in 1 .. n + 1 |-> IF i <= k THEN l[i] ELSE IF i = k + 1 THEN e ELSE l[i - 1]]

\* A list without its first p entries, and a list f followed by them.
Drop(l, n, p) == [i \in 1 .. n - p |-> l[i + p]]
Join(f, m, l, p) == [i \in 1 .. m + p |-> IF i <= m THEN f[i] ELSE l[i - m]]

LEMMA InsElems ==
  ASSUME NEW n \in Nat, NEW l \in [1 .. n -> Entries], NEW k \in 0 .. n, NEW e \in Entries
  PROVE  /\ Ins(l, n, k, e) \in [1 .. n + 1 -> Entries]
         /\ Elems(Ins(l, n, k, e), n + 1) = Elems(l, n) \cup {e}
<1> DEFINE q == Ins(l, n, k, e)
<1>1. \A i \in 1 .. n + 1 : /\ i <= k => i \in 1 .. n /\ q[i] = l[i]
                            /\ i = k + 1 => q[i] = e
                            /\ i > k + 1 => i - 1 \in 1 .. n /\ q[i] = l[i - 1]
  BY DEF Ins
<1>2. \A i \in 1 .. n : /\ i <= k => i \in 1 .. n + 1 /\ q[i] = l[i]
                        /\ i > k => i + 1 \in 1 .. n + 1 /\ q[i + 1] = l[i]
  BY DEF Ins
<1>3. k + 1 \in 1 .. n + 1 /\ q[k + 1] = e
  BY <1>1
<1>4. q \in [1 .. n + 1 -> Entries]
  BY DEF Ins
<1> HIDE DEF q
<1>5. ASSUME NEW x \in Elems(q, n + 1) PROVE x \in Elems(l, n) \cup {e}
  <2>1. PICK i \in 1 .. n + 1 : x = q[i]
    BY <1>5 DEF Elems
  <2>2. i <= k \/ i = k + 1 \/ i > k + 1
    OBVIOUS
  <2> QED BY <1>1, <2>1, <2>2 DEF Elems
<1>6. ASSUME NEW x \in Elems(l, n) PROVE x \in Elems(q, n + 1)
  <2>1. PICK i \in 1 .. n : x = l[i]
    BY <1>6 DEF Elems
  <2>2. i <= k \/ i > k
    OBVIOUS
  <2> QED BY <1>2, <2>1, <2>2 DEF Elems
<1>7. e \in Elems(q, n + 1)
  BY <1>3 DEF Elems
<1> QED BY <1>4, <1>5, <1>6, <1>7 DEF q

LEMMA InsThreads ==
  ASSUME NEW n \in Nat, NEW l \in [1 .. n -> Entries], NEW k \in 0 .. n, NEW e \in Entries,
         NEW nx, NEW nx2, Threads(l, n, nx), e \notin Elems(l, n),
         nx2[e] = IF k < n THEN l[k + 1] ELSE NIL,
         k > 0 => nx2[l[k]] = e,
         \A i \in 1 .. n : i # k => nx2[l[i]] = nx[l[i]]
  PROVE  Threads(Ins(l, n, k, e), n + 1, nx2)
<1> DEFINE q == Ins(l, n, k, e)
<1>1. \A i \in 1 .. n + 1 : /\ i <= k => i \in 1 .. n /\ q[i] = l[i]
                            /\ i = k + 1 => q[i] = e
                            /\ i > k + 1 => i - 1 \in 1 .. n /\ q[i] = l[i - 1]
  BY DEF Ins
<1> HIDE DEF q
<1>2. \A i \in 1 .. n : l[i] # e
  BY DEF Elems
<1>3. ASSUME NEW i \in 1 .. n + 1, NEW j \in 1 .. n + 1, q[i] = q[j] PROVE i = j
  <2>1. \A a, b \in 1 .. n : l[a] = l[b] => a = b
    BY DEF Threads
  <2>2. (i <= k \/ i = k + 1 \/ i > k + 1) /\ (j <= k \/ j = k + 1 \/ j > k + 1)
    OBVIOUS
  <2> QED BY <1>1, <1>2, <1>3, <2>1, <2>2
<1>4. ASSUME NEW i \in 1 .. n + 1 PROVE nx2[q[i]] = IF i < n + 1 THEN q[i + 1] ELSE NIL
  <2>1. \A a \in 1 .. n : nx[l[a]] = IF a < n THEN l[a + 1] ELSE NIL
    BY DEF Threads
  <2>2. CASE i < k
    <3>1. /\ i \in 1 .. n /\ i # k /\ q[i] = l[i] /\ i < n /\ i + 1 \in 1 .. n + 1
          /\ i + 1 <= k /\ i < n + 1
      BY <1>1, <2>2
    <3>2. q[i + 1] = l[i + 1]
      BY <1>1, <3>1
    <3> QED BY <2>1, <3>1, <3>2
  <2>3. CASE i = k
    <3>1. q[i] = l[k] /\ k > 0 /\ i + 1 \in 1 .. n + 1 /\ i + 1 = k + 1 /\ i < n + 1
      BY <1>1, <2>3
    <3>2. q[i + 1] = e
      BY <1>1, <3>1
    <3> QED BY <3>1, <3>2
  <2>4. CASE i = k + 1
    <3>1. q[i] = e
      BY <1>1, <2>4
    <3>2. CASE k < n
      <4>1. i + 1 \in 1 .. n + 1 /\ i + 1 > k + 1 /\ i + 1 - 1 = k + 1 /\ i < n + 1
        BY <2>4, <3>2
      <4>2. q[i + 1] = l[k + 1]
        BY <1>1, <4>1
      <4> QED BY <3>1, <3>2, <4>1, <4>2
    <3>3. CASE k = n
      BY <2>4, <3>1, <3>3
    <3> QED BY <3>2, <3>3
  <2>5. CASE i > k + 1
    <3>1. i - 1 \in 1 .. n /\ q[i] = l[i - 1] /\ i - 1 # k
      BY <1>1, <2>5
    <3>2. nx2[q[i]] = IF i - 1 < n THEN l[(i - 1) + 1] ELSE NIL
      BY <2>1, <3>1
    <3>3. i < n + 1 => i + 1 \in 1 .. n + 1 /\ i + 1 > k + 1 /\ (i + 1) - 1 = (i - 1) + 1
      BY <2>5
    <3>4. i < n + 1 => q[i + 1] = l[(i - 1) + 1]
      BY <1>1, <3>3
    <3> QED BY <3>1, <3>2, <3>4
  <2>6. i < k \/ i = k \/ i = k + 1 \/ i > k + 1
    OBVIOUS
  <2> QED BY <2>2, <2>3, <2>4, <2>5, <2>6
<1>5. Threads(q, n + 1, nx2)
  BY <1>3, <1>4 DEF Threads
<1> QED BY <1>5 DEF q

LEMMA InsBacks ==
  ASSUME NEW n \in Nat, NEW l \in [1 .. n -> Entries], NEW k \in 0 .. n, NEW e \in Entries,
         NEW pv, NEW pv2, Backs(l, n, pv),
         pv2[e] = IF k > 0 THEN l[k] ELSE NIL,
         k < n => pv2[l[k + 1]] = e,
         \A i \in 1 .. n : i # k + 1 => pv2[l[i]] = pv[l[i]]
  PROVE  Backs(Ins(l, n, k, e), n + 1, pv2)
<1> DEFINE q == Ins(l, n, k, e)
<1>1. \A i \in 1 .. n + 1 : /\ i <= k => i \in 1 .. n /\ q[i] = l[i]
                            /\ i = k + 1 => q[i] = e
                            /\ i > k + 1 => i - 1 \in 1 .. n /\ q[i] = l[i - 1]
  BY DEF Ins
<1> HIDE DEF q
<1>2. ASSUME NEW i \in 1 .. n + 1 PROVE pv2[q[i]] = IF i > 1 THEN q[i - 1] ELSE NIL
  <2>1. \A a \in 1 .. n : pv[l[a]] = IF a > 1 THEN l[a - 1] ELSE NIL
    BY DEF Backs
  <2>2. CASE i <= k
    <3>1. i \in 1 .. n /\ i # k + 1 /\ q[i] = l[i]
      BY <1>1, <2>2
    <3>2. i > 1 => i - 1 \in 1 .. n + 1 /\ i - 1 <= k
      BY <2>2
    <3>3. i > 1 => q[i - 1] = l[i - 1]
      BY <1>1, <3>2
    <3> QED BY <2>1, <3>1, <3>3
  <2>3. CASE i = k + 1
    <3>1. q[i] = e
      BY <1>1, <2>3
    <3>2. i > 1 => k > 0 /\ i - 1 = k /\ k \in 1 .. n + 1 /\ k <= k
      BY <2>3
    <3>3. i > 1 => q[k] = l[k]
      BY <1>1, <3>2
    <3> QED BY <2>3, <3>1, <3>2, <3>3
  <2>4. CASE i = k + 2
    <3>1. k < n /\ q[i] = l[k + 1] /\ i > 1 /\ i - 1 = k + 1 /\ k + 1 \in 1 .. n + 1
      BY <1>1, <2>4
    <3>2. q[k + 1] = e
      BY <1>1, <3>1
    <3> QED BY <3>1, <3>2
  <2>5. CASE i > k + 2
    <3>1. i - 1 \in 1 .. n /\ q[i] = l[i - 1] /\ i - 1 # k + 1 /\ i > 1 /\ i - 1 > 1
      BY <1>1, <2>5
    <3>2. i - 1 \in 1 .. n + 1 /\ i - 1 > k + 1 /\ (i - 1) - 1 \in 1 .. n
      BY <2>5
    <3>3. q[i - 1] = l[(i - 1) - 1]
      BY <1>1, <3>2
    <3> QED BY <2>1, <3>1, <3>3
  <2>6. i <= k \/ i = k + 1 \/ i = k + 2 \/ i > k + 2
    OBVIOUS
  <2> QED BY <2>2, <2>3, <2>4, <2>5, <2>6
<1>3. Backs(q, n + 1, pv2)
  BY <1>2 DEF Backs
<1> QED BY <1>3 DEF q

\* The first p entries move to the end of the list f.
LEMMA DropList ==
  ASSUME NEW n \in Nat, NEW l \in [1 .. n -> Entries], NEW p \in 0 .. n,
         NEW nx, NEW nx2, Threads(l, n, nx),
         \A i \in 1 .. n : i > p => nx2[l[i]] = nx[l[i]]
  PROVE  /\ Drop(l, n, p) \in [1 .. n - p -> Entries]
         /\ Threads(Drop(l, n, p), n - p, nx2)
         /\ Elems(Drop(l, n, p), n - p) = {l[i] : i \in p + 1 .. n}
<1> DEFINE q == Drop(l, n, p)
           d == n - p
<1>1. \A i \in 1 .. d : q[i] = l[i + p] /\ i + p \in 1 .. n /\ i + p > p
  BY DEF Drop
<1>2. q \in [1 .. d -> Entries] /\ d \in Nat
  BY DEF Drop
<1>3. \A i \in p + 1 .. n : i - p \in 1 .. d /\ (i - p) + p = i
  OBVIOUS
<1>4. p + 1 .. n \subseteq 1 .. n /\ \A i \in 1 .. d : i + p \in p + 1 .. n
  OBVIOUS
<1>5. \A i \in 1 .. d : /\ i < d <=> i + p < n
                        /\ i < d => i + 1 \in 1 .. d /\ (i + 1) + p = (i + p) + 1
  OBVIOUS
<1> HIDE DEF q, d
<1>6. Threads(q, d, nx2)
  <2>1. ASSUME NEW i \in 1 .. d, NEW j \in 1 .. d, q[i] = q[j] PROVE i = j
    <3>1. i + p = j + p
      BY <1>1, <2>1 DEF Threads
    <3> QED BY <3>1
  <2>2. ASSUME NEW i \in 1 .. d PROVE nx2[q[i]] = IF i < d THEN q[i + 1] ELSE NIL
    BY <1>1, <1>5 DEF Threads
  <2> QED BY <2>1, <2>2 DEF Threads
<1>7. Elems(q, d) = {l[i] : i \in p + 1 .. n}
  <2>1. ASSUME NEW x \in Elems(q, d) PROVE x \in {l[i] : i \in p + 1 .. n}
    <3>1. PICK i \in 1 .. d : x = q[i]
      BY <2>1 DEF Elems
    <3> QED BY <1>1, <1>4, <3>1
  <2>2. ASSUME NEW i \in p + 1 .. n PROVE l[i] \in Elems(q, d)
    <3>1. q[i - p] = l[i] /\ i - p \in 1 .. d
      BY <1>1, <1>3
    <3> QED BY <3>1 DEF Elems
  <2> QED BY <2>1, <2>2
<1> QED BY <1>2, <1>6, <1>7 DEF q, d

LEMMA DropBacks ==
  ASSUME NEW n \in Nat, NEW l \in [1 .. n -> Entries], NEW p \in 0 .. n,
         NEW pv, NEW pv2, Backs(l, n, pv),
         \A i \in 1 .. n : i > p + 1 => pv2[l[i]] = pv[l[i]],
         p < n => pv2[l[p + 1]] = NIL
  PROVE  Backs(Drop(l, n, p), n - p, pv2)
<1> DEFINE q == Drop(l, n, p)
           d == n - p
<1>1. \A i \in 1 .. d : q[i] = l[i + p] /\ i + p \in 1 .. n
  BY DEF Drop
<1>2. \A i \in 1 .. d : /\ i > 1 => /\ i - 1 \in 1 .. d /\ (i - 1) + p = (i + p) - 1
                                     /\ i + p > p + 1 /\ i + p > 1
                        /\ ~(i > 1) => i + p = p + 1 /\ p < n
  OBVIOUS
<1> HIDE DEF q, d
<1>3. ASSUME NEW i \in 1 .. d PROVE pv2[q[i]] = IF i > 1 THEN q[i - 1] ELSE NIL
  <2>1. CASE i > 1
    BY <1>1, <1>2, <2>1 DEF Backs
  <2>2. CASE ~(i > 1)
    BY <1>1, <1>2, <2>2
  <2> QED BY <2>1, <2>2
<1>4. Backs(q, d, pv2)
  BY <1>3 DEF Backs
<1> QED BY <1>4 DEF q, d

\* The links nx2 are nx, but for the first p of l hanging behind f.
Rehung(f, m, l, n, p, nx, nx2) ==
  /\ \A i \in 1 .. n, j \in 1 .. m : l[i] # f[j]
  /\ \A i \in 1 .. m : i < m => nx2[f[i]] = nx[f[i]]
  /\ nx2[f[m]] = l[1]
  /\ \A i \in 1 .. n : i < p => nx2[l[i]] = nx[l[i]]
  /\ nx2[l[p]] = NIL

LEMMA JoinList ==
  ASSUME NEW m \in Nat, NEW f \in [1 .. m -> Entries], m > 0,
         NEW n \in Nat, NEW l \in [1 .. n -> Entries], NEW p \in 1 .. n,
         NEW nx, NEW nx2, Threads(l, n, nx), Threads(f, m, nx), Rehung(f, m, l, n, p, nx, nx2)
  PROVE  /\ Join(f, m, l, p) \in [1 .. m + p -> Entries]
         /\ Threads(Join(f, m, l, p), m + p, nx2)
         /\ Elems(Join(f, m, l, p), m + p) = Elems(f, m) \cup {l[i] : i \in 1 .. p}
<1> DEFINE q == Join(f, m, l, p)
           d == m + p
<1>1. \A i \in 1 .. d : /\ i <= m => i \in 1 .. m /\ q[i] = f[i]
                        /\ i > m => i - m \in 1 .. p /\ i - m \in 1 .. n /\ q[i] = l[i - m]
  BY DEF Join
<1>2. q \in [1 .. d -> Entries] /\ d \in Nat
  BY DEF Join
<1>3. /\ \A i \in 1 .. m : i \in 1 .. d /\ i <= m
      /\ \A i \in 1 .. p : i + m \in 1 .. d /\ i + m > m /\ (i + m) - m = i
  OBVIOUS
<1>4. \A i \in 1 .. d : /\ i < m => i + 1 \in 1 .. d /\ i + 1 <= m /\ i < d
                        /\ i = m => i + 1 \in 1 .. d /\ i + 1 > m /\ (i + 1) - m = 1 /\ i < d
                        /\ i > m => /\ i < d <=> i - m < p
                                    /\ ~(i < d) => i - m = p
                                    /\ i < d => /\ i + 1 \in 1 .. d /\ i + 1 > m
                                                /\ (i + 1) - m = (i - m) + 1
                                                /\ i - m < n
                        /\ i < m \/ i = m \/ i > m
                        /\ i <= m \/ i > m
  OBVIOUS
<1> HIDE DEF q, d
<1>5. ASSUME NEW i \in 1 .. d, NEW j \in 1 .. d, q[i] = q[j] PROVE i = j
  <2>1. CASE i <= m /\ j <= m
    BY <1>1, <1>5, <2>1 DEF Threads
  <2>2. CASE i > m /\ j > m
    <3>1. i - m = j - m
      BY <1>1, <1>5, <2>2 DEF Threads
    <3> QED BY <3>1
  <2>3. CASE (i <= m /\ j > m) \/ (i > m /\ j <= m)
    BY <1>1, <1>5, <2>3 DEF Rehung
  <2> QED BY <1>4, <2>1, <2>2, <2>3
<1>6. ASSUME NEW i \in 1 .. d PROVE nx2[q[i]] = IF i < d THEN q[i + 1] ELSE NIL
  <2>1. CASE i < m
    BY <1>1, <1>4, <2>1 DEF Threads, Rehung
  <2>2. CASE i = m
    BY <1>1, <1>4, <2>2 DEF Rehung
  <2>3. CASE i > m
    <3>1. i - m \in 1 .. n /\ q[i] = l[i - m]
      BY <1>1, <2>3
    <3>2. CASE i < d
      BY <1>1, <1>4, <2>3, <3>1, <3>2 DEF Threads, Rehung
    <3>3. CASE ~(i < d)
      BY <1>4, <2>3, <3>1, <3>3 DEF Rehung
    <3> QED BY <3>2, <3>3
  <2> QED BY <1>4, <2>1, <2>2, <2>3
<1>7. Threads(q, d, nx2)
  BY <1>5, <1>6 DEF Threads
<1>8. Elems(q, d) = Elems(f, m) \cup {l[i] : i \in 1 .. p}
  <2>1. ASSUME NEW x \in Elems(q, d) PROVE x \in Elems(f, m) \cup {l[i] : i \in 1 .. p}
    <3>1. PICK i \in 1 .. d : x = q[i]
      BY <2>1 DEF Elems
    <3> QED BY <1>1, <1>4, <3>1 DEF Elems
  <2>2. ASSUME NEW i \in 1 .. m PROVE f[i] \in Elems(q, d)
    BY <1>1, <1>3 DEF Elems
  <2>3. ASSUME NEW i \in 1 .. p PROVE l[i] \in Elems(q, d)
    BY <1>1, <1>3 DEF Elems
  <2> QED BY <2>1, <2>2, <2>3 DEF Elems
<1> QED BY <1>2, <1>7, <1>8 DEF q, d

\* Step and Chain walk along such a list.
IsWalk(e, w) ==
  w = [k \in 0 .. N |-> IF k = 0 THEN e ELSE IF w[k - 1] = NIL THEN NIL ELSE next[w[k - 1]]]

LEMMA WalkIs ==
  ASSUME NEW e, NEW w, IsWalk(e, w), N \in Nat
  PROVE  Step(e) = w
<1>1. Step(e) = CHOOSE x : IsWalk(e, x)
  BY DEF Step, IsWalk
<1> DEFINE v == Step(e)
<1>2. IsWalk(e, v)
  BY <1>1
<1> HIDE DEF v
<1>3. ASSUME NEW u, IsWalk(e, u)
      PROVE  /\ u = [k \in 0 .. N |-> u[k]]
             /\ u[0] = e
             /\ \A k \in 1 .. N : u[k] = IF u[k - 1] = NIL THEN NIL ELSE next[u[k - 1]]
  <2>1. 0 \in 0 .. N /\ \A k \in 1 .. N : k \in 0 .. N /\ k # 0
    OBVIOUS
  <2>2. DOMAIN u = 0 .. N
    BY <1>3 DEF IsWalk
  <2>3. \A k \in 0 .. N : u[k] = IF k = 0 THEN e
                                 ELSE IF u[k - 1] = NIL THEN NIL ELSE next[u[k - 1]]
    BY <1>3 DEF IsWalk
  <2>4. u = [k \in 0 .. N |-> u[k]]
    BY <1>3, <2>3 DEF IsWalk
  <2> QED BY <2>1, <2>3, <2>4
<1> DEFINE T == {k \in 0 .. N : v[k] # w[k]}
<1>4. T = {}
  <2> SUFFICES ASSUME T # {} PROVE FALSE
    OBVIOUS
  <2>1. PICK k \in T : \A y \in T : k <= y
    <3>1. T \in SUBSET Nat
      OBVIOUS
    <3> HIDE DEF T
    <3> QED BY <3>1, LeastNatural
  <2>2. v[0] = w[0] /\ k # 0
    BY <1>2, <1>3
  <2>3. k \in 1 .. N /\ k - 1 \in 0 .. N /\ k - 1 < k
    BY <2>2
  <2>4. v[k - 1] = w[k - 1]
    BY <2>1, <2>3
  <2>5. /\ v[k] = IF v[k - 1] = NIL THEN NIL ELSE next[v[k - 1]]
        /\ w[k] = IF w[k - 1] = NIL THEN NIL ELSE next[w[k - 1]]
    BY <1>2, <1>3, <2>3
  <2> QED BY <2>4, <2>5
<1>5. v = [k \in 0 .. N |-> v[k]] /\ w = [k \in 0 .. N |-> w[k]]
  BY <1>2, <1>3
<1>6. \A k \in 0 .. N : v[k] = w[k]
  BY <1>4
<1>7. v = w
  BY <1>5, <1>6
<1> QED BY <1>7 DEF v

LEMMA WalkNil ==
  ASSUME N \in Nat
  PROVE  (\A k \in 0 .. N : Step(NIL)[k] = NIL) /\ Chain(NIL) = {}
<1> DEFINE w == [k \in 0 .. N |-> NIL]
<1>1. IsWalk(NIL, w)
  <2>1. \A k \in 0 .. N : k # 0 => k - 1 \in 0 .. N
    OBVIOUS
  <2>2. \A k \in 0 .. N : w[k] = IF k = 0 THEN NIL
                                 ELSE IF w[k - 1] = NIL THEN NIL ELSE next[w[k - 1]]
    BY <2>1
  <2> QED BY <2>2 DEF IsWalk
<1>2. Step(NIL) = w
  <2> HIDE DEF w
  <2> QED BY <1>1, WalkIs
<1> QED BY <1>2 DEF Chain

LEMMA WalkList ==
  ASSUME N \in Nat, NEW n \in Nat, n <= N, NEW l \in [1 .. n -> Entries], Threads(l, n, next),
         NEW i \in 1 .. n
  PROVE  /\ \A k \in 0 .. N : Step(l[i])[k] = IF i + k <= n THEN l[i + k] ELSE NIL
         /\ Chain(l[i]) = {l[j] : j \in i .. n}
<1> DEFINE w == [k \in 0 .. N |-> IF i + k <= n THEN l[i + k] ELSE NIL]
<1>1. \A x \in Entries : x # NIL
  BY DEF Entries, NIL
<1>2. IsWalk(l[i], w)
  <2>1. ASSUME NEW k \in 0 .. N
        PROVE  w[k] = IF k = 0 THEN l[i]
                      ELSE IF w[k - 1] = NIL THEN NIL ELSE next[w[k - 1]]
    <3>1. CASE k = 0
      <4>1. i + k = i /\ i <= n
        BY <3>1
      <4> QED BY <3>1, <4>1
    <3>2. CASE k # 0
      <4>1. k - 1 \in 0 .. N /\ (i + (k - 1)) + 1 = i + k /\ i + (k - 1) < i + k
        BY <3>2
      <4>2. CASE i + (k - 1) <= n
        <5>1. i + (k - 1) \in 1 .. n
          BY <3>2, <4>2
        <5>2. w[k - 1] = l[i + (k - 1)] /\ w[k - 1] # NIL
          BY <1>1, <4>1, <4>2, <5>1
        <5>3. next[l[i + (k - 1)]]
                = IF i + (k - 1) < n THEN l[(i + (k - 1)) + 1] ELSE NIL
          BY <5>1 DEF Threads
        <5>4. i + (k - 1) < n <=> i + k <= n
          OBVIOUS
        <5> QED BY <3>2, <4>1, <5>2, <5>3, <5>4
      <4>3. CASE ~(i + (k - 1) <= n)
        <5>1. w[k - 1] = NIL /\ w[k] = NIL
          BY <4>1, <4>3
        <5> QED BY <3>2, <5>1
      <4> QED BY <4>2, <4>3
    <3> QED BY <3>1, <3>2
  <2> QED BY <2>1 DEF IsWalk
<1>3. Step(l[i]) = w
  <2> HIDE DEF w
  <2> QED BY <1>2, WalkIs
<1>4. \A k \in 0 .. N : Step(l[i])[k] = IF i + k <= n THEN l[i + k] ELSE NIL
  BY <1>3
<1>5. Chain(l[i]) = {l[j] : j \in i .. n}
  <2> HIDE DEF w
  <2>1. ASSUME NEW x \in Chain(l[i]) PROVE x \in {l[j] : j \in i .. n}
    <3>1. PICK k \in 0 .. N : x = Step(l[i])[k] /\ x # NIL
      BY <2>1 DEF Chain
    <3>2. i + k <= n /\ x = l[i + k]
      BY <1>4, <3>1
    <3>3. i + k \in i .. n
      BY <3>2
    <3> QED BY <3>2, <3>3
  <2>2. ASSUME NEW j \in i .. n PROVE l[j] \in Chain(l[i])
    <3>1. j - i \in 0 .. N /\ i + (j - i) = j /\ j <= n /\ j \in 1 .. n
      OBVIOUS
    <3>2. Step(l[i])[j - i] = l[j] /\ l[j] # NIL
      BY <1>1, <1>4, <3>1
    <3> QED BY <3>1, <3>2 DEF Chain
  <2> QED BY <2>1, <2>2
<1> QED BY <1>4, <1>5

-----------------------------------------------------------------------------
(***************************************************************************)
(* The invariant of the lists.                                             *)
(***************************************************************************)
CoreTypes ==
  /\ req \in [Entries -> 0 .. NReqs]
  /\ target \in [Entries -> Time]
  /\ completed \in [Entries -> BOOLEAN]
  /\ copied \in [Entries -> BOOLEAN]
  /\ internal \in [Entries -> BOOLEAN]
  /\ next \in [Entries -> EntryOrNil]
  /\ prev \in [Entries -> EntryOrNil]
  /\ io_seq \in EntryOrNil /\ io_seq_end \in EntryOrNil
  /\ free_seq \in Entries /\ free_seq_end \in Entries
  /\ latest \in Time /\ now \in Time /\ latest <= now
  /\ buf \in Int
  /\ sq \in 0 .. NReqs /\ dpc \in DispPCs /\ entry \in EntryOrNil
  /\ dpc # "idle" => sq \in Requests
  /\ isint \in BOOLEAN /\ due \in Time /\ idue \in Time /\ dcurr \in EntryOrNil
  /\ wpc \in WorkerPCs /\ curr \in EntryOrNil
  /\ wpc = "top" <=> curr = NIL
  /\ copies \in [Requests -> Nat] /\ posted \in [Requests -> Nat]
  /\ dropped \subseteq Requests \X BOOLEAN

\* s[1] .. s[n] is the I/O list and f[1] .. f[m] the free list.
Lists(s, n, f, m) ==
  /\ Threads(s, n, next) /\ Threads(f, m, next) /\ Backs(s, n, prev)
  /\ io_seq = IF n = 0 THEN NIL ELSE s[1]
  /\ n > 0 => io_seq_end = s[n]
  /\ m > 0 /\ free_seq = f[1] /\ free_seq_end = f[m]
  /\ Elems(s, n) \cap Elems(f, m) = {}
  /\ Elems(s, n) \cup Elems(f, m) \cup Pending = Entries
  /\ Pending \cap (Elems(s, n) \cup Elems(f, m)) = {}
  /\ n + m + (IF Pending = {} THEN 0 ELSE 1) = N

At(l, k) == IF k = 0 THEN NIL ELSE l[k]

\* The entry goes behind the first k of the list.
GoesBehind(s, n, k) ==
  /\ dcurr = At(s, k)
  /\ \A j \in 1 .. n : j > k => target[entry] <= target[s[j]]
  /\ dpc = "link" /\ k > 0 => ~GoesBefore(entry, s[k])

Place(s, n) ==
  /\ dpc \in {"init2", "scan", "link"} => next[entry] = NIL /\ prev[entry] = NIL
  /\ dpc \in {"scan", "link"} => \E k \in 0 .. n : GoesBehind(s, n, k)

Sorted(s, n) ==
  \A i, j \in 1 .. n : i < j => target[s[i]] <= target[s[j]] \/ target[s[i]] <= latest

IsQueue(s, n, f, m) == Lists(s, n, f, m) /\ Place(s, n) /\ Sorted(s, n)

CoreInv ==
  /\ CoreTypes
  /\ \E n, m \in Nat : \E s \in [1 .. n -> Entries], f \in [1 .. m -> Entries] :
       IsQueue(s, n, f, m)

LEMMA NilOutside == N \in Nat /\ N > 1 /\ NIL \notin Entries
BY IoWorkerAssumption DEF Entries, NIL

\* What Chain is in terms of the lists.
LEMMA ChainsAre ==
  ASSUME NEW n \in Nat, NEW m \in Nat, NEW s \in [1 .. n -> Entries],
         NEW f \in [1 .. m -> Entries], Lists(s, n, f, m)
  PROVE  /\ Chain(io_seq) = Elems(s, n) /\ Chain(free_seq) = Elems(f, m)
         /\ n < N /\ m <= N
         /\ \A k \in 0 .. N : Step(io_seq)[k] = IF k < n THEN s[k + 1] ELSE NIL
<1>1. N \in Nat /\ n < N /\ m <= N /\ m > 0
  BY NilOutside DEF Lists
<1>2. Chain(free_seq) = Elems(f, m)
  <2>1. 1 \in 1 .. m /\ free_seq = f[1] /\ Threads(f, m, next)
    BY <1>1 DEF Lists
  <2>2. Chain(f[1]) = {f[j] : j \in 1 .. m}
    BY <1>1, <2>1, WalkList
  <2> QED BY <2>1, <2>2 DEF Elems
<1>3. CASE n = 0
  <2>1. io_seq = NIL /\ Elems(s, n) = {}
    BY <1>3 DEF Lists, Elems
  <2>2. Chain(io_seq) = {} /\ \A k \in 0 .. N : Step(io_seq)[k] = NIL
    BY <1>1, <2>1, WalkNil
  <2>3. \A k \in 0 .. N : ~(k < n)
    BY <1>3
  <2> QED BY <1>1, <1>2, <2>1, <2>2, <2>3
<1>4. CASE n > 0
  <2>1. 1 \in 1 .. n /\ io_seq = s[1] /\ n <= N /\ Threads(s, n, next)
    BY <1>1, <1>4 DEF Lists
  <2>2. /\ \A k \in 0 .. N : Step(s[1])[k] = IF 1 + k <= n THEN s[1 + k] ELSE NIL
        /\ Chain(s[1]) = {s[j] : j \in 1 .. n}
    BY <1>1, <2>1, WalkList
  <2>3. \A k \in 0 .. N : 1 + k = k + 1 /\ (1 + k <= n <=> k < n)
    OBVIOUS
  <2> QED BY <1>1, <1>2, <2>1, <2>2, <2>3 DEF Elems
<1> QED BY <1>3, <1>4

LEMMA ListsAside ==
  ASSUME NEW n \in Nat, NEW m \in Nat, NEW s \in [1 .. n -> Entries],
         NEW f \in [1 .. m -> Entries], Lists(s, n, f, m),
         UNCHANGED listVars, Pending' = Pending
  PROVE  Lists(s, n, f, m)'
BY DEF Lists, listVars

\* Targets stay, and latest_nsecs only grows.
LEMMA SortedAside ==
  ASSUME CoreTypes, NEW n \in Nat, NEW s \in [1 .. n -> Entries], Sorted(s, n),
         UNCHANGED target, latest' \in Time, latest <= latest'
  PROVE  Sorted(s, n)'
<1> SUFFICES ASSUME NEW i \in 1 .. n, NEW j \in 1 .. n, i < j
             PROVE  target[s[i]] <= target[s[j]] \/ target[s[i]] <= latest'
  BY DEF Sorted
<1>1. target[s[i]] \in Int /\ latest \in Int /\ latest' \in Int
  BY DEF CoreTypes, Time
<1> QED BY <1>1 DEF Sorted

LEMMA PlaceAside ==
  ASSUME CoreTypes, NEW n \in Nat, NEW s \in [1 .. n -> Entries], Place(s, n),
         UNCHANGED <<target, next, prev, entry, dcurr, dpc>>, latest' \in Time, latest <= latest'
  PROVE  Place(s, n)'
<1>1. ASSUME NEW k \in 0 .. n, GoesBehind(s, n, k) PROVE GoesBehind(s, n, k)'
  <2>1. ASSUME k > 0, ~GoesBefore(entry, s[k]) PROVE ~GoesBefore(entry, s[k])'
    <3>1. target[s[k]] \in Int /\ latest \in Int /\ latest' \in Int
      BY <2>1 DEF CoreTypes, Time
    <3> QED BY <2>1, <3>1 DEF GoesBefore
  <2> QED BY <1>1, <2>1 DEF GoesBehind
<1> QED BY <1>1 DEF Place

-----------------------------------------------------------------------------
(***************************************************************************)
(* The steps of the dispatcher.                                            *)
(***************************************************************************)
\* __allocate_work_queue_entry takes the head of the free list.
LEMMA AllocLists ==
  ASSUME CoreTypes, NEW n \in Nat, NEW m \in Nat, NEW s \in [1 .. n -> Entries],
         NEW f \in [1 .. m -> Entries], IsQueue(s, n, f, m), Alloc
  PROVE  /\ m - 1 \in Nat /\ Drop(f, m, 1) \in [1 .. m - 1 -> Entries]
         /\ IsQueue(s, n, Drop(f, m, 1), m - 1)'
<1>1. /\ dpc = "alloc" /\ next[free_seq] # NIL /\ entry' = free_seq
      /\ free_seq' = next[free_seq] /\ dpc' = "init"
      /\ target' = [target EXCEPT ![free_seq] = IF isint THEN idue ELSE due]
      /\ UNCHANGED <<next, prev, io_seq, io_seq_end, free_seq_end, latest>>
  BY DEF Alloc, workerVars
<1>2. /\ Threads(f, m, next) /\ Threads(s, n, next) /\ Backs(s, n, prev)
      /\ io_seq = IF n = 0 THEN NIL ELSE s[1]
      /\ n > 0 => io_seq_end = s[n]
      /\ m > 0 /\ free_seq = f[1] /\ free_seq_end = f[m]
      /\ Elems(s, n) \cap Elems(f, m) = {}
      /\ Elems(s, n) \cup Elems(f, m) \cup Pending = Entries
      /\ n + m + (IF Pending = {} THEN 0 ELSE 1) = N
  BY DEF IsQueue, Lists
<1>3. Pending = {} /\ Pending' = {free_seq}
  BY <1>1 DEF Pending
<1>4. m > 1 /\ next[f[1]] = f[2]
  <2>1. 1 \in 1 .. m
    BY <1>2
  <2>2. next[f[1]] = IF 1 < m THEN f[1 + 1] ELSE NIL
    BY <1>2, <2>1 DEF Threads
  <2> QED BY <1>1, <1>2, <2>2
<1> DEFINE q == Drop(f, m, 1)
<1>5. /\ q \in [1 .. m - 1 -> Entries] /\ Threads(q, m - 1, next)
      /\ Elems(q, m - 1) = {f[i] : i \in 1 + 1 .. m}
  <2>1. 1 \in 0 .. m
    BY <1>2
  <2> QED BY <1>2, <2>1, DropList
<1>6. q[1] = f[2] /\ q[m - 1] = f[m] /\ m - 1 \in Nat /\ m - 1 > 0
  <2>1. 1 \in 1 .. m - 1 /\ m - 1 \in 1 .. m - 1 /\ 1 + 1 = 2 /\ (m - 1) + 1 = m
    BY <1>4
  <2> QED BY <1>4, <2>1 DEF Drop
<1>7. f[1] \notin {f[i] : i \in 1 + 1 .. m} /\ Elems(f, m) = {f[i] : i \in 1 + 1 .. m} \cup {f[1]}
  <2>1. /\ \A i \in 1 + 1 .. m : i \in 1 .. m /\ i # 1
        /\ \A i \in 1 .. m : i = 1 \/ i \in 1 + 1 .. m
        /\ 1 \in 1 .. m
    BY <1>4
  <2> QED BY <1>2, <2>1 DEF Threads, Elems
<1> HIDE DEF q
<1>8. /\ Elems(s, n) \cap Elems(q, m - 1) = {}
      /\ Elems(s, n) \cup Elems(q, m - 1) \cup Pending' = Entries
      /\ Pending' \cap (Elems(s, n) \cup Elems(q, m - 1)) = {}
  BY <1>2, <1>3, <1>5, <1>7
<1>9. n + (m - 1) + (IF Pending' = {} THEN 0 ELSE 1) = N
  <2>1. n + m = N /\ Pending' # {}
    BY <1>2, <1>3
  <2> QED BY <2>1
<1>10. Lists(s, n, q, m - 1)'
  BY <1>1, <1>2, <1>4, <1>5, <1>6, <1>8, <1>9 DEF Lists
<1>11. Place(s, n)'
  BY <1>1 DEF Place
<1>12. Sorted(s, n)'
  <2>1. \A i \in 1 .. n : target'[s[i]] = target[s[i]]
    <3>1. \A i \in 1 .. n : s[i] # free_seq
      BY <1>2, <1>7 DEF Elems
    <3> QED BY <1>1, <3>1 DEF CoreTypes
  <2> QED BY <1>1, <2>1 DEF IsQueue, Sorted
<1> QED BY <1>5, <1>6, <1>10, <1>11, <1>12 DEF q, IsQueue

LEMMA InitLists ==
  ASSUME CoreTypes, NEW n \in Nat, NEW m \in Nat, NEW s \in [1 .. n -> Entries],
         NEW f \in [1 .. m -> Entries], IsQueue(s, n, f, m), InitEntry
  PROVE  IsQueue(s, n, f, m)'
<1>1. /\ dpc = "init" /\ dpc' = "init2"
      /\ next' = [next EXCEPT ![entry] = NIL] /\ prev' = [prev EXCEPT ![entry] = NIL]
      /\ UNCHANGED <<io_seq, io_seq_end, free_seq, free_seq_end, entry, target, latest>>
  BY DEF InitEntry, workerVars
<1>2. Pending = {entry} /\ Pending' = {entry}
  BY <1>1 DEF Pending
<1>3. entry \in Entries /\ entry \notin Elems(s, n) /\ entry \notin Elems(f, m)
  BY <1>2 DEF IsQueue, Lists
<1>4. /\ \A i \in 1 .. n : next'[s[i]] = next[s[i]] /\ prev'[s[i]] = prev[s[i]]
      /\ \A i \in 1 .. m : next'[f[i]] = next[f[i]]
  BY <1>1, <1>3 DEF Elems, CoreTypes
<1>5. Threads(s, n, next') /\ Threads(f, m, next') /\ Backs(s, n, prev')
  BY <1>4 DEF IsQueue, Lists, Threads, Backs
<1>6. Lists(s, n, f, m)'
  BY <1>1, <1>2, <1>5 DEF IsQueue, Lists
<1>7. Place(s, n)'
  BY <1>1, <1>3 DEF Place, CoreTypes
<1>8. Sorted(s, n)'
  BY <1>1 DEF IsQueue, Sorted
<1> QED BY <1>6, <1>7, <1>8 DEF IsQueue

\* __insert_req_sorted begins at the tail, and goes back along prev.
LEMMA BeginLists ==
  ASSUME CoreTypes, NEW n \in Nat, NEW m \in Nat, NEW s \in [1 .. n -> Entries],
         NEW f \in [1 .. m -> Entries], IsQueue(s, n, f, m), InitInternal
  PROVE  IsQueue(s, n, f, m)'
<1>1. /\ dpc = "init2" /\ dpc' = IF io_seq = NIL THEN "link" ELSE "scan"
      /\ dcurr' = IF io_seq = NIL THEN NIL ELSE io_seq_end
      /\ UNCHANGED <<listVars, entry, target, latest>>
  BY DEF InitInternal, workerVars
<1>2. Pending' = Pending
  BY <1>1 DEF Pending
<1>3. Lists(s, n, f, m)' /\ Sorted(s, n)'
  BY <1>1, <1>2, ListsAside DEF IsQueue, Sorted
<1>4. io_seq = IF n = 0 THEN NIL ELSE s[1]
  BY DEF IsQueue, Lists
<1>5. CASE n = 0
  <2>1. dcurr' = NIL /\ 0 \in 0 .. n
    BY <1>1, <1>4, <1>5
  <2>2. GoesBehind(s, n, 0)'
    BY <1>5, <2>1 DEF GoesBehind, At
  <2> QED BY <1>1, <1>3, <2>1, <2>2 DEF IsQueue, Place, listVars
<1>6. CASE n # 0
  <2>1. io_seq # NIL /\ io_seq_end = s[n] /\ n \in 0 .. n
    BY <1>4, <1>6, NilOutside DEF IsQueue, Lists
  <2>2. dpc' = "scan" /\ dcurr' = s[n]
    BY <1>1, <2>1
  <2>3. GoesBehind(s, n, n)'
    <3>1. \A j \in 1 .. n : ~(j > n)
      OBVIOUS
    <3> QED BY <1>6, <2>2, <3>1 DEF GoesBehind, At
  <2> QED BY <1>1, <1>3, <2>1, <2>2, <2>3 DEF IsQueue, Place, listVars
<1> QED BY <1>5, <1>6

LEMMA ScanLists ==
  ASSUME CoreTypes, NEW n \in Nat, NEW m \in Nat, NEW s \in [1 .. n -> Entries],
         NEW f \in [1 .. m -> Entries], IsQueue(s, n, f, m), Scan
  PROVE  IsQueue(s, n, f, m)'
<1>1. /\ dpc = "scan" /\ UNCHANGED <<listVars, entry, target, latest>>
      /\ IF dcurr # NIL /\ GoesBefore(entry, dcurr)
         THEN dcurr' = prev[dcurr] /\ UNCHANGED dpc
         ELSE dpc' = "link" /\ UNCHANGED dcurr
  BY DEF Scan, workVars, workerVars
<1>2. Pending' = Pending
  BY <1>1 DEF Pending
<1>3. Lists(s, n, f, m)' /\ Sorted(s, n)'
  BY <1>1, <1>2, ListsAside DEF IsQueue, Sorted
<1>4. PICK k \in 0 .. n : GoesBehind(s, n, k)
  BY <1>1 DEF IsQueue, Place
<1>5. /\ \A i \in 1 .. n : s[i] \in Entries /\ s[i] # NIL
      /\ \A i \in 1 .. n : prev[s[i]] = IF i > 1 THEN s[i - 1] ELSE NIL
  BY NilOutside DEF IsQueue, Lists, Backs
<1>6. k # 0 => k \in 1 .. n /\ dcurr = s[k] /\ dcurr # NIL
  BY <1>4, <1>5 DEF GoesBehind, At
<1>7. k = 0 => dcurr = NIL
  BY <1>4 DEF GoesBehind, At
<1>8. CASE dcurr # NIL /\ GoesBefore(entry, dcurr)
  <2>1. k \in 1 .. n /\ dcurr = s[k] /\ dcurr' = prev[s[k]] /\ dpc' = "scan"
    BY <1>1, <1>6, <1>7, <1>8
  <2>2. k - 1 \in 0 .. n /\ dcurr' = At(s, k - 1)
    BY <1>5, <2>1 DEF At
  <2>3. ASSUME NEW j \in 1 .. n, j > k - 1 PROVE target[entry] <= target[s[j]]
    <3>1. CASE j = k
      <4>1. target[s[k]] > target[entry] /\ target[s[k]] \in Int
        BY <1>8, <2>1 DEF GoesBefore, CoreTypes, Time
      <4>2. entry \in Entries
        BY <1>1 DEF IsQueue, Lists, Pending
      <4>3. target[entry] \in Int
        BY <4>2 DEF CoreTypes, Time
      <4> QED BY <3>1, <4>1, <4>3
    <3>2. CASE j # k
      <4>1. j > k
        BY <2>1, <2>3, <3>2
      <4> QED BY <1>4, <4>1 DEF GoesBehind
    <3> QED BY <3>1, <3>2
  <2>4. GoesBehind(s, n, k - 1)'
    BY <1>1, <2>1, <2>2, <2>3 DEF GoesBehind
  <2> QED BY <1>1, <1>3, <2>1, <2>2, <2>4 DEF IsQueue, Place, listVars
<1>9. CASE ~(dcurr # NIL /\ GoesBefore(entry, dcurr))
  <2>1. dpc' = "link" /\ dcurr' = dcurr
    BY <1>1, <1>9
  <2>2. k > 0 => ~GoesBefore(entry, s[k])
    BY <1>6, <1>9
  <2>3. GoesBehind(s, n, k)'
    BY <1>1, <1>4, <2>1, <2>2 DEF GoesBehind, GoesBefore
  <2> QED BY <1>1, <1>3, <2>1, <2>3 DEF IsQueue, Place, listVars
<1> QED BY <1>8, <1>9

\* What the four cases of the insertion do, for an entry behind the first k.
LEMMA LinkCases ==
  ASSUME CoreTypes, NEW n \in Nat, NEW m \in Nat, NEW s \in [1 .. n -> Entries],
         NEW f \in [1 .. m -> Entries], IsQueue(s, n, f, m), Link,
         NEW k \in 0 .. n, GoesBehind(s, n, k)
  PROVE  /\ next'[entry] = IF k < n THEN s[k + 1] ELSE NIL
         /\ k > 0 => next'[s[k]] = entry
         /\ \A e \in Entries : e # entry /\ (k > 0 => e # s[k]) => next'[e] = next[e]
         /\ prev'[entry] = IF k > 0 THEN s[k] ELSE NIL
         /\ k < n => prev'[s[k + 1]] = entry
         /\ \A e \in Entries : e # entry /\ (k < n => e # s[k + 1]) => prev'[e] = prev[e]
         /\ io_seq' = IF k = 0 THEN entry ELSE s[1]
         /\ io_seq_end' = IF k = n THEN entry ELSE s[n]
<1>1. dpc = "link" /\ (LinkFirst \/ LinkHead \/ LinkTail \/ LinkBetween)
  BY DEF Link
<1>2. /\ io_seq = IF n = 0 THEN NIL ELSE s[1]
      /\ n > 0 => io_seq_end = s[n]
      /\ Threads(s, n, next)
      /\ Elems(s, n) \cup Elems(f, m) \cup Pending = Entries
      /\ Pending \cap (Elems(s, n) \cup Elems(f, m)) = {}
  BY DEF IsQueue, Lists
<1>3. entry \in Entries /\ entry \notin Elems(s, n) /\ next[entry] = NIL /\ prev[entry] = NIL
  BY <1>1, <1>2 DEF Pending, IsQueue, Place
<1>4. /\ \A i \in 1 .. n : s[i] # entry /\ s[i] # NIL /\ s[i] \in Entries
      /\ \A i \in 1 .. n : next[s[i]] = IF i < n THEN s[i + 1] ELSE NIL
      /\ \A i, j \in 1 .. n : s[i] = s[j] => i = j
  BY <1>2, <1>3, NilOutside DEF Elems, Threads
<1>5. dcurr = At(s, k)
  BY DEF GoesBehind
<1>6. next \in [Entries -> EntryOrNil] /\ prev \in [Entries -> EntryOrNil]
  BY DEF CoreTypes
<1>7. CASE n = 0
  <2>1. k = 0 /\ io_seq = NIL /\ dcurr = NIL
    BY <1>2, <1>5, <1>7 DEF At
  <2>2. LinkFirst
    BY <1>1, <2>1 DEF LinkHead, LinkTail, LinkBetween
  <2> QED BY <1>3, <1>7, <2>1, <2>2 DEF LinkFirst
<1>8. CASE n > 0 /\ k = 0
  <2>1. io_seq = s[1] /\ io_seq # NIL /\ dcurr = NIL /\ 1 \in 1 .. n /\ k + 1 = 1 /\ s[1] # entry
        /\ io_seq_end = s[n] /\ k # n /\ k < n
    BY <1>2, <1>4, <1>5, <1>8 DEF At
  <2>2. LinkHead
    BY <1>1, <2>1 DEF LinkFirst, LinkTail, LinkBetween
  <2>3. /\ prev' = [prev EXCEPT ![s[1]] = entry] /\ next' = [next EXCEPT ![entry] = s[1]]
        /\ io_seq' = entry /\ io_seq_end' = s[n]
    BY <2>1, <2>2 DEF LinkHead
  <2>4. s[1] \in Entries
    BY <1>4, <2>1
  <2> QED BY <1>3, <1>6, <1>8, <2>1, <2>3, <2>4
<1>9. CASE k > 0 /\ k = n
  <2>1. k \in 1 .. n /\ dcurr = s[k] /\ dcurr # NIL /\ next[s[k]] = NIL /\ s[k] # entry
        /\ s[k] \in Entries /\ io_seq = s[1] /\ io_seq # NIL
    BY <1>2, <1>4, <1>5, <1>9 DEF At
  <2>2. LinkTail
    BY <1>1, <2>1 DEF LinkFirst, LinkHead, LinkBetween
  <2>3. /\ prev' = [prev EXCEPT ![entry] = s[k]] /\ next' = [next EXCEPT ![s[k]] = entry]
        /\ io_seq' = s[1] /\ io_seq_end' = entry
    BY <2>1, <2>2 DEF LinkTail
  <2> QED BY <1>3, <1>6, <1>9, <2>1, <2>3
<1>10. CASE k > 0 /\ k < n
  <2>1. /\ k \in 1 .. n /\ k + 1 \in 1 .. n /\ k # k + 1
        /\ io_seq = s[1] /\ io_seq # NIL
    BY <1>2, <1>4, <1>10
  <2>2. /\ dcurr = s[k] /\ dcurr # NIL /\ next[s[k]] = s[k + 1] /\ s[k + 1] # NIL
        /\ s[k] # entry /\ s[k + 1] # entry /\ s[k] # s[k + 1]
        /\ s[k] \in Entries /\ s[k + 1] \in Entries
    BY <1>4, <1>5, <1>10, <2>1 DEF At
  <2>3. LinkBetween
    BY <1>1, <2>1, <2>2 DEF LinkFirst, LinkHead, LinkTail
  <2>4. io_seq' = s[1] /\ io_seq_end' = s[n]
    BY <1>2, <1>10, <2>1, <2>3 DEF LinkBetween
  <2>5. prev' = [prev EXCEPT ![entry] = s[k], ![s[k + 1]] = entry]
    BY <2>2, <2>3 DEF LinkBetween
  <2>6. next' = [next EXCEPT ![entry] = s[k + 1], ![s[k]] = entry]
    BY <2>2, <2>3 DEF LinkBetween
  <2> QED BY <1>3, <1>6, <1>10, <2>1, <2>2, <2>4, <2>5, <2>6
<1> QED BY <1>7, <1>8, <1>9, <1>10

LEMMA LinkLists ==
  ASSUME CoreTypes, NEW n \in Nat, NEW m \in Nat, NEW s \in [1 .. n -> Entries],
         NEW f \in [1 .. m -> Entries], IsQueue(s, n, f, m), Link
  PROVE  \E q \in [1 .. n + 1 -> Entries] : /\ IsQueue(q, n + 1, f, m)'
                                            /\ Elems(q, n + 1) = Elems(s, n) \cup {entry}
<1>1. /\ dpc = "link" /\ dpc' \in {"alloc", "reclaim"}
      /\ UNCHANGED <<free_seq, free_seq_end, target, latest, entry>>
  BY DEF Link, NextOperation, workVars, workerVars
<1>2. PICK k \in 0 .. n : GoesBehind(s, n, k)
  BY <1>1 DEF IsQueue, Place
<1>3. /\ Threads(s, n, next) /\ Threads(f, m, next) /\ Backs(s, n, prev)
      /\ m > 0 /\ free_seq = f[1] /\ free_seq_end = f[m]
      /\ Elems(s, n) \cap Elems(f, m) = {}
      /\ Elems(s, n) \cup Elems(f, m) \cup Pending = Entries
      /\ Pending \cap (Elems(s, n) \cup Elems(f, m)) = {}
      /\ n + m + (IF Pending = {} THEN 0 ELSE 1) = N
  BY DEF IsQueue, Lists
<1>4. Pending = {entry} /\ Pending' = {}
  BY <1>1 DEF Pending
<1>5. entry \in Entries /\ entry \notin Elems(s, n) /\ entry \notin Elems(f, m)
  BY <1>3, <1>4
<1> PICK e : e = entry
  OBVIOUS
<1> DEFINE q == Ins(s, n, k, e)
<1>6. q \in [1 .. n + 1 -> Entries] /\ Elems(q, n + 1) = Elems(s, n) \cup {e}
  BY <1>5, InsElems
<1>7. /\ \A i \in 1 .. n : s[i] # entry /\ s[i] \in Entries
      /\ \A i \in 1 .. n : i # k => (k > 0 => s[i] # s[k])
      /\ \A i \in 1 .. n : i # k + 1 => (k < n => s[i] # s[k + 1])
  <2>1. k > 0 => k \in 1 .. n
    OBVIOUS
  <2>2. k < n => k + 1 \in 1 .. n
    OBVIOUS
  <2> QED BY <1>3, <1>5, <2>1, <2>2 DEF Elems, Threads
<1>8. Threads(q, n + 1, next')
  <2>1. /\ next'[entry] = IF k < n THEN s[k + 1] ELSE NIL
        /\ k > 0 => next'[s[k]] = entry
        /\ \A i \in 1 .. n : i # k => next'[s[i]] = next[s[i]]
    BY <1>2, <1>7, LinkCases, SMTT(30)
  <2> QED BY <1>3, <1>5, <2>1, InsThreads
<1>9. Backs(q, n + 1, prev')
  <2>1. /\ prev'[entry] = IF k > 0 THEN s[k] ELSE NIL
        /\ k < n => prev'[s[k + 1]] = entry
        /\ \A i \in 1 .. n : i # k + 1 => prev'[s[i]] = prev[s[i]]
    BY <1>2, <1>7, LinkCases
  <2> QED BY <1>3, <1>5, <2>1, InsBacks
<1>10. Threads(f, m, next')
  <2>1. \A i \in 1 .. m : /\ f[i] # entry /\ f[i] \in Entries
                          /\ k > 0 => f[i] # s[k]
    <3>1. k > 0 => s[k] \in Elems(s, n)
      BY DEF Elems
    <3>2. \A i \in 1 .. m : f[i] \in Elems(f, m) /\ f[i] \in Entries
      BY DEF Elems
    <3> QED BY <1>3, <1>5, <3>1, <3>2
  <2>2. \A i \in 1 .. m : next'[f[i]] = next[f[i]]
    BY <1>2, <2>1, LinkCases
  <2> QED BY <1>3, <2>2 DEF Threads
<1>11. /\ q[1] = IF k = 0 THEN entry ELSE s[1]
       /\ q[n + 1] = IF k = n THEN entry ELSE s[n]
  <2>1. 1 \in 1 .. n + 1 /\ n + 1 \in 1 .. n + 1 /\ (n + 1) - 1 = n
    OBVIOUS
  <2> QED BY <2>1 DEF Ins
<1>12. \A i \in 1 .. n + 1 : /\ i <= k => i \in 1 .. n /\ q[i] = s[i]
                             /\ i = k + 1 => q[i] = entry
                             /\ i > k + 1 => i - 1 \in 1 .. n /\ q[i] = s[i - 1]
                             /\ i <= k \/ i = k + 1 \/ i > k + 1
  BY DEF Ins
<1> HIDE DEF q
<1>13. Lists(q, n + 1, f, m)'
  <2>1. /\ io_seq' = IF n + 1 = 0 THEN NIL ELSE q[1]
        /\ io_seq_end' = q[n + 1] /\ n + 1 > 0
    <3>1. io_seq' = q[1] /\ io_seq_end' = q[n + 1]
      BY <1>2, <1>11, LinkCases, SMTT(30)
    <3> QED BY <3>1
  <2>2. /\ Elems(q, n + 1) \cap Elems(f, m) = {}
        /\ Elems(q, n + 1) \cup Elems(f, m) \cup Pending' = Entries
        /\ Pending' \cap (Elems(q, n + 1) \cup Elems(f, m)) = {}
    BY <1>3, <1>4, <1>5, <1>6
  <2>3. (n + 1) + m + (IF Pending' = {} THEN 0 ELSE 1) = N
    <3>1. n + m + 1 = N
      BY <1>3, <1>4
    <3> QED BY <1>4, <3>1
  <2> QED BY <1>1, <1>3, <1>8, <1>9, <1>10, <2>1, <2>2, <2>3 DEF Lists
<1>14. Place(q, n + 1)'
  BY <1>1 DEF Place
<1>15. Sorted(q, n + 1)'
  <2> SUFFICES ASSUME NEW i \in 1 .. n + 1, NEW j \in 1 .. n + 1, i < j
               PROVE  target[q[i]] <= target[q[j]] \/ target[q[i]] <= latest
    BY <1>1 DEF Sorted
  <2>1. \A a, b \in 1 .. n : a < b => target[s[a]] <= target[s[b]] \/ target[s[a]] <= latest
    BY DEF IsQueue, Sorted
  <2>2. /\ \A a \in 1 .. n : target[s[a]] \in Int
        /\ target[entry] \in Int /\ latest \in Int
    <3>1. /\ \A a \in Entries : target[a] \in Int
          /\ latest \in Int
      BY DEF CoreTypes, Time
    <3>2. \A a \in 1 .. n : s[a] \in Entries
      OBVIOUS
    <3> QED BY <1>5, <3>1, <3>2
  <2>3. CASE j = k + 1
    <3>1. i <= k /\ i \in 1 .. n /\ k \in 1 .. n /\ k > 0
      BY <2>3
    <3>2. target[s[k]] <= latest \/ target[s[k]] <= target[entry]
      <4>1. ~GoesBefore(entry, s[k])
        BY <1>1, <1>2, <3>1 DEF GoesBehind
      <4> QED BY <2>2, <3>1, <4>1 DEF GoesBefore
    <3>3. target[s[i]] <= latest \/ target[s[i]] <= target[s[k]]
      <4>1. i = k \/ i < k
        BY <3>1
      <4> QED BY <2>1, <2>2, <3>1, <4>1
    <3>4. target[s[i]] <= latest \/ target[s[i]] <= target[entry]
      BY <2>2, <3>1, <3>2, <3>3
    <3>5. q[i] = s[i] /\ q[j] = entry
      BY <1>12, <2>3, <3>1
    <3> QED BY <3>4, <3>5
  <2>4. CASE i = k + 1
    <3>1. j > k + 1 /\ j - 1 \in 1 .. n /\ j - 1 > k /\ q[j] = s[j - 1] /\ q[i] = entry
      BY <1>12, <2>4
    <3> QED BY <1>2, <3>1 DEF GoesBehind
  <2>5. CASE i <= k /\ j <= k
    BY <1>12, <2>1, <2>5
  <2>6. CASE i <= k /\ j > k + 1
    <3>1. i < j - 1
      BY <2>6
    <3> QED BY <1>12, <2>1, <2>6, <3>1
  <2>7. CASE i > k + 1 /\ j > k + 1
    <3>1. i - 1 < j - 1
      OBVIOUS
    <3> QED BY <1>12, <2>1, <2>7, <3>1
  <2>8. CASE i > k + 1 /\ j <= k
    BY <2>8
  <2> QED BY <1>12, <2>3, <2>4, <2>5, <2>6, <2>7, <2>8
<1> QED BY <1>6, <1>13, <1>14, <1>15 DEF IsQueue

\* The prefix that __reclaim_completed_reqs takes.
LEMMA PrefixIs ==
  ASSUME CoreTypes, NEW n \in Nat, NEW m \in Nat, NEW s \in [1 .. n -> Entries],
         NEW f \in [1 .. m -> Entries], Lists(s, n, f, m)
  PROVE  /\ PrefixLen \in 0 .. n
         /\ \A i \in 1 .. PrefixLen : Reclaimable(s[i])
<1> DEFINE Ok(p) == /\ \A k \in 0 .. p - 1 : /\ Step(io_seq)[k] # NIL
                                             /\ Reclaimable(Step(io_seq)[k])
                    /\ Step(io_seq)[p] = NIL \/ ~Reclaimable(Step(io_seq)[p])
           Stop == {k \in 0 .. N : Step(io_seq)[k] = NIL \/ ~Reclaimable(Step(io_seq)[k])}
<1>1. N \in Nat /\ n < N /\ \A k \in 0 .. N : Step(io_seq)[k] = IF k < n THEN s[k + 1] ELSE NIL
  BY ChainsAre, NilOutside
<1>2. \E p \in 0 .. N : Ok(p)
  <2>1. n \in Stop
    <3>1. n \in 0 .. N /\ ~(n < n)
      BY <1>1
    <3> QED BY <1>1, <3>1
  <2>2. Stop \in SUBSET Nat /\ Stop \subseteq 0 .. N
    OBVIOUS
  <2>3. PICK p \in Stop : \A y \in Stop : p <= y
    <3> HIDE DEF Stop
    <3> QED BY <2>1, <2>2, LeastNatural
  <2>4. p \in 0 .. N /\ p \in Nat
    BY <1>1, <2>2
  <2>5. \A k \in 0 .. p - 1 : k \in 0 .. N /\ ~(p <= k)
    BY <1>1, <2>4
  <2>6. \A k \in 0 .. p - 1 : k \notin Stop
    <3> HIDE DEF Stop
    <3> QED BY <2>3, <2>5
  <2> QED BY <2>3, <2>4, <2>5, <2>6
<1>3. PrefixLen \in 0 .. N /\ Ok(PrefixLen)
  <2>1. PrefixLen = CHOOSE p \in 0 .. N : Ok(p)
    BY DEF PrefixLen
  <2> HIDE DEF Ok
  <2> QED BY <1>2, <2>1
<1> DEFINE p == PrefixLen
<1> HIDE DEF p
<1>4. p \in Nat /\ p <= n
  <2>1. p \in Nat /\ p \in 0 .. N
    BY <1>1, <1>3 DEF p
  <2>2. SUFFICES ASSUME n < p PROVE FALSE
    BY <2>1
  <2>3. n \in 0 .. p - 1 /\ n \in 0 .. N /\ ~(n < n)
    BY <1>1, <2>1, <2>2
  <2> QED BY <1>1, <1>3, <2>3 DEF p
<1>5. ASSUME NEW i \in 1 .. p PROVE Reclaimable(s[i])
  <2>1. i - 1 \in 0 .. p - 1 /\ i - 1 < n /\ i - 1 \in 0 .. N /\ (i - 1) + 1 = i
    BY <1>1, <1>4
  <2>2. Reclaimable(Step(io_seq)[i - 1])
    BY <1>3, <2>1 DEF p
  <2>3. Step(io_seq)[i - 1] = s[i]
    BY <1>1, <2>1
  <2> QED BY <2>2, <2>3
<1> QED BY <1>4, <1>5 DEF p

\* __reclaim_completed_reqs moves the prefix behind the free list.
Moved(s, n, f, m, p) ==
  /\ next' = [next EXCEPT ![s[p]] = NIL, ![f[m]] = s[1]]
  /\ \A i \in 1 .. n : i > p + 1 => prev'[s[i]] = prev[s[i]]
  /\ p < n => prev'[s[p + 1]] = NIL
  /\ prev' \in [Entries -> EntryOrNil]
  /\ io_seq' = IF p < n THEN s[p + 1] ELSE NIL
  /\ free_seq_end' = s[p]
  /\ UNCHANGED <<io_seq_end, free_seq>>

LEMMA MovePrefix ==
  ASSUME CoreTypes, NEW n \in Nat, NEW m \in Nat, NEW s \in [1 .. n -> Entries],
         NEW f \in [1 .. m -> Entries], IsQueue(s, n, f, m), Reclaim,
         NEW p \in 1 .. n, p = PrefixLen
  PROVE  Moved(s, n, f, m, p)
<1>1. /\ n > 0 /\ p - 1 \in 0 .. N /\ p - 1 < n /\ (p - 1) + 1 = p
      /\ 1 \in 1 .. n /\ PrefixLen # 0
  <2>1. N \in Nat /\ n < N
    BY ChainsAre, NilOutside DEF IsQueue
  <2> QED BY <2>1
<1>2. Step(io_seq)[p - 1] = s[p]
  BY <1>1, ChainsAre DEF IsQueue
<1>3. io_seq = s[1] /\ free_seq_end = f[m] /\ Threads(s, n, next)
  BY <1>1 DEF IsQueue, Lists
<1>4. next[s[p]] = IF p < n THEN s[p + 1] ELSE NIL
  BY <1>3 DEF Threads
<1>5. Step(io_seq)[PrefixLen - 1] = s[p]
  BY <1>2
<1>6. /\ next' = [next EXCEPT ![s[p]] = NIL, ![f[m]] = s[1]]
      /\ prev' = [e \in Entries |-> CASE e = s[1] -> f[m]
                                      [] e = next[s[p]] -> NIL
                                      [] OTHER -> prev[e]]
      /\ io_seq' = next[s[p]]
      /\ free_seq_end' = s[p]
      /\ UNCHANGED <<io_seq_end, free_seq>>
  BY <1>1, <1>3, <1>5 DEF Reclaim
<1>7. \A i \in 1 .. n : i > p + 1 => i # 1 /\ i # p + 1 /\ p < n /\ p + 1 \in 1 .. n
  OBVIOUS
<1>8. \A i, j \in 1 .. n : s[i] = s[j] => i = j
  BY <1>3 DEF Threads
<1>9. ASSUME NEW i \in 1 .. n, i > p + 1 PROVE prev'[s[i]] = prev[s[i]]
  <2>1. s[i] # s[1] /\ s[i] # next[s[p]] /\ s[i] \in Entries
    BY <1>1, <1>4, <1>7, <1>8, <1>9
  <2> QED BY <1>6, <2>1
<1>10. ASSUME p < n PROVE prev'[s[p + 1]] = NIL
  <2>1. p + 1 \in 1 .. n /\ p + 1 # 1
    BY <1>10
  <2>2. s[p + 1] # s[1] /\ s[p + 1] = next[s[p]] /\ s[p + 1] \in Entries
    BY <1>1, <1>4, <1>8, <1>10, <2>1
  <2> QED BY <1>6, <2>2
<1>11. prev' \in [Entries -> EntryOrNil]
  <2>1. f[m] \in EntryOrNil /\ \A e \in Entries : prev[e] \in EntryOrNil
    BY DEF EntryOrNil, CoreTypes, IsQueue, Lists
  <2> QED BY <1>6, <2>1 DEF EntryOrNil
<1> QED BY <1>4, <1>6, <1>9, <1>10, <1>11 DEF Moved

Reclaims(s, n, f, m, p) ==
  /\ \A i \in 1 .. p : Reclaimable(s[i])
  /\ n - p \in Nat /\ m + p \in Nat
  /\ \E q \in [1 .. n - p -> Entries], g \in [1 .. m + p -> Entries] :
       /\ IsQueue(q, n - p, g, m + p)'
       /\ Elems(q, n - p) = {s[i] : i \in p + 1 .. n}
       /\ Elems(g, m + p) = Elems(f, m) \cup {s[i] : i \in 1 .. p}
  /\ \A e \in Elems(f, m) : \/ next'[e] = next[e]
                            \/ next'[e] \in {s[i] : i \in 1 .. p}
  /\ \A i \in 1 .. p : next'[s[i]] = NIL \/ next'[s[i]] \in {s[j] : j \in 1 .. p}

LEMMA ReclaimLists ==
  ASSUME CoreTypes, NEW n \in Nat, NEW m \in Nat, NEW s \in [1 .. n -> Entries],
         NEW f \in [1 .. m -> Entries], IsQueue(s, n, f, m), Reclaim
  PROVE  \E p \in 0 .. n : Reclaims(s, n, f, m, p)
<1>1. PICK p : p = PrefixLen
  OBVIOUS
<1>2. p \in 0 .. n /\ \A i \in 1 .. p : Reclaimable(s[i])
  BY <1>1, PrefixIs DEF IsQueue
<1>3. n - p \in Nat /\ m + p \in Nat /\ p \in Nat
  BY <1>2
<1>4. /\ dpc = "reclaim" /\ dpc' = "idle" /\ UNCHANGED <<target, latest>>
      /\ Pending = {} /\ Pending' = {}
  BY DEF Reclaim, workVars, workerVars, Pending
<1>5. CASE p = 0
  <2>1. UNCHANGED listVars
    BY <1>1, <1>5 DEF Reclaim
  <2>2. IsQueue(s, n, f, m)'
    <3>1. Lists(s, n, f, m)'
      BY <1>4, <2>1, ListsAside DEF IsQueue
    <3>2. Place(s, n)'
      BY <1>4 DEF Place
    <3>3. Sorted(s, n)'
      BY <1>4 DEF IsQueue, Sorted
    <3> QED BY <3>1, <3>2, <3>3 DEF IsQueue
  <2>3. n - p = n /\ m + p = m /\ p + 1 .. n = 1 .. n /\ 1 .. p = {}
    BY <1>5
  <2>4. next' = next
    BY <2>1 DEF listVars
  <2>5. Elems(s, n - p) = {s[i] : i \in p + 1 .. n}
    BY <2>3 DEF Elems
  <2>6. Elems(f, m + p) = Elems(f, m) \cup {s[i] : i \in 1 .. p}
    BY <2>3 DEF Elems
  <2>7. IsQueue(s, n - p, f, m + p)'
    BY <2>2, <2>3
  <2>8. \E q \in [1 .. n - p -> Entries], g \in [1 .. m + p -> Entries] :
           /\ IsQueue(q, n - p, g, m + p)'
           /\ Elems(q, n - p) = {s[i] : i \in p + 1 .. n}
           /\ Elems(g, m + p) = Elems(f, m) \cup {s[i] : i \in 1 .. p}
    <3>1. s \in [1 .. n - p -> Entries] /\ f \in [1 .. m + p -> Entries]
      BY <2>3
    <3> QED BY <2>5, <2>6, <2>7, <3>1
  <2> QED BY <1>2, <1>3, <2>3, <2>4, <2>8 DEF Reclaims
<1>6. CASE p # 0
  <2> DEFINE q == Drop(s, n, p)
             g == Join(f, m, s, p)
             P == {s[i] : i \in 1 .. p}
  <2>1. p \in 1 .. n /\ n > 0 /\ 1 \in 1 .. n
    BY <1>2, <1>6
  <2>2. /\ next' = [next EXCEPT ![s[p]] = NIL, ![f[m]] = s[1]]
        /\ \A i \in 1 .. n : i > p + 1 => prev'[s[i]] = prev[s[i]]
        /\ p < n => prev'[s[p + 1]] = NIL
        /\ io_seq' = IF p < n THEN s[p + 1] ELSE NIL
        /\ free_seq_end' = s[p]
        /\ UNCHANGED <<io_seq_end, free_seq>>
    <3>1. Moved(s, n, f, m, p)
      BY <1>1, <2>1, MovePrefix
    <3> QED BY <3>1 DEF Moved
  <2>3. /\ Threads(s, n, next) /\ Threads(f, m, next) /\ Backs(s, n, prev)
        /\ n > 0 => io_seq_end = s[n]
        /\ m > 0 /\ free_seq = f[1] /\ free_seq_end = f[m]
        /\ Elems(s, n) \cap Elems(f, m) = {}
        /\ Elems(s, n) \cup Elems(f, m) \cup Pending = Entries
        /\ n + m + (IF Pending = {} THEN 0 ELSE 1) = N
    BY DEF IsQueue, Lists
  <2>4. /\ m \in 1 .. m /\ \A i \in 1 .. n, j \in 1 .. m : s[i] # f[j]
        /\ \A i \in 1 .. n : s[i] \in Entries
        /\ \A j \in 1 .. m : f[j] \in Entries
    BY <2>3, SMTT(30) DEF Elems
  <2>5. /\ \A i, j \in 1 .. n : s[i] = s[j] => i = j
        /\ \A i, j \in 1 .. m : f[i] = f[j] => i = j
    BY <2>3 DEF Threads
  <2>6. /\ next'[s[p]] = NIL /\ next'[f[m]] = s[1]
        /\ \A e \in Entries : e # s[p] /\ e # f[m] => next'[e] = next[e]
    <3>1. next \in [Entries -> EntryOrNil]
      BY DEF CoreTypes
    <3> QED BY <2>1, <2>2, <2>4, <3>1
  <2>7. /\ \A i \in 1 .. n : i # p => next'[s[i]] = next[s[i]]
        /\ \A i \in 1 .. m : i # m => next'[f[i]] = next[f[i]]
    BY <2>1, <2>4, <2>5, <2>6
  <2>8. /\ q \in [1 .. n - p -> Entries] /\ Threads(q, n - p, next')
        /\ Elems(q, n - p) = {s[i] : i \in p + 1 .. n}
    <3>1. \A i \in 1 .. n : i > p => next'[s[i]] = next[s[i]]
      BY <1>3, <2>7
    <3> QED BY <1>2, <2>3, <3>1, DropList, ZenonT(30)
  <2>9. Backs(q, n - p, prev')
    BY <1>2, <2>2, <2>3, DropBacks
  <2>10. /\ g \in [1 .. m + p -> Entries] /\ Threads(g, m + p, next')
         /\ Elems(g, m + p) = Elems(f, m) \cup P
    <3>1. /\ \A i \in 1 .. n : i < p => next'[s[i]] = next[s[i]]
          /\ \A i \in 1 .. m : i < m => next'[f[i]] = next[f[i]]
      BY <1>3, <2>7
    <3>2. Rehung(f, m, s, n, p, next, next')
      BY <2>4, <2>6, <3>1 DEF Rehung
    <3> QED BY <2>1, <2>3, <3>2, JoinList DEF P
  <2>11. /\ p < n => q[1] = s[p + 1] /\ q[n - p] = s[n]
         /\ g[1] = f[1] /\ g[m + p] = s[p]
    <3>1. /\ p < n => 1 \in 1 .. n - p /\ n - p \in 1 .. n - p /\ 1 + p = p + 1 /\ (n - p) + p = n
          /\ 1 \in 1 .. m + p /\ 1 <= m /\ m + p \in 1 .. m + p /\ ~(m + p <= m) /\ (m + p) - m = p
      BY <1>3, <2>1, <2>3
    <3> QED BY <3>1 DEF Drop, Join
  <2>12. Elems(q, n - p) \cup P = Elems(s, n) /\ Elems(q, n - p) \cap P = {}
    <3>1. /\ \A i \in 1 .. n : i \in 1 .. p \/ i \in p + 1 .. n
          /\ \A i \in 1 .. p : i \in 1 .. n
          /\ \A i \in p + 1 .. n : i \in 1 .. n
          /\ \A i \in p + 1 .. n, j \in 1 .. p : i # j
      BY <1>3, <2>1
    <3>2. P \subseteq Elems(s, n) /\ Elems(q, n - p) \subseteq Elems(s, n)
      BY <2>8, <3>1 DEF Elems
    <3>3. Elems(s, n) \subseteq Elems(q, n - p) \cup P
      BY <2>8, <3>1 DEF Elems
    <3>4. Elems(q, n - p) \cap P = {}
      BY <2>5, <2>8, <3>1
    <3> HIDE DEF P, q
    <3> QED BY <3>2, <3>3, <3>4
  <2>13. \A i \in 1 .. n - p : q[i] = s[i + p] /\ i + p \in 1 .. n
    BY <1>3 DEF Drop
  <2>14. \A e \in Elems(f, m) : next'[e] = next[e] \/ next'[e] \in P
    <3>1. s[1] \in P
      BY <2>1
    <3> HIDE DEF P
    <3>2. ASSUME NEW i \in 1 .. m PROVE next'[f[i]] = next[f[i]] \/ next'[f[i]] \in P
      BY <2>6, <2>7, <3>1
    <3> QED BY <3>2 DEF Elems
  <2>15. \A i \in 1 .. p : next'[s[i]] = NIL \/ next'[s[i]] \in P
    <3>1. ASSUME NEW i \in 1 .. p, i # p PROVE next'[s[i]] \in P
      <4>1. i \in 1 .. n /\ i < n /\ i + 1 \in 1 .. p
        BY <2>1, <3>1
      <4>2. next'[s[i]] = s[i + 1]
        BY <2>3, <2>7, <3>1, <4>1 DEF Threads
      <4> QED BY <4>1, <4>2
    <3> QED BY <2>6, <3>1
  <2> HIDE DEF q, g, P
  <2>16. Lists(q, n - p, g, m + p)'
    <3>1. n - p = 0 <=> ~(p < n)
      BY <1>3, <2>1
    <3>2. /\ io_seq' = IF n - p = 0 THEN NIL ELSE q[1]
          /\ n - p > 0 => io_seq_end' = q[n - p]
      BY <1>3, <2>1, <2>2, <2>3, <2>11, <3>1
    <3>3. m + p > 0 /\ free_seq' = g[1] /\ free_seq_end' = g[m + p]
      BY <1>3, <2>1, <2>2, <2>3, <2>11
    <3>4. /\ Elems(q, n - p) \cap Elems(g, m + p) = {}
          /\ Elems(q, n - p) \cup Elems(g, m + p) \cup Pending' = Entries
          /\ Pending' \cap (Elems(q, n - p) \cup Elems(g, m + p)) = {}
      BY <1>4, <2>3, <2>10, <2>12
    <3>5. (n - p) + (m + p) + (IF Pending' = {} THEN 0 ELSE 1) = N
      <4>1. n + m = N
        BY <1>4, <2>3
      <4> QED BY <1>3, <1>4, <4>1
    <3> QED BY <2>8, <2>9, <2>10, <3>2, <3>3, <3>4, <3>5 DEF Lists
  <2>17. Place(q, n - p)'
    BY <1>4 DEF Place
  <2>18. Sorted(q, n - p)'
    <3>1. \A i, j \in 1 .. n - p : i < j => i + p < j + p
      BY <1>3
    <3>2. \A i, j \in 1 .. n - p : i < j => target[q[i]] <= target[q[j]] \/ target[q[i]] <= latest
      BY <2>13, <3>1 DEF IsQueue, Sorted
    <3> QED BY <1>4, <3>2 DEF Sorted
  <2>19. IsQueue(q, n - p, g, m + p)'
    BY <2>16, <2>17, <2>18 DEF IsQueue
  <2>20. \E qq \in [1 .. n - p -> Entries], gg \in [1 .. m + p -> Entries] :
           /\ IsQueue(qq, n - p, gg, m + p)'
           /\ Elems(qq, n - p) = {s[i] : i \in p + 1 .. n}
           /\ Elems(gg, m + p) = Elems(f, m) \cup {s[i] : i \in 1 .. p}
    BY <2>8, <2>10, <2>19 DEF P
  <2> QED BY <1>2, <1>3, <2>14, <2>15, <2>20 DEF P, Reclaims
<1> QED BY <1>5, <1>6

-----------------------------------------------------------------------------
(***************************************************************************)
(* The invariant of the lists is inductive, whatever the worker does.      *)
(***************************************************************************)
\* The entry in the dispatcher's hands is an entry.
LEMMA HeldEntry ==
  ASSUME CoreInv, Pending # {}
  PROVE  entry \in Entries
BY DEF CoreInv, IsQueue, Lists, Pending

LEMMA InitCore ==
  ASSUME Init
  PROVE  CoreInv
<1>1. /\ N \in Nat /\ N > 1 /\ NReqs \in Nat /\ BufferSize \in Nat /\ MaxTime \in Nat
      /\ 0 \in Entries /\ N - 1 \in Entries /\ NIL \in EntryOrNil /\ 0 \in Time
      /\ 0 \in 0 .. NReqs
  BY IoWorkerAssumption DEF Entries, NIL, EntryOrNil, Time
<1>2. CoreTypes
  <2>1. next \in [Entries -> EntryOrNil]
    BY <1>1 DEF Init, Entries, EntryOrNil, NIL
  <2>2. prev \in [Entries -> EntryOrNil]
    BY <1>1 DEF Init, Entries, EntryOrNil, NIL
  <2>3. /\ req \in [Entries -> 0 .. NReqs] /\ target \in [Entries -> Time]
        /\ completed \in [Entries -> BOOLEAN] /\ copied \in [Entries -> BOOLEAN]
        /\ internal \in [Entries -> BOOLEAN]
    BY <1>1 DEF Init
  <2>4. /\ copies \in [Requests -> Nat] /\ posted \in [Requests -> Nat]
        /\ dropped \subseteq Requests \X BOOLEAN
    BY DEF Init
  <2>5. buf \in Int /\ latest <= now
    BY <1>1 DEF Init
  <2>6. /\ io_seq \in EntryOrNil /\ io_seq_end \in EntryOrNil
        /\ free_seq \in Entries /\ free_seq_end \in Entries
        /\ latest \in Time /\ now \in Time
        /\ sq \in 0 .. NReqs /\ dpc \in DispPCs /\ entry \in EntryOrNil
        /\ dpc # "idle" => sq \in Requests
        /\ isint \in BOOLEAN /\ due \in Time /\ idue \in Time /\ dcurr \in EntryOrNil
        /\ wpc \in WorkerPCs /\ curr \in EntryOrNil
        /\ (wpc = "top" <=> curr = NIL)
    BY <1>1 DEF Init, DispPCs, WorkerPCs
  <2> QED BY <2>1, <2>2, <2>3, <2>4, <2>5, <2>6 DEF CoreTypes
<1> DEFINE f == [i \in 1 .. N |-> i - 1]
           s == [i \in 1 .. 0 |-> 0]
<1>3. f \in [1 .. N -> Entries] /\ s \in [1 .. 0 -> Entries]
  BY <1>1 DEF Entries
<1>4. /\ 1 .. 0 = {} /\ Pending = {} /\ ~(0 > 0)
  BY DEF Init, Pending
<1>5. Threads(f, N, next)
  <2>1. ASSUME NEW i \in 1 .. N, NEW j \in 1 .. N, f[i] = f[j] PROVE i = j
    BY <2>1
  <2>2. ASSUME NEW i \in 1 .. N PROVE next[f[i]] = IF i < N THEN f[i + 1] ELSE NIL
    <3>1. i - 1 \in Entries /\ (i - 1 = N - 1 <=> ~(i < N)) /\ (i - 1) + 1 = (i + 1) - 1
          /\ (i < N => i + 1 \in 1 .. N)
      BY <1>1 DEF Entries
    <3>2. next[i - 1] = IF i - 1 = N - 1 THEN NIL ELSE (i - 1) + 1
      BY <3>1 DEF Init
    <3> QED BY <3>1, <3>2
  <2> QED BY <2>1, <2>2 DEF Threads
<1>6. Elems(f, N) = Entries
  <2>1. \A e \in Entries : e + 1 \in 1 .. N /\ f[e + 1] = e
    BY <1>1 DEF Entries
  <2>2. \A i \in 1 .. N : f[i] \in Entries
    BY <1>3
  <2> QED BY <2>1, <2>2 DEF Elems
<1>7. f[1] = 0 /\ f[N] = N - 1
  BY <1>1
<1>8. Threads(s, 0, next) /\ Backs(s, 0, prev) /\ Elems(s, 0) = {} /\ Sorted(s, 0)
  BY <1>4 DEF Threads, Backs, Elems, Sorted
<1>9. Place(s, 0)
  BY DEF Place, Init
<1> HIDE DEF s, f
<1>10. Lists(s, 0, f, N)
  <2>1. 0 + N + (IF Pending = {} THEN 0 ELSE 1) = N
    BY <1>1, <1>4
  <2>2. N > 0 /\ free_seq = f[1] /\ free_seq_end = f[N] /\ io_seq = NIL
    BY <1>1, <1>7 DEF Init
  <2> QED BY <1>4, <1>5, <1>6, <1>8, <2>1, <2>2 DEF Lists
<1>11. IsQueue(s, 0, f, N)
  BY <1>8, <1>9, <1>10 DEF IsQueue
<1> QED BY <1>1, <1>2, <1>3, <1>11 DEF CoreInv

\* The types of what a step of the dispatcher writes.
LEMMA DispatcherTypes ==
  ASSUME CoreInv, Dispatcher
  PROVE  CoreTypes'
<1>1. CoreTypes
  BY DEF CoreInv
<1>2. /\ NReqs \in Nat /\ MaxTime \in Nat /\ Entries \subseteq EntryOrNil /\ NIL \in EntryOrNil
      /\ NIL \notin Entries /\ \A x \in EntryOrNil : x # NIL => x \in Entries
  BY IoWorkerAssumption, NilOutside DEF EntryOrNil
<1>3. CASE Fetch
  <2>1. sq' \in 0 .. NReqs /\ sq' \in Requests /\ buf' \in Int
    BY <1>1, <1>2, <1>3 DEF Fetch, CoreTypes, Requests
  <2>2. due' \in Time /\ idue' \in Time
    <3>1. now \in Nat /\ now <= MaxTime
      BY <1>1, <1>2 DEF CoreTypes, Time
    <3>2. PICK t \in now .. MaxTime : /\ due' = t
                                      /\ idue' \in IF sq + 1 \in Writes THEN t .. MaxTime ELSE {t}
      BY <1>3 DEF Fetch
    <3>3. t \in Time /\ t .. MaxTime \subseteq Time
      BY <1>2, <3>1 DEF Time
    <3> QED BY <3>2, <3>3
  <2>3. isint' \in BOOLEAN
    BY <1>3 DEF Fetch
  <2> QED BY <1>1, <1>3, <2>1, <2>2, <2>3
          DEF Fetch, CoreTypes, workVars, listVars, workerVars, hostVars, DispPCs
<1>4. CASE AllocFails
  <2>1. dropped' \subseteq Requests \X BOOLEAN
    <3>1. sq \in Requests /\ isint \in BOOLEAN /\ dropped \subseteq Requests \X BOOLEAN
      BY <1>1, <1>4 DEF AllocFails, CoreTypes
    <3>2. dropped' = dropped \cup {<<sq, isint>>}
      BY <1>4 DEF AllocFails
    <3> QED BY <3>1, <3>2
  <2>2. dpc' \in DispPCs /\ dpc' # "idle" /\ dpc # "idle" /\ isint' \in BOOLEAN
    BY <1>4 DEF AllocFails, NextOperation, DispPCs
  <2> QED BY <1>1, <1>4, <2>1, <2>2
          DEF AllocFails, CoreTypes, workVars, listVars, workerVars, hostVars
<1>5. CASE Alloc
  <2>1. free_seq \in Entries /\ free_seq' \in Entries /\ entry' \in EntryOrNil
    BY <1>1, <1>2, <1>5 DEF Alloc, CoreTypes
  <2>2. /\ req' \in [Entries -> 0 .. NReqs] /\ target' \in [Entries -> Time]
        /\ completed' \in [Entries -> BOOLEAN]
    BY <1>1, <1>5, <2>1 DEF Alloc, CoreTypes
  <2> QED BY <1>1, <1>5, <2>1, <2>2 DEF Alloc, CoreTypes, workerVars, hostVars, DispPCs
<1>6. CASE InitEntry
  <2>1. entry \in Entries
    BY <1>6, HeldEntry DEF InitEntry, Pending
  <2>2. copied' \in [Entries -> BOOLEAN]
    BY <1>1, <1>6, <2>1 DEF InitEntry, CoreTypes
  <2>3. next' \in [Entries -> EntryOrNil] /\ prev' \in [Entries -> EntryOrNil]
    BY <1>1, <1>2, <1>6, <2>1 DEF InitEntry, CoreTypes
  <2> QED BY <1>1, <1>6, <2>2, <2>3 DEF InitEntry, CoreTypes, workerVars, hostVars, DispPCs
<1>7. CASE InitInternal
  <2>1. entry \in Entries
    BY <1>7, HeldEntry DEF InitInternal, Pending
  <2>2. internal' \in [Entries -> BOOLEAN]
    BY <1>1, <1>7, <2>1 DEF InitInternal, CoreTypes
  <2>3. dcurr' \in EntryOrNil /\ dpc' \in DispPCs /\ dpc # "idle"
    BY <1>1, <1>2, <1>7 DEF InitInternal, CoreTypes, DispPCs
  <2> QED BY <1>1, <1>7, <2>2, <2>3 DEF InitInternal, CoreTypes, listVars, workerVars, hostVars
<1>8. CASE Scan
  <2>1. dcurr' \in EntryOrNil /\ dpc' \in DispPCs /\ dpc # "idle"
    BY <1>1, <1>2, <1>8 DEF Scan, CoreTypes, DispPCs
  <2> QED BY <1>1, <1>8, <2>1 DEF Scan, CoreTypes, workVars, listVars, workerVars, hostVars
<1>9. CASE Link
  <2>1. entry \in Entries /\ dpc = "link"
    BY <1>9, HeldEntry DEF Link, Pending
  <2>2. dpc' \in DispPCs /\ isint' \in BOOLEAN /\ dpc # "idle"
    BY <1>9, <2>1 DEF Link, NextOperation, DispPCs
  <2>3. /\ next' \in [Entries -> EntryOrNil] /\ prev' \in [Entries -> EntryOrNil]
        /\ io_seq' \in EntryOrNil /\ io_seq_end' \in EntryOrNil
    <3>1. /\ next \in [Entries -> EntryOrNil] /\ prev \in [Entries -> EntryOrNil]
          /\ io_seq \in EntryOrNil /\ io_seq_end \in EntryOrNil /\ dcurr \in EntryOrNil
      BY <1>1 DEF CoreTypes
    <3>2. CASE LinkFirst
      BY <1>2, <2>1, <3>1, <3>2 DEF LinkFirst
    <3>3. CASE LinkHead
      BY <1>2, <2>1, <3>1, <3>3 DEF LinkHead
    <3>4. CASE LinkTail
      BY <1>2, <2>1, <3>1, <3>4 DEF LinkTail
    <3>5. CASE LinkBetween
      BY <1>2, <2>1, <3>1, <3>5 DEF LinkBetween
    <3> QED BY <1>9, <3>2, <3>3, <3>4, <3>5 DEF Link
  <2> QED BY <1>1, <1>9, <2>2, <2>3 DEF Link, CoreTypes, workVars, workerVars, hostVars
<1>10. CASE Reclaim
  <2> PICK n \in Nat, m \in Nat : \E s \in [1 .. n -> Entries], f \in [1 .. m -> Entries] :
                                    IsQueue(s, n, f, m)
    BY DEF CoreInv
  <2>1. PICK s \in [1 .. n -> Entries], f \in [1 .. m -> Entries] : IsQueue(s, n, f, m)
    OBVIOUS
  <2>2. /\ next' \in [Entries -> EntryOrNil] /\ prev' \in [Entries -> EntryOrNil]
        /\ io_seq' \in EntryOrNil /\ free_seq_end' \in Entries
        /\ UNCHANGED <<io_seq_end, free_seq>>
    <3>1. PICK p : p = PrefixLen
      OBVIOUS
    <3>2. CASE p = 0
      BY <1>1, <1>10, <3>1, <3>2 DEF Reclaim, CoreTypes, listVars
    <3>3. CASE p # 0
      <4>1. p \in 0 .. n
        BY <1>1, <2>1, <3>1, PrefixIs DEF IsQueue
      <4>2. p \in 1 .. n /\ (p < n => p + 1 \in 1 .. n)
        BY <3>3, <4>1
      <4>3. Moved(s, n, f, m, p)
        BY <1>1, <1>10, <2>1, <3>1, <4>2, MovePrefix
      <4>4. 1 \in 1 .. n /\ s[p] \in Entries /\ s[1] \in Entries
        BY <4>2
      <4>5. next' \in [Entries -> EntryOrNil]
        BY <1>1, <1>2, <4>3, <4>4 DEF Moved, CoreTypes
      <4> QED BY <1>2, <4>2, <4>3, <4>4, <4>5 DEF Moved
    <3> QED BY <3>2, <3>3
  <2>3. 0 \in Time
    BY <1>2 DEF Time
  <2> QED BY <1>1, <1>2, <1>10, <2>2, <2>3
          DEF Reclaim, CoreTypes, workVars, workerVars, hostVars, DispPCs
<1> QED BY <1>3, <1>4, <1>5, <1>6, <1>7, <1>8, <1>9, <1>10 DEF Dispatcher

LEMMA WorkerTypes ==
  ASSUME CoreTypes, Worker \/ Tick \/ UNCHANGED vars
  PROVE  CoreTypes' /\ latest <= latest'
<1>1. /\ MaxTime \in Nat /\ NIL \notin Entries /\ NIL \in EntryOrNil
      /\ \A x \in EntryOrNil : x # NIL => x \in Entries
      /\ latest \in Nat /\ now \in Nat /\ latest <= now
  BY IoWorkerAssumption, NilOutside DEF EntryOrNil, CoreTypes, Time
<1>2. CASE StartPass
  BY <1>1, <1>2 DEF StartPass, CoreTypes, workVars, listVars, dispVars, hostVars, WorkerPCs
<1>3. CASE Visit
  BY <1>1, <1>3 DEF Visit, CoreTypes, workVars, listVars, dispVars, hostVars, WorkerPCs
<1>4. CASE Copy
  <2>1. copied' \in [Entries -> BOOLEAN] /\ copies' \in [Requests -> Nat]
    <3>1. curr \in Entries
      BY <1>1, <1>4 DEF Copy, CoreTypes
    <3>2. copies \in [Requests -> Nat] /\ copied \in [Entries -> BOOLEAN]
      BY DEF CoreTypes
    <3>3. copied' \in [Entries -> BOOLEAN]
      BY <1>4, <3>1, <3>2 DEF Copy
    <3>4. copies' \in [Requests -> Nat]
      <4>1. copies' = copies \/ copies' = [copies EXCEPT ![req[curr]] = @ + 1]
        BY <1>4 DEF Copy
      <4> QED BY <3>2, <4>1
    <3> QED BY <3>3, <3>4
  <2>2. wpc = "copy" /\ wpc' = "test" /\ UNCHANGED <<curr, latest>>
    BY <1>4 DEF Copy
  <2> QED BY <1>1, <1>4, <2>1, <2>2 DEF Copy, CoreTypes, listVars, dispVars, WorkerPCs
<1>5. CASE Test
  <2>1. posted' \in [Requests -> Nat] /\ buf' \in Int
    <3>1. posted \in [Requests -> Nat] /\ buf \in Int
      BY DEF CoreTypes
    <3>2. CASE Complete
      BY <3>1, <3>2 DEF Complete
    <3>3. CASE UNCHANGED <<buf, posted>>
      BY <3>1, <3>3
    <3> QED BY <1>5, <3>2, <3>3 DEF Test
  <2>2. wpc = "test" /\ wpc' \in {"mark", "next"} /\ UNCHANGED <<curr, latest>>
    BY <1>5 DEF Test
  <2> QED BY <1>1, <1>5, <2>1, <2>2 DEF Test, CoreTypes, workVars, listVars, dispVars, WorkerPCs
<1>6. CASE Mark
  <2>1. completed' \in [Entries -> BOOLEAN]
    BY <1>6 DEF Mark, CoreTypes
  <2>2. wpc = "mark" /\ wpc' = "next" /\ UNCHANGED <<curr, latest>>
    BY <1>6 DEF Mark
  <2> QED BY <1>1, <1>6, <2>1, <2>2 DEF Mark, CoreTypes, listVars, dispVars, hostVars, WorkerPCs
<1>7. CASE NextEntry
  <2>1. curr \in Entries
    BY <1>1, <1>7 DEF NextEntry, CoreTypes
  <2> QED BY <1>1, <1>7, <2>1
          DEF NextEntry, CoreTypes, workVars, listVars, dispVars, hostVars, WorkerPCs
<1>8. CASE Tick
  <2>1. now' \in Time /\ latest <= now'
    BY <1>1, <1>8 DEF Tick, Time
  <2> QED BY <1>1, <1>8, <2>1
          DEF Tick, CoreTypes, workVars, listVars, dispVars, workerVars, hostVars
<1>9. CASE UNCHANGED vars
  BY <1>1, <1>9 DEF vars, CoreTypes, workVars, listVars, dispVars, workerVars, hostVars
<1> QED BY <1>2, <1>3, <1>4, <1>5, <1>6, <1>7, <1>8, <1>9 DEF Worker

LEMMA CoreInductive ==
  ASSUME CoreInv, [Next]_vars
  PROVE  CoreInv'
<1>1. CoreTypes
  BY DEF CoreInv
<1> PICK n \in Nat, m \in Nat : \E s \in [1 .. n -> Entries], f \in [1 .. m -> Entries] :
                                  IsQueue(s, n, f, m)
  BY DEF CoreInv
<1>2. PICK s \in [1 .. n -> Entries], f \in [1 .. m -> Entries] : IsQueue(s, n, f, m)
  OBVIOUS
<1>3. CASE Dispatcher
  <2>1. CoreTypes'
    BY <1>3, DispatcherTypes
  <2>2. CASE Fetch \/ AllocFails
    <3>1. /\ UNCHANGED <<listVars, target, latest>> /\ Pending' = Pending
          /\ dpc' \notin {"init2", "scan", "link"}
      BY <2>2 DEF Fetch, AllocFails, NextOperation, workVars, workerVars, Pending
    <3>2. Lists(s, n, f, m)'
      BY <1>2, <3>1, ListsAside DEF IsQueue
    <3>3. Place(s, n)' /\ Sorted(s, n)'
      BY <1>2, <3>1 DEF IsQueue, Place, Sorted
    <3> QED BY <2>1, <3>2, <3>3 DEF CoreInv, IsQueue
  <2>3. CASE Alloc
    <3>1. /\ m - 1 \in Nat /\ Drop(f, m, 1) \in [1 .. m - 1 -> Entries]
          /\ IsQueue(s, n, Drop(f, m, 1), m - 1)'
      BY <1>1, <1>2, <2>3, AllocLists
    <3> QED BY <2>1, <3>1 DEF CoreInv
  <2>4. CASE InitEntry
    BY <1>1, <1>2, <2>1, <2>4, InitLists, ZenonT(30) DEF CoreInv
  <2>5. CASE InitInternal
    BY <1>1, <1>2, <2>1, <2>5, BeginLists, ZenonT(30) DEF CoreInv
  <2>6. CASE Scan
    BY <1>1, <1>2, <2>1, <2>6, ScanLists, ZenonT(30) DEF CoreInv
  <2>7. CASE Link
    <3>1. PICK q \in [1 .. n + 1 -> Entries] : IsQueue(q, n + 1, f, m)'
      BY <1>1, <1>2, <2>7, LinkLists
    <3>2. n + 1 \in Nat
      OBVIOUS
    <3> QED BY <2>1, <3>1, <3>2 DEF CoreInv
  <2>8. CASE Reclaim
    <3>1. PICK p \in 0 .. n : Reclaims(s, n, f, m, p)
      BY <1>1, <1>2, <2>8, ReclaimLists
    <3> QED BY <2>1, <3>1 DEF CoreInv, Reclaims
  <2> QED BY <1>3, <2>2, <2>3, <2>4, <2>5, <2>6, <2>7, <2>8 DEF Dispatcher
<1>4. CASE Worker \/ Tick \/ UNCHANGED vars
  <2>1. CoreTypes' /\ latest <= latest' /\ latest' \in Time
    <3>1. CoreTypes' /\ latest <= latest'
      BY <1>1, <1>4, WorkerTypes
    <3> QED BY <3>1 DEF CoreTypes
  <2>2. UNCHANGED <<listVars, dispVars, target>>
    BY <1>4 DEF Worker, StartPass, Visit, Copy, Test, Mark, NextEntry, Tick, workVars, vars
  <2>3. Pending' = Pending /\ UNCHANGED <<target, next, prev, entry, dcurr, dpc>>
    BY <2>2 DEF Pending, dispVars, listVars
  <2>4. Lists(s, n, f, m)'
    BY <1>2, <2>2, <2>3, ListsAside DEF IsQueue
  <2>5. Place(s, n)'
    BY <1>1, <1>2, <2>1, <2>3, PlaceAside DEF IsQueue
  <2>6. Sorted(s, n)'
    BY <1>1, <1>2, <2>1, <2>3, SortedAside DEF IsQueue
  <2> QED BY <2>1, <2>4, <2>5, <2>6 DEF CoreInv, IsQueue
<1> QED BY <1>3, <1>4 DEF Next

-----------------------------------------------------------------------------
(***************************************************************************)
(* What the lists are.                                                     *)
(***************************************************************************)
LEMMA CoreInvariant == Spec => []CoreInv
<1>1. Init => CoreInv
  BY InitCore
<1>2. CoreInv /\ [Next]_vars => CoreInv'
  BY CoreInductive
<1> QED BY <1>1, <1>2, PTL DEF Spec

LEMMA CorePartition ==
  ASSUME CoreInv
  PROVE  ListsPartition
<1> PICK n \in Nat, m \in Nat : \E s \in [1 .. n -> Entries], f \in [1 .. m -> Entries] :
                                  IsQueue(s, n, f, m)
  BY DEF CoreInv
<1>1. PICK s \in [1 .. n -> Entries], f \in [1 .. m -> Entries] : IsQueue(s, n, f, m)
  OBVIOUS
<1>2. Chain(io_seq) = Elems(s, n) /\ Chain(free_seq) = Elems(f, m)
  BY <1>1, ChainsAre DEF IsQueue
<1>3. /\ Threads(s, n, next) /\ Threads(f, m, next) /\ Backs(s, n, prev)
      /\ io_seq = IF n = 0 THEN NIL ELSE s[1]
      /\ n > 0 => io_seq_end = s[n]
      /\ m > 0 /\ free_seq = f[1] /\ free_seq_end = f[m]
      /\ Elems(s, n) \cap Elems(f, m) = {}
      /\ Elems(s, n) \cup Elems(f, m) \cup Pending = Entries
      /\ Pending \cap (Elems(s, n) \cup Elems(f, m)) = {}
  BY <1>1 DEF IsQueue, Lists
<1>4. free_seq_end \in Elems(f, m) /\ next[free_seq_end] = NIL
  <2>1. m \in 1 .. m /\ ~(m < m)
    BY <1>3
  <2> QED BY <1>3, <2>1 DEF Elems, Threads
<1>5. ASSUME io_seq # NIL
      PROVE  prev[io_seq] = NIL /\ io_seq_end \in Elems(s, n) /\ next[io_seq_end] = NIL
  <2>1. n > 0 /\ n \in 1 .. n /\ 1 \in 1 .. n /\ ~(n < n) /\ ~(1 > 1) /\ io_seq = s[1]
    BY <1>3, <1>5
  <2> QED BY <1>3, <2>1, SMTT(30) DEF Elems, Threads, Backs
<1>6. ASSUME NEW e \in Elems(s, n), next[e] # NIL PROVE prev[next[e]] = e
  <2>1. PICK i \in 1 .. n : e = s[i]
    BY <1>6 DEF Elems
  <2>2. i < n /\ next[e] = s[i + 1]
    BY <1>3, <1>6, <2>1 DEF Threads
  <2>3. i + 1 \in 1 .. n /\ i + 1 > 1 /\ (i + 1) - 1 = i
    BY <2>2
  <2> QED BY <1>3, <2>1, <2>2, <2>3 DEF Backs
<1> QED BY <1>2, <1>3, <1>4, <1>5, <1>6 DEF ListsPartition

LEMMA CoreSorted ==
  ASSUME CoreInv
  PROVE  PendingSorted
<1> PICK n \in Nat, m \in Nat : \E s \in [1 .. n -> Entries], f \in [1 .. m -> Entries] :
                                  IsQueue(s, n, f, m)
  BY DEF CoreInv
<1>1. PICK s \in [1 .. n -> Entries], f \in [1 .. m -> Entries] : IsQueue(s, n, f, m)
  OBVIOUS
<1>2. Chain(io_seq) = Elems(s, n) /\ n <= N /\ N \in Nat /\ Threads(s, n, next)
  <2>1. Chain(io_seq) = Elems(s, n) /\ n < N
    BY <1>1, ChainsAre DEF IsQueue
  <2>2. Threads(s, n, next)
    BY <1>1 DEF IsQueue, Lists
  <2> QED BY <2>1, <2>2, NilOutside
<1>3. SUFFICES ASSUME NEW e \in Elems(s, n), NEW x \in Chain(next[e])
               PROVE  target[e] <= target[x] \/ target[e] <= latest
  BY <1>2 DEF PendingSorted
<1>4. PICK i \in 1 .. n : e = s[i]
  BY DEF Elems
<1>5. i < n
  <2>1. SUFFICES ASSUME ~(i < n) PROVE FALSE
    OBVIOUS
  <2>2. next[e] = NIL
    BY <1>2, <1>4, <2>1 DEF Threads
  <2> QED BY <1>2, <1>3, <2>2, WalkNil
<1>6. i + 1 \in 1 .. n /\ next[e] = s[i + 1]
  BY <1>2, <1>4, <1>5 DEF Threads
<1>7. Chain(s[i + 1]) = {s[j] : j \in i + 1 .. n}
  BY <1>2, <1>6, WalkList
<1>8. PICK j \in i + 1 .. n : x = s[j]
  BY <1>3, <1>6, <1>7
<1>9. j \in 1 .. n /\ i < j
  OBVIOUS
<1> QED BY <1>1, <1>4, <1>8, <1>9 DEF IsQueue, Sorted

\* Whatever the dispatcher is doing (io.c), every entry of the work queue is on
\* exactly one of the two lists or in the dispatcher's hands, and the I/O list
\* reads the same backwards as forwards: for any number of entries and
\* requests, and wherever the worker stands.
THEOREM ListsStayLists == Spec => []ListsPartition
BY CoreInvariant, CorePartition, PTL

\* __insert_req_sorted keeps the I/O list sorted by target time up to the
\* entries that were due when the worker last looked at the clock.
THEOREM InsertionSorts == Spec => []PendingSorted
BY CoreInvariant, CoreSorted, PTL

-----------------------------------------------------------------------------
(***************************************************************************)
(* The two lists as sets, and what the steps do to them.                   *)
(***************************************************************************)
Io == Chain(io_seq)
Free == Chain(free_seq)

\* The entries that Reclaim moves.
Gone == Io \ Io'

ChainsOK ==
  \A n, m \in Nat : \A s \in [1 .. n -> Entries], f \in [1 .. m -> Entries] :
    Lists(s, n, f, m) => Io = Elems(s, n) /\ Free = Elems(f, m)

LEMMA ChainsBothTimes == ChainsOK /\ ChainsOK'
<1>1. ChainsOK
  BY ChainsAre DEF ChainsOK, Io, Free
<1>2. ChainsOK'
  BY <1>1, PTL
<1> QED BY <1>1, <1>2

\* Along next the worker stays on its list.
Links ==
  /\ Io \cup Free \cup Pending = Entries
  /\ Io \cap Free = {}
  /\ Pending \cap (Io \cup Free) = {}
  /\ io_seq # NIL => io_seq \in Io
  /\ free_seq \in Free
  /\ \A e \in Io : next[e] # NIL => next[e] \in Io
  /\ \A e \in Free : next[e] # NIL => next[e] \in Free /\ next[e] # free_seq

LEMMA CoreLinks ==
  ASSUME CoreInv
  PROVE  Links
<1> PICK n \in Nat, m \in Nat : \E s \in [1 .. n -> Entries], f \in [1 .. m -> Entries] :
                                  IsQueue(s, n, f, m)
  BY DEF CoreInv
<1>1. PICK s \in [1 .. n -> Entries], f \in [1 .. m -> Entries] : IsQueue(s, n, f, m)
  OBVIOUS
<1>2. Io = Elems(s, n) /\ Free = Elems(f, m)
  BY <1>1, ChainsBothTimes DEF IsQueue, ChainsOK
<1>3. /\ Threads(s, n, next) /\ Threads(f, m, next)
      /\ io_seq = IF n = 0 THEN NIL ELSE s[1]
      /\ m > 0 /\ free_seq = f[1]
      /\ Elems(s, n) \cap Elems(f, m) = {}
      /\ Elems(s, n) \cup Elems(f, m) \cup Pending = Entries
      /\ Pending \cap (Elems(s, n) \cup Elems(f, m)) = {}
  BY <1>1 DEF IsQueue, Lists
<1>4. (io_seq # NIL => io_seq \in Elems(s, n)) /\ free_seq \in Elems(f, m)
  <2>1. (n # 0 => 1 \in 1 .. n) /\ 1 \in 1 .. m
    BY <1>3
  <2> QED BY <1>3, <2>1 DEF Elems
<1>5. ASSUME NEW e \in Elems(s, n), next[e] # NIL PROVE next[e] \in Elems(s, n)
  <2>1. PICK i \in 1 .. n : e = s[i]
    BY <1>5 DEF Elems
  <2>2. i < n /\ next[e] = s[i + 1] /\ i + 1 \in 1 .. n
    BY <1>3, <1>5, <2>1 DEF Threads
  <2> QED BY <2>2 DEF Elems
<1>6. ASSUME NEW e \in Elems(f, m), next[e] # NIL
      PROVE  next[e] \in Elems(f, m) /\ next[e] # free_seq
  <2>1. PICK i \in 1 .. m : e = f[i]
    BY <1>6 DEF Elems
  <2>2. i < m /\ next[e] = f[i + 1]
    BY <1>3, <1>6, <2>1 DEF Threads
  <2>3. i + 1 \in 1 .. m /\ 1 \in 1 .. m /\ i + 1 # 1
    BY <2>2
  <2>4. f[i + 1] # f[1]
    BY <1>3, <2>3 DEF Threads
  <2>5. f[i + 1] \in Elems(f, m)
    BY <2>3 DEF Elems
  <2> QED BY <1>3, <2>2, <2>4, <2>5
<1> QED BY <1>2, <1>3, <1>4, <1>5, <1>6 DEF Links

LEMMA LinksBothTimes == (CoreInv => Links) /\ (CoreInv => Links)'
<1>1. CoreInv => Links
  BY CoreLinks
<1>2. (CoreInv => Links)'
  BY <1>1, PTL
<1> QED BY <1>1, <1>2

LEMMA AllocSets ==
  ASSUME CoreInv, Alloc
  PROVE  Io' = Io /\ Free' = Free \ {free_seq}
<1>1. CoreTypes /\ ChainsOK /\ ChainsOK' /\ Links /\ Links'
  BY CoreInductive, ChainsBothTimes, LinksBothTimes DEF CoreInv, Next, Dispatcher
<1> PICK n \in Nat, m \in Nat : \E s \in [1 .. n -> Entries], f \in [1 .. m -> Entries] :
                                  IsQueue(s, n, f, m)
  BY DEF CoreInv
<1>2. PICK s \in [1 .. n -> Entries], f \in [1 .. m -> Entries] : IsQueue(s, n, f, m)
  OBVIOUS
<1>3. /\ m - 1 \in Nat /\ Drop(f, m, 1) \in [1 .. m - 1 -> Entries]
      /\ IsQueue(s, n, Drop(f, m, 1), m - 1)'
  BY <1>1, <1>2, AllocLists
<1>4. Lists(s, n, f, m) /\ Lists(s, n, Drop(f, m, 1), m - 1)'
  BY <1>2, <1>3 DEF IsQueue
<1>5. Io = Elems(s, n) /\ Io' = Elems(s, n)
  BY <1>1, <1>3, <1>4, ZenonT(30) DEF ChainsOK
<1>6. Pending' = {free_seq} /\ Pending = {}
  BY DEF Alloc, Pending
<1> QED BY <1>1, <1>5, <1>6 DEF Links

LEMMA LinkSets ==
  ASSUME CoreInv, Link
  PROVE  Io' = Io \cup {entry} /\ Free' = Free
<1>1. CoreTypes /\ ChainsOK /\ ChainsOK' /\ Links /\ Links'
  BY CoreInductive, ChainsBothTimes, LinksBothTimes DEF CoreInv, Next, Dispatcher
<1> PICK n \in Nat, m \in Nat : \E s \in [1 .. n -> Entries], f \in [1 .. m -> Entries] :
                                  IsQueue(s, n, f, m)
  BY DEF CoreInv
<1>2. PICK s \in [1 .. n -> Entries], f \in [1 .. m -> Entries] : IsQueue(s, n, f, m)
  OBVIOUS
<1>3. PICK q \in [1 .. n + 1 -> Entries] : IsQueue(q, n + 1, f, m)'
  BY <1>1, <1>2, LinkLists
<1>4. Lists(s, n, f, m) /\ Lists(q, n + 1, f, m)' /\ n + 1 \in Nat
  BY <1>2, <1>3 DEF IsQueue
<1>5. Free = Elems(f, m) /\ Free' = Elems(f, m)
  BY <1>1, <1>4 DEF ChainsOK
<1>6. Pending' = {} /\ Pending = {entry}
  BY DEF Link, NextOperation, Pending
<1> QED BY <1>1, <1>5, <1>6 DEF Links

LEMMA ReclaimSets ==
  ASSUME CoreInv, Reclaim
  PROVE  /\ Io' \subseteq Io /\ Free' = Free \cup Gone
         /\ \A e \in Gone : Reclaimable(e) /\ (next'[e] # NIL => next'[e] \in Gone)
         /\ \A e \in Free : next'[e] = next[e] \/ next'[e] \in Gone
<1>1. CoreTypes /\ ChainsOK /\ ChainsOK' /\ Links /\ Links'
  BY CoreInductive, ChainsBothTimes, LinksBothTimes DEF CoreInv, Next, Dispatcher
<1> PICK n \in Nat, m \in Nat : \E s \in [1 .. n -> Entries], f \in [1 .. m -> Entries] :
                                  IsQueue(s, n, f, m)
  BY DEF CoreInv
<1>2. PICK s \in [1 .. n -> Entries], f \in [1 .. m -> Entries] : IsQueue(s, n, f, m)
  OBVIOUS
<1>3. PICK p \in 0 .. n : Reclaims(s, n, f, m, p)
  BY <1>1, <1>2, ReclaimLists
<1> DEFINE P == {s[i] : i \in 1 .. p}
<1>4. PICK q \in [1 .. n - p -> Entries], g \in [1 .. m + p -> Entries] :
        /\ IsQueue(q, n - p, g, m + p)'
        /\ Elems(q, n - p) = {s[i] : i \in p + 1 .. n}
        /\ Elems(g, m + p) = Elems(f, m) \cup P
  BY <1>3 DEF Reclaims
<1>5. /\ Lists(s, n, f, m) /\ Lists(q, n - p, g, m + p)'
      /\ n - p \in Nat /\ m + p \in Nat
  BY <1>2, <1>3, <1>4 DEF IsQueue, Reclaims
<1>6. Io = Elems(s, n) /\ Free = Elems(f, m) /\ Free' = Elems(f, m) \cup P
  <2>1. Io = Elems(s, n) /\ Free = Elems(f, m)
    <3>1. ChainsOK /\ Lists(s, n, f, m)
      BY <1>1, <1>5
    <3> QED BY <3>1 DEF ChainsOK
  <2>2. Free' = Elems(g, m + p)
    <3> DEFINE a == n - p
               b == m + p
    <3>1. /\ ChainsOK' /\ Lists(q, a, g, b)' /\ a \in Nat /\ b \in Nat
          /\ q \in [1 .. a -> Entries] /\ g \in [1 .. b -> Entries]
      BY <1>1, <1>5
    <3> HIDE DEF a, b
    <3>2. Free' = Elems(g, b)
      BY <3>1 DEF ChainsOK
    <3> QED BY <3>2 DEF b
  <2> QED BY <1>4, <2>1, <2>2
<1>7. Pending' = {} /\ Pending = {}
  BY DEF Reclaim, Pending
<1>8. P \subseteq Elems(s, n)
  <2>1. 1 .. p \subseteq 1 .. n
    OBVIOUS
  <2> QED BY <2>1 DEF Elems
<1>9. /\ \A e \in P : Reclaimable(e) /\ (next'[e] # NIL => next'[e] \in P)
      /\ \A e \in Free : next'[e] = next[e] \/ next'[e] \in P
  BY <1>3, <1>6 DEF Reclaims
<1> HIDE DEF P
<1>10. Gone = P /\ Io' \subseteq Io
  BY <1>1, <1>6, <1>7, <1>8 DEF Links, Gone
<1> QED BY <1>6, <1>9, <1>10

LEMMA InitSets ==
  ASSUME CoreInv, InitEntry
  PROVE  Io' = Io /\ Free' = Free
<1>1. CoreTypes /\ ChainsOK /\ ChainsOK'
  BY ChainsBothTimes DEF CoreInv
<1> PICK n \in Nat, m \in Nat : \E s \in [1 .. n -> Entries], f \in [1 .. m -> Entries] :
                                  IsQueue(s, n, f, m)
  BY DEF CoreInv
<1>2. PICK s \in [1 .. n -> Entries], f \in [1 .. m -> Entries] : IsQueue(s, n, f, m)
  OBVIOUS
<1>3. IsQueue(s, n, f, m)'
  BY <1>1, <1>2, InitLists
<1>4. Lists(s, n, f, m) /\ Lists(s, n, f, m)'
  BY <1>2, <1>3 DEF IsQueue
<1> QED BY <1>1, <1>4, SMTT(30) DEF ChainsOK

LEMMA SameSets ==
  ASSUME UNCHANGED listVars
  PROVE  Io' = Io /\ Free' = Free
BY DEF Io, Free, Chain, Step, listVars

-----------------------------------------------------------------------------
(***************************************************************************)
(* The worker stands on the I/O list, or on entries that were completed    *)
(* and reclaimed under it and that lead to completed ones only.  That is   *)
(* where the hypothesis that the free list does not come round to the      *)
(* worker is used: Alloc never takes the entry it stands on.               *)
(***************************************************************************)
AtWork == wpc \in {"copy", "test", "mark"}
Busy(e) == wpc = "mark" /\ curr = e

WorkInv ==
  /\ curr # NIL => curr \in Io \/ (curr \in Free /\ completed[curr])
  /\ AtWork => curr \in Io /\ ~completed[curr] /\ (copied[curr] <=> wpc # "copy")
  /\ \A e \in Free : completed[e] /\ next[e] # NIL => completed[next[e]]

\* The dispatcher: the operation it is at has not been dropped, and the entry
\* in its hands is what it has made of it so far.
DispInv ==
  /\ dpc \in {"idle", "reclaim"} => ~isint
  /\ \A r \in Requests, b \in BOOLEAN : <<r, b>> \in dropped => r <= sq
  /\ isint => <<sq, TRUE>> \notin dropped
  /\ dpc \notin {"idle", "reclaim"} => <<sq, FALSE>> \notin dropped
  /\ dpc \in {"init", "init2", "scan", "link"} =>
       ~completed[entry] /\ (~isint => req[entry] = sq)
  /\ dpc \in {"init2", "scan", "link"} => (copied[entry] <=> isint)
  /\ dpc \in {"scan", "link"} => (internal[entry] <=> isint)

\* What a step of one thread leaves to the other.
LEMMA DispatcherFrame ==
  ASSUME Dispatcher
  PROVE  UNCHANGED <<workerVars, hostVars, now>>
BY DEF Dispatcher, Fetch, AllocFails, Alloc, InitEntry, InitInternal, Scan, Link, Reclaim

LEMMA WorkerFrame ==
  ASSUME Worker \/ Tick \/ UNCHANGED vars
  PROVE  /\ UNCHANGED <<listVars, dispVars, dropped, req, target, internal>>
         /\ Io' = Io /\ Free' = Free
<1>1. UNCHANGED <<listVars, dispVars, dropped, req, target, internal>>
  BY DEF Worker, StartPass, Visit, Copy, Test, Mark, NextEntry, Tick, workVars, vars
<1> QED BY <1>1, SameSets

LEMMA WorkNext ==
  ASSUME WorkerMayStall = FALSE, CoreInv, WorkInv, [Next]_vars
  PROVE  WorkInv'
<1>1. Links /\ CoreTypes /\ NIL \notin Entries
  BY LinksBothTimes, NilOutside DEF CoreInv
<1>2. Io \subseteq Entries /\ Free \subseteq Entries /\ (curr # NIL => curr \in Entries)
  BY <1>1 DEF Links, WorkInv
<1>3. CASE Dispatcher
  <2>1. UNCHANGED <<wpc, curr>>
    BY <1>3, DispatcherFrame DEF workerVars
  <2>2. CASE Fetch \/ AllocFails \/ Scan
    <3>1. UNCHANGED <<listVars, completed, copied, next>>
      BY <2>2 DEF Fetch, AllocFails, Scan, workVars, listVars
    <3>2. Io' = Io /\ Free' = Free
      BY <3>1, SameSets
    <3> QED BY <2>1, <3>1, <3>2 DEF WorkInv, AtWork
  <2>3. CASE InitInternal
    <3>1. UNCHANGED <<listVars, completed, copied, next>>
      BY <2>3 DEF InitInternal, listVars
    <3>2. Io' = Io /\ Free' = Free
      BY <3>1, SameSets
    <3> QED BY <2>1, <3>1, <3>2 DEF WorkInv, AtWork
  <2>4. CASE Alloc
    <3>1. Io' = Io /\ Free' = Free \ {free_seq}
      BY <2>4, AllocSets
    <3>2. /\ curr # free_seq /\ UNCHANGED <<copied, next>>
          /\ completed' = [completed EXCEPT ![free_seq] = FALSE]
      BY <2>4 DEF Alloc
    <3>3. \A e \in Entries : e # free_seq => completed'[e] = completed[e]
      BY <1>1, <3>2 DEF CoreTypes
    <3>4. free_seq \in Free /\ free_seq \notin Io
      BY <1>1 DEF Links
    <3>5. curr # NIL => curr \in Io' \/ (curr \in Free' /\ completed'[curr])
      BY <1>2, <3>1, <3>2, <3>3, <3>4 DEF WorkInv
    <3>6. AtWork => curr \in Io' /\ ~completed'[curr] /\ (copied'[curr] <=> wpc # "copy")
      BY <1>2, <3>1, <3>2, <3>3, <3>4 DEF WorkInv
    <3>7. ASSUME NEW e \in Free', completed'[e], next'[e] # NIL PROVE completed'[next'[e]]
      <4>1. e \in Free /\ completed[e] /\ next[e] # NIL
        BY <1>2, <3>1, <3>2, <3>3, <3>7
      <4>2. completed[next[e]] /\ next[e] # free_seq /\ next[e] \in Entries
        BY <1>1, <1>2, <4>1 DEF WorkInv, Links
      <4> QED BY <3>2, <3>3, <4>2
    <3> QED BY <2>1, <3>5, <3>6, <3>7 DEF WorkInv, AtWork
  <2>5. CASE InitEntry
    <3>1. Io' = Io /\ Free' = Free
      BY <2>5, InitSets
    <3>2. /\ UNCHANGED completed /\ copied' = [copied EXCEPT ![entry] = isint]
          /\ next' = [next EXCEPT ![entry] = NIL] /\ Pending = {entry}
      BY <2>5 DEF InitEntry, Pending
    <3>3. entry \notin Io /\ entry \notin Free
      BY <1>1, <3>2 DEF Links
    <3>4. \A e \in Entries : e # entry => next'[e] = next[e] /\ copied'[e] = copied[e]
      BY <1>1, <3>2 DEF CoreTypes
    <3>5. \A e \in Io \cup Free : next'[e] = next[e] /\ copied'[e] = copied[e]
      BY <1>2, <3>3, <3>4
    <3> QED BY <2>1, <3>1, <3>2, <3>5 DEF WorkInv, AtWork
  <2>6. CASE Link
    <3>1. Io' = Io \cup {entry} /\ Free' = Free
      BY <2>6, LinkSets
    <3>2. UNCHANGED <<completed, copied>>
      BY <2>6 DEF Link, workVars
    <3>3. \A e \in Free : next'[e] = next[e]
      <4> PICK n \in Nat, m \in Nat : \E s \in [1 .. n -> Entries], f \in [1 .. m -> Entries] :
                                        IsQueue(s, n, f, m)
        BY DEF CoreInv
      <4>1. PICK s \in [1 .. n -> Entries], f \in [1 .. m -> Entries] : IsQueue(s, n, f, m)
        OBVIOUS
      <4>2. PICK k \in 0 .. n : GoesBehind(s, n, k)
        BY <2>6, <4>1 DEF IsQueue, Place, Link
      <4>3. \A e \in Entries : e # entry /\ (k > 0 => e # s[k]) => next'[e] = next[e]
        BY <1>1, <2>6, <4>1, <4>2, LinkCases
      <4>4. Io = Elems(s, n)
        BY <4>1, ChainsBothTimes DEF IsQueue, ChainsOK
      <4>5. k > 0 => s[k] \in Io
        <5>1. k > 0 => k \in 1 .. n
          OBVIOUS
        <5> QED BY <4>4, <5>1 DEF Elems
      <4>6. Pending = {entry}
        BY <2>6 DEF Link, Pending
      <4> QED BY <1>1, <1>2, <4>3, <4>5, <4>6 DEF Links
    <3> QED BY <2>1, <3>1, <3>2, <3>3 DEF WorkInv, AtWork
  <2>7. CASE Reclaim
    <3>1. /\ Io' \subseteq Io /\ Free' = Free \cup Gone
          /\ \A e \in Gone : Reclaimable(e) /\ (next'[e] # NIL => next'[e] \in Gone)
          /\ \A e \in Free : next'[e] = next[e] \/ next'[e] \in Gone
      BY <2>7, ReclaimSets
    <3>2. UNCHANGED <<completed, copied>>
      BY <2>7 DEF Reclaim, workVars
    <3>3. \A e \in Gone : completed[e]
      BY <3>1 DEF Reclaimable
    <3>4. \A e \in Io : e \in Io' \/ e \in Gone
      BY DEF Gone
    <3>5. curr # NIL => curr \in Io' \/ (curr \in Free' /\ completed[curr])
      BY <3>1, <3>3, <3>4 DEF WorkInv
    <3>6. AtWork => curr \in Io'
      BY <3>3, <3>4 DEF WorkInv
    <3>7. ASSUME NEW e \in Free', completed[e], next'[e] # NIL PROVE completed[next'[e]]
      <4>1. CASE e \in Gone
        BY <3>1, <3>3, <3>7, <4>1
      <4>2. CASE e \in Free /\ next'[e] = next[e]
        BY <3>7, <4>2 DEF WorkInv
      <4>3. CASE next'[e] \in Gone
        BY <3>3, <4>3
      <4> QED BY <3>1, <4>1, <4>2, <4>3
    <3> QED BY <2>1, <3>2, <3>5, <3>6, <3>7 DEF WorkInv, AtWork
  <2> QED BY <1>3, <2>2, <2>3, <2>4, <2>5, <2>6, <2>7 DEF Dispatcher
<1>4. CASE Worker \/ Tick \/ UNCHANGED vars
  <2>1. UNCHANGED <<listVars, next>> /\ Io' = Io /\ Free' = Free
    BY <1>4, WorkerFrame DEF listVars
  <2>2. CASE StartPass
    <3>1. UNCHANGED <<completed, copied>> /\ curr' = io_seq /\ wpc' \in {"top", "visit"}
      BY <2>2 DEF StartPass, workVars
    <3> QED BY <1>1, <2>1, <3>1 DEF WorkInv, AtWork, Links
  <2>3. CASE Visit
    <3>1. /\ UNCHANGED <<completed, copied, curr>> /\ wpc = "visit"
          /\ wpc' = IF completed[curr] THEN "next" ELSE IF copied[curr] THEN "test" ELSE "copy"
      BY <2>3 DEF Visit, workVars
    <3>2. curr # NIL
      BY <1>1, <3>1 DEF CoreTypes
    <3> QED BY <2>1, <3>1, <3>2 DEF WorkInv, AtWork
  <2>4. CASE Copy
    <3>1. /\ UNCHANGED <<completed, curr>> /\ wpc = "copy" /\ wpc' = "test"
          /\ copied' = [copied EXCEPT ![curr] = TRUE]
      BY <2>4 DEF Copy
    <3>2. copied'[curr]
      BY <1>1, <1>2, <3>1 DEF CoreTypes
    <3> QED BY <2>1, <3>1, <3>2 DEF WorkInv, AtWork
  <2>5. CASE Test
    <3>1. UNCHANGED <<completed, copied, curr>> /\ wpc = "test" /\ wpc' \in {"mark", "next"}
      BY <2>5 DEF Test, workVars
    <3> QED BY <2>1, <3>1 DEF WorkInv, AtWork
  <2>6. CASE Mark
    <3>1. /\ UNCHANGED <<copied, curr>> /\ wpc = "mark" /\ wpc' = "next"
          /\ completed' = [completed EXCEPT ![curr] = TRUE]
      BY <2>6 DEF Mark
    <3>2. /\ \A e \in Entries : completed[e] => completed'[e]
          /\ \A e \in Entries : e # curr => completed'[e] = completed[e]
      BY <1>1, <3>1 DEF CoreTypes
    <3>3. curr \in Io /\ curr \notin Free
      BY <1>1, <3>1 DEF WorkInv, AtWork, Links
    <3>4. \A e \in Free : completed'[e] /\ next[e] # NIL => completed'[next[e]]
      BY <1>1, <1>2, <3>2, <3>3 DEF WorkInv, Links
    <3> QED BY <2>1, <3>1, <3>3, <3>4 DEF WorkInv, AtWork
  <2>7. CASE NextEntry
    <3>1. /\ UNCHANGED <<completed, copied>> /\ curr' = next[curr] /\ wpc = "next"
          /\ wpc' \in {"top", "visit"}
      BY <2>7 DEF NextEntry, workVars
    <3>2. curr # NIL
      BY <1>1, <3>1 DEF CoreTypes
    <3>3. next[curr] # NIL => next[curr] \in Io \/ (next[curr] \in Free /\ completed[next[curr]])
      BY <1>1, <3>2 DEF WorkInv, Links
    <3> QED BY <2>1, <3>1, <3>3 DEF WorkInv, AtWork
  <2>8. CASE Tick \/ UNCHANGED vars
    <3>1. UNCHANGED <<completed, copied, wpc, curr>>
      BY <2>8 DEF Tick, vars, workVars, workerVars
    <3> QED BY <2>1, <3>1 DEF WorkInv, AtWork
  <2> QED BY <1>4, <2>2, <2>3, <2>4, <2>5, <2>6, <2>7, <2>8 DEF Worker
<1> QED BY <1>3, <1>4 DEF Next

LEMMA DispNext ==
  ASSUME CoreInv, WorkInv, DispInv, [Next]_vars
  PROVE  DispInv'
<1>1. Links /\ CoreTypes
  BY LinksBothTimes DEF CoreInv
<1>2. sq \in Nat /\ (dpc # "idle" => sq \in Requests) /\ NReqs \in Nat
  BY <1>1, IoWorkerAssumption DEF CoreTypes, Requests
<1>3. CASE Fetch
  <2>1. /\ dpc = "idle" /\ dpc' = "alloc" /\ sq' = sq + 1 /\ UNCHANGED dropped
    BY <1>3 DEF Fetch
  <2>2. sq + 1 \in Requests
    BY <1>2, <1>3 DEF Fetch, Requests
  <2>3. \A b \in BOOLEAN : <<sq + 1, b>> \notin dropped
    <3>1. ~(sq + 1 <= sq)
      BY <1>2
    <3> QED BY <2>2, <3>1 DEF DispInv
  <2>4. \A r \in Requests, b \in BOOLEAN : <<r, b>> \in dropped => r <= sq + 1
    <3>1. \A r \in Requests : r <= sq => r <= sq + 1
      BY <1>2 DEF Requests
    <3> QED BY <3>1 DEF DispInv
  <2>5. <<sq + 1, TRUE>> \notin dropped /\ <<sq + 1, FALSE>> \notin dropped
    BY <2>3
  <2> QED BY <2>1, <2>4, <2>5 DEF DispInv
<1>4. CASE AllocFails
  <2>1. /\ dpc = "alloc" /\ dropped' = dropped \cup {<<sq, isint>>} /\ UNCHANGED sq
        /\ dpc' = IF isint THEN "alloc" ELSE "reclaim"
        /\ isint' = FALSE
    BY <1>4 DEF AllocFails, NextOperation
  <2>2. \A r \in Requests, b \in BOOLEAN : <<r, b>> \in dropped' => r <= sq'
    <3>1. ASSUME NEW r \in Requests, NEW b \in BOOLEAN, <<r, b>> \in dropped' PROVE r <= sq
      <4>1. <<r, b>> \in dropped \/ r = sq
        BY <2>1, <3>1
      <4>2. sq <= sq
        BY <1>2
      <4> QED BY <4>1, <4>2 DEF DispInv
    <3> QED BY <2>1, <3>1
  <2>3. isint => <<sq, FALSE>> \notin dropped'
    <3>1. ASSUME isint PROVE <<sq, isint>> # <<sq, FALSE>>
      BY <3>1
    <3> QED BY <2>1, <3>1 DEF DispInv
  <2> QED BY <2>1, <2>2, <2>3 DEF DispInv
<1>5. CASE Alloc
  <2>1. /\ dpc = "alloc" /\ dpc' = "init" /\ entry' = free_seq
        /\ req' = IF isint THEN req ELSE [req EXCEPT ![free_seq] = sq]
        /\ completed' = [completed EXCEPT ![free_seq] = FALSE]
        /\ UNCHANGED <<sq, isint, dropped>>
    BY <1>5 DEF Alloc
  <2>2. free_seq \in Entries
    BY <1>1 DEF CoreTypes
  <2>3. ~completed'[free_seq] /\ (~isint => req'[free_seq] = sq)
    BY <1>1, <2>1, <2>2 DEF CoreTypes
  <2> QED BY <2>1, <2>3 DEF DispInv
<1>6. CASE InitEntry
  <2>1. /\ dpc = "init" /\ dpc' = "init2" /\ copied' = [copied EXCEPT ![entry] = isint]
        /\ UNCHANGED <<sq, isint, dropped, entry, req, completed>>
    BY <1>6 DEF InitEntry
  <2>2. entry \in Entries
    BY <2>1, HeldEntry DEF Pending
  <2>3. copied'[entry] <=> isint
    BY <1>1, <2>1, <2>2 DEF CoreTypes
  <2> QED BY <2>1, <2>3 DEF DispInv
<1>7. CASE InitInternal
  <2>1. /\ dpc = "init2" /\ dpc' \in {"scan", "link"}
        /\ internal' = [internal EXCEPT ![entry] = isint]
        /\ UNCHANGED <<sq, isint, dropped, entry, req, completed, copied>>
    BY <1>7 DEF InitInternal
  <2>2. entry \in Entries
    BY <2>1, HeldEntry DEF Pending
  <2>3. internal'[entry] <=> isint
    BY <1>1, <2>1, <2>2 DEF CoreTypes
  <2> QED BY <2>1, <2>3 DEF DispInv
<1>8. CASE Scan
  <2>1. /\ dpc = "scan" /\ dpc' \in {"scan", "link"}
        /\ UNCHANGED <<sq, isint, dropped, entry, req, completed, copied, internal>>
    BY <1>8 DEF Scan, workVars
  <2> QED BY <2>1 DEF DispInv
<1>9. CASE Link
  <2>1. /\ dpc = "link" /\ dpc' = IF isint THEN "alloc" ELSE "reclaim"
        /\ isint' = FALSE /\ UNCHANGED <<sq, dropped>>
    BY <1>9 DEF Link, NextOperation
  <2> QED BY <2>1 DEF DispInv
<1>10. CASE Reclaim
  <2>1. dpc = "reclaim" /\ dpc' = "idle" /\ UNCHANGED <<sq, dropped, isint>>
    BY <1>10 DEF Reclaim
  <2> QED BY <2>1 DEF DispInv
<1>11. CASE Worker \/ Tick \/ UNCHANGED vars
  <2>1. UNCHANGED <<sq, dpc, isint, entry, dropped, req, internal>>
    BY <1>11, WorkerFrame DEF dispVars
  <2>2. ASSUME Pending # {}
        PROVE  completed'[entry] = completed[entry] /\ copied'[entry] = copied[entry]
    <3>1. entry \in Pending /\ entry \in Entries
      BY <2>2, HeldEntry DEF Pending
    <3>2. CASE UNCHANGED <<completed, copied>>
      BY <3>2
    <3>3. CASE Copy \/ Mark
      <4>1. curr \in Io
        BY <3>3 DEF Copy, Mark, WorkInv, AtWork
      <4>2. curr # entry
        BY <1>1, <3>1, <4>1 DEF Links
      <4> QED BY <1>1, <3>1, <3>3, <4>2 DEF Copy, Mark, CoreTypes
    <3> QED BY <1>11, <3>2, <3>3
            DEF Worker, StartPass, Visit, Test, NextEntry, Tick, vars, workVars
  <2> QED BY <2>1, <2>2 DEF DispInv, Pending
<1> QED BY <1>3, <1>4, <1>5, <1>6, <1>7, <1>8, <1>9, <1>10, <1>11 DEF Next, Dispatcher

-----------------------------------------------------------------------------
(***************************************************************************)
(* What has been done to the requests.                                     *)
(***************************************************************************)
ReqInv ==
  /\ \A e \in Io : ~internal[e] => /\ req[e] \in Linked
                                   /\ copies[req[e]] = IF copied[e] THEN 1 ELSE 0
                                   /\ posted[req[e]] = IF completed[e] \/ Busy(e) THEN 1 ELSE 0
  /\ \A e, f \in Io : ~internal[e] /\ ~internal[f] /\ req[e] = req[f] => e = f
  /\ \A r \in Requests : r \notin Linked => copies[r] = 0 /\ posted[r] = 0

LEMMA LinkedRequests ==
  ASSUME CoreTypes
  PROVE  Linked \subseteq Requests /\ (dpc \notin {"reclaim", "idle"} => sq \notin Linked)
<1>1. sq \in 0 .. NReqs /\ NReqs \in Nat
  BY IoWorkerAssumption DEF CoreTypes
<1>2. 1 .. sq \subseteq Requests
  BY <1>1 DEF Requests
<1>3. Linked \subseteq 1 .. sq
  BY DEF Linked
<1>4. dpc \notin {"reclaim", "idle"} => sq \notin Linked
  BY DEF Linked
<1> QED BY <1>2, <1>3, <1>4

\* Only the end of __insert_req_sorted for a request queues one.
LEMMA LinkedNext ==
  ASSUME CoreInv, DispInv, [Next]_vars
  PROVE  Linked' = IF Link /\ ~isint THEN Linked \cup {sq} ELSE Linked
<1>1. CoreTypes
  BY DEF CoreInv
<1>2. sq \in Nat /\ (dpc # "idle" => sq \in Requests) /\ NReqs \in Nat
  BY <1>1, IoWorkerAssumption DEF CoreTypes, Requests
<1>3. CASE Fetch
  <2>1. /\ dpc = "idle" /\ dpc' = "alloc" /\ sq' = sq + 1 /\ UNCHANGED dropped /\ ~Link
    BY <1>3 DEF Fetch, Link
  <2>2. \A r : /\ r \in 1 .. sq => r \in 1 .. sq + 1 /\ r # sq + 1
               /\ r \in 1 .. sq + 1 /\ r # sq + 1 => r \in 1 .. sq
    BY <1>2
  <2> QED BY <2>1, <2>2 DEF Linked
<1>4. CASE AllocFails
  <2>1. /\ dpc = "alloc" /\ dropped' = dropped \cup {<<sq, isint>>} /\ UNCHANGED sq
        /\ ~Link
        /\ dpc' = IF isint THEN "alloc" ELSE "reclaim"
    BY <1>4 DEF AllocFails, NextOperation, Link
  <2>2. CASE isint
    <3>1. \A r : <<r, FALSE>> \in dropped' <=> <<r, FALSE>> \in dropped
      <4>1. \A r : <<r, FALSE>> # <<sq, isint>>
        BY <2>2
      <4> QED BY <2>1, <4>1
    <3> QED BY <2>1, <2>2, <3>1 DEF Linked
  <2>3. CASE ~isint
    <3>1. \A r : <<r, FALSE>> \in dropped' <=> <<r, FALSE>> \in dropped \/ r = sq
      <4>1. isint = FALSE
        BY <1>1, <2>3 DEF CoreTypes
      <4>2. dropped' = dropped \cup {<<sq, FALSE>>}
        BY <2>1, <4>1
      <4> QED BY <4>2
    <3> QED BY <2>1, <2>3, <3>1 DEF Linked
  <2> QED BY <2>2, <2>3
<1>5. CASE Alloc \/ InitEntry \/ InitInternal \/ Scan
  <2>1. /\ dpc \notin {"reclaim", "idle", "link"} /\ dpc' \notin {"reclaim", "idle"}
        /\ UNCHANGED <<sq, dropped>>
    BY <1>5 DEF Alloc, InitEntry, InitInternal, Scan
  <2>2. ~Link
    BY <2>1 DEF Link
  <2> QED BY <2>1, <2>2 DEF Linked
<1>6. CASE Link
  <2>1. /\ dpc = "link" /\ dpc' = IF isint THEN "alloc" ELSE "reclaim"
        /\ UNCHANGED <<sq, dropped>>
    BY <1>6 DEF Link, NextOperation
  <2>2. sq \in 1 .. sq /\ <<sq, FALSE>> \notin dropped
    BY <1>2, <2>1 DEF DispInv, Requests
  <2> QED BY <1>6, <2>1, <2>2 DEF Linked
<1>7. CASE Reclaim
  <2>1. dpc = "reclaim" /\ dpc' = "idle" /\ UNCHANGED <<sq, dropped>> /\ ~Link
    BY <1>7 DEF Reclaim, Link
  <2> QED BY <2>1 DEF Linked
<1>8. CASE Worker \/ Tick \/ UNCHANGED vars
  <2>1. UNCHANGED <<sq, dpc, dropped>>
    BY <1>8, WorkerFrame DEF dispVars
  <2>2. Link => dpc' # dpc
    BY DEF Link, NextOperation
  <2> QED BY <2>1, <2>2 DEF Linked
<1> QED BY <1>3, <1>4, <1>5, <1>6, <1>7, <1>8 DEF Next, Dispatcher

\* A step that leaves the entries of the I/O list and the requests alone.
SameWork(E) ==
  \A e \in E : /\ req'[e] = req[e] /\ internal'[e] = internal[e]
               /\ copied'[e] = copied[e] /\ completed'[e] = completed[e]

LEMMA ReqAside ==
  ASSUME ReqInv, Io' \subseteq Io, SameWork(Io), Linked' = Linked,
         UNCHANGED <<copies, posted>>, \A e \in Io : Busy(e)' = Busy(e)
  PROVE  ReqInv'
<1>1. ASSUME NEW e \in Io', ~internal'[e]
      PROVE  /\ req'[e] \in Linked'
             /\ copies'[req'[e]] = IF copied'[e] THEN 1 ELSE 0
             /\ posted'[req'[e]] = IF completed'[e] \/ Busy(e)' THEN 1 ELSE 0
  <2>1. /\ e \in Io /\ ~internal[e] /\ req'[e] = req[e] /\ copied'[e] = copied[e]
        /\ completed'[e] = completed[e] /\ Busy(e)' = Busy(e)
    BY <1>1 DEF SameWork
  <2> QED BY <2>1 DEF ReqInv
<1>2. ASSUME NEW e \in Io', NEW f \in Io', ~internal'[e], ~internal'[f], req'[e] = req'[f]
      PROVE  e = f
  BY <1>2 DEF ReqInv, SameWork
<1>3. \A r \in Requests : r \notin Linked' => copies'[r] = 0 /\ posted'[r] = 0
  BY DEF ReqInv
<1> QED BY <1>1, <1>2, <1>3 DEF ReqInv

\* The other threads' entries: what a step of the dispatcher leaves alone.
LEMMA DispatcherWork ==
  ASSUME CoreInv, Dispatcher
  PROVE  SameWork(Io)
<1>1. Links /\ CoreTypes
  BY LinksBothTimes DEF CoreInv
<1>2. Io \subseteq Entries
  BY <1>1 DEF Links
<1>3. CASE UNCHANGED workVars
  BY <1>3 DEF SameWork, workVars
<1>4. CASE Alloc
  <2>1. free_seq \notin Io
    BY <1>1 DEF Links
  <2>2. \A e \in Entries : e # free_seq => req'[e] = req[e] /\ completed'[e] = completed[e]
    <3>1. /\ req' = IF isint THEN req ELSE [req EXCEPT ![free_seq] = sq]
          /\ completed' = [completed EXCEPT ![free_seq] = FALSE]
      BY <1>4 DEF Alloc
    <3> QED BY <1>1, <3>1 DEF CoreTypes
  <2>3. UNCHANGED <<copied, internal>>
    BY <1>4 DEF Alloc
  <2> QED BY <1>2, <2>1, <2>2, <2>3 DEF SameWork
<1>5. CASE InitEntry \/ InitInternal
  <2>1. Pending = {entry}
    BY <1>5 DEF InitEntry, InitInternal, Pending
  <2>2. entry \notin Io
    BY <1>1, <2>1 DEF Links
  <2>3. \A e \in Entries : e # entry => copied'[e] = copied[e] /\ internal'[e] = internal[e]
    BY <1>1, <1>5 DEF InitEntry, InitInternal, CoreTypes
  <2>4. UNCHANGED <<req, completed>>
    BY <1>5 DEF InitEntry, InitInternal
  <2> QED BY <1>2, <2>2, <2>3, <2>4 DEF SameWork
<1> QED BY <1>3, <1>4, <1>5 DEF Dispatcher, Fetch, AllocFails, Scan, Link, Reclaim

LEMMA ReqNext ==
  ASSUME CoreInv, WorkInv, DispInv, ReqInv, [Next]_vars
  PROVE  ReqInv'
<1>1. Links /\ CoreTypes /\ Linked \subseteq Requests
  BY LinksBothTimes, LinkedRequests DEF CoreInv
<1>2. Linked' = IF Link /\ ~isint THEN Linked \cup {sq} ELSE Linked
  BY LinkedNext
<1>3. CASE Dispatcher
  <2>1. UNCHANGED <<wpc, curr, copies, posted>>
    BY <1>3, DispatcherFrame DEF workerVars, hostVars
  <2>2. \A e : Busy(e)' = Busy(e)
    BY <2>1 DEF Busy
  <2>3. SameWork(Io)
    BY <1>3, DispatcherWork
  <2>4. CASE ~Link
    <3>1. Io' \subseteq Io
      <4>1. CASE UNCHANGED listVars
        BY <4>1, SameSets
      <4> QED BY <1>3, <2>4, <4>1, AllocSets, InitSets, ReclaimSets
              DEF Dispatcher, Fetch, AllocFails, InitInternal, Scan
    <3> QED BY <1>2, <2>1, <2>2, <2>3, <2>4, <3>1, ReqAside
  <2>5. CASE Link
    <3>1. /\ dpc = "link" /\ UNCHANGED <<req, completed, copied, internal>>
          /\ Io' = Io \cup {entry} /\ Pending = {entry}
      BY <2>5, LinkSets DEF Link, workVars, Pending
    <3>2. entry \notin Io /\ entry \in Entries
      BY <1>1, <3>1 DEF Links
    <3>3. ~completed[entry] /\ (~isint => req[entry] = sq) /\ (copied[entry] <=> isint)
          /\ (internal[entry] <=> isint) /\ <<sq, FALSE>> \notin dropped
      BY <3>1 DEF DispInv
    <3>4. ~Busy(entry)
      BY <3>2 DEF Busy, WorkInv, AtWork
    <3>5. CASE isint
      <4>1. internal[entry] /\ Linked' = Linked
        BY <1>2, <3>3, <3>5
      <4> QED BY <2>1, <2>2, <3>1, <4>1 DEF ReqInv
    <3>6. CASE ~isint
      <4>1. /\ Linked' = Linked \cup {sq} /\ req[entry] = sq /\ ~internal[entry]
            /\ ~copied[entry] /\ ~completed[entry]
        BY <1>2, <2>5, <3>3, <3>6
      <4>2. sq \notin Linked /\ sq \in Requests
        BY <1>1, <3>1, LinkedRequests DEF CoreTypes
      <4>3. copies[sq] = 0 /\ posted[sq] = 0
        BY <4>2 DEF ReqInv
      <4>4. ASSUME NEW e \in Io', ~internal[e]
            PROVE  /\ req[e] \in Linked'
                   /\ copies[req[e]] = IF copied[e] THEN 1 ELSE 0
                   /\ posted[req[e]] = IF completed[e] \/ Busy(e) THEN 1 ELSE 0
        <5>1. CASE e = entry
          BY <3>4, <4>1, <4>3, <5>1
        <5>2. CASE e \in Io
          BY <4>1, <4>4, <5>2 DEF ReqInv
        <5> QED BY <3>1, <5>1, <5>2
      <4>5. ASSUME NEW e \in Io', NEW f \in Io', ~internal[e], ~internal[f], req[e] = req[f]
            PROVE  e = f
        <5>1. \A x \in Io : ~internal[x] => req[x] # sq
          BY <4>2 DEF ReqInv
        <5> QED BY <3>1, <4>1, <4>5, <5>1 DEF ReqInv
      <4>6. \A r \in Requests : r \notin Linked' => copies[r] = 0 /\ posted[r] = 0
        BY <4>1 DEF ReqInv
      <4> QED BY <2>1, <2>2, <3>1, <4>4, <4>5, <4>6 DEF ReqInv
    <3> QED BY <3>5, <3>6
  <2> QED BY <2>4, <2>5
<1>4. CASE Worker \/ Tick \/ UNCHANGED vars
  <2>1. /\ UNCHANGED <<req, internal>> /\ Io' = Io
        /\ Linked' = Linked
    <3>1. UNCHANGED <<req, internal, dpc>> /\ Io' = Io
      BY <1>4, WorkerFrame DEF dispVars
    <3>2. ~Link
      BY <3>1 DEF Link, NextOperation
    <3> QED BY <1>2, <3>1, <3>2
  <2>2. CASE UNCHANGED <<completed, copied, copies, posted>> /\ \A e \in Io : Busy(e)' = Busy(e)
    <3>1. SameWork(Io)
      BY <2>1, <2>2 DEF SameWork
    <3> QED BY <2>1, <2>2, <3>1, ReqAside
  <2>3. CASE Copy
    <3>1. /\ wpc = "copy" /\ wpc' = "test"
          /\ copies' = IF internal[curr] THEN copies ELSE [copies EXCEPT ![req[curr]] = @ + 1]
          /\ copied' = [copied EXCEPT ![curr] = TRUE]
          /\ UNCHANGED <<completed, posted>>
      BY <2>3 DEF Copy
    <3>2. curr \in Io /\ ~completed[curr] /\ ~copied[curr] /\ curr \in Entries
      BY <1>1, <3>1 DEF WorkInv, AtWork, Links
    <3>3. \A e : ~Busy(e) /\ ~Busy(e)'
      BY <3>1 DEF Busy
    <3>4. copied'[curr] /\ \A e \in Io : e # curr => copied'[e] = copied[e]
      BY <1>1, <3>1, <3>2 DEF CoreTypes, Links
    <3>5. CASE internal[curr]
      BY <2>1, <3>1, <3>3, <3>4, <3>5 DEF ReqInv
    <3>6. CASE ~internal[curr]
      <4>1. req[curr] \in Linked /\ req[curr] \in Requests /\ copies[req[curr]] = 0
        BY <1>1, <3>2, <3>6 DEF ReqInv
      <4>2. copies' = [copies EXCEPT ![req[curr]] = 1]
        BY <3>1, <3>6, <4>1
      <4>3. /\ copies'[req[curr]] = 1
            /\ \A r \in Requests : r # req[curr] => copies'[r] = copies[r]
        BY <1>1, <4>1, <4>2 DEF CoreTypes
      <4>4. \A e \in Io : ~internal[e] /\ e # curr => req[e] # req[curr] /\ req[e] \in Requests
        BY <1>1, <3>2, <3>6 DEF ReqInv
      <4>5. ASSUME NEW e \in Io, ~internal[e]
            PROVE  /\ copies'[req[e]] = IF copied'[e] THEN 1 ELSE 0
                   /\ posted[req[e]] = IF completed[e] \/ Busy(e)' THEN 1 ELSE 0
        <5>1. posted[req[e]] = IF completed[e] \/ Busy(e)' THEN 1 ELSE 0
          BY <3>3, <4>5 DEF ReqInv
        <5>2. CASE e = curr
          BY <3>4, <4>3, <5>1, <5>2
        <5>3. CASE e # curr
          BY <3>4, <4>3, <4>4, <4>5, <5>1, <5>3 DEF ReqInv
        <5> QED BY <5>2, <5>3
      <4>6. \A r \in Requests : r \notin Linked => copies'[r] = 0 /\ posted[r] = 0
        BY <4>1, <4>3 DEF ReqInv
      <4> QED BY <2>1, <3>1, <4>5, <4>6 DEF ReqInv
    <3> QED BY <3>5, <3>6
  <2>4. CASE Test
    <3>1. /\ wpc = "test" /\ UNCHANGED <<completed, copied, copies, curr>>
          /\ \/ Complete /\ wpc' = "mark"
             \/ wpc' = "next" /\ UNCHANGED <<buf, posted>>
      BY <2>4 DEF Test, workVars
    <3>2. curr \in Io /\ ~completed[curr] /\ curr \in Entries
      BY <1>1, <3>1 DEF WorkInv, AtWork, Links
    <3>3. \A e : ~Busy(e)
      BY <3>1 DEF Busy
    <3>4. CASE wpc' = "next" /\ UNCHANGED <<buf, posted>>
      <4>1. \A e \in Io : Busy(e)' = Busy(e)
        BY <3>1, <3>4 DEF Busy
      <4> QED BY <2>2, <3>1, <3>4, <4>1
    <3>5. CASE Complete /\ wpc' = "mark"
      <4>1. \A e : Busy(e)' <=> e = curr
        BY <3>1, <3>5 DEF Busy
      <4>2. CASE internal[curr]
        <5>1. UNCHANGED posted
          BY <3>5, <4>2 DEF Complete
        <5> QED BY <2>1, <3>1, <3>3, <4>1, <4>2, <5>1 DEF ReqInv
      <4>3. CASE ~internal[curr]
        <5>1. req[curr] \in Linked /\ req[curr] \in Requests /\ posted[req[curr]] = 0
          BY <1>1, <3>2, <3>3, <4>3 DEF ReqInv
        <5>2. posted' = [posted EXCEPT ![req[curr]] = 1]
          BY <3>5, <4>3, <5>1 DEF Complete
        <5>3. /\ posted'[req[curr]] = 1
              /\ \A r \in Requests : r # req[curr] => posted'[r] = posted[r]
          BY <1>1, <5>1, <5>2 DEF CoreTypes
        <5>4. \A e \in Io : ~internal[e] /\ e # curr => req[e] # req[curr] /\ req[e] \in Requests
          BY <1>1, <3>2, <4>3 DEF ReqInv
        <5>5. ASSUME NEW e \in Io, ~internal[e]
              PROVE  /\ copies[req[e]] = IF copied[e] THEN 1 ELSE 0
                     /\ posted'[req[e]] = IF completed[e] \/ Busy(e)' THEN 1 ELSE 0
          <6>1. copies[req[e]] = IF copied[e] THEN 1 ELSE 0
            BY <5>5 DEF ReqInv
          <6>2. CASE e = curr
            BY <4>1, <5>3, <6>1, <6>2
          <6>3. CASE e # curr
            BY <3>3, <4>1, <5>3, <5>4, <5>5, <6>1, <6>3 DEF ReqInv
          <6> QED BY <6>2, <6>3
        <5>6. \A r \in Requests : r \notin Linked => copies[r] = 0 /\ posted'[r] = 0
          BY <5>1, <5>3 DEF ReqInv
        <5> QED BY <2>1, <3>1, <5>5, <5>6 DEF ReqInv
      <4> QED BY <4>2, <4>3
    <3> QED BY <3>1, <3>4, <3>5
  <2>5. CASE Mark
    <3>1. /\ wpc = "mark" /\ wpc' = "next" /\ UNCHANGED <<copied, copies, posted>>
          /\ completed' = [completed EXCEPT ![curr] = TRUE]
      BY <2>5 DEF Mark, hostVars
    <3>2. \A e \in Entries : completed'[e] <=> completed[e] \/ e = curr
      BY <1>1, <3>1 DEF CoreTypes
    <3>3. \A e : (Busy(e) <=> e = curr) /\ ~Busy(e)'
      BY <3>1 DEF Busy
    <3>4. \A e \in Io : completed'[e] \/ Busy(e)' <=> completed[e] \/ Busy(e)
      BY <1>1, <3>2, <3>3 DEF Links
    <3> QED BY <2>1, <3>1, <3>4 DEF ReqInv
  <2>6. CASE StartPass \/ Visit \/ NextEntry \/ Tick \/ UNCHANGED vars
    <3>1. UNCHANGED <<completed, copied, copies, posted>>
      BY <2>6 DEF StartPass, Visit, NextEntry, Tick, vars, workVars, hostVars
    <3>2. CASE UNCHANGED <<wpc, curr>>
      BY <2>2, <3>1, <3>2 DEF Busy
    <3>3. CASE wpc # "mark" /\ wpc' # "mark"
      BY <2>2, <3>1, <3>3 DEF Busy
    <3> QED BY <2>6, <3>2, <3>3 DEF StartPass, Visit, NextEntry, Tick, vars, workerVars
  <2> QED BY <1>4, <2>3, <2>4, <2>5, <2>6 DEF Worker
<1> QED BY <1>3, <1>4 DEF Next

-----------------------------------------------------------------------------
(***************************************************************************)
(* Units of the write buffer: one for every internal operation on its way, *)
(* one for every one that was dropped, one for the one that the dispatcher *)
(* is about to queue.                                                      *)
(***************************************************************************)
OnTheWay == {e \in Io : internal[e] /\ ~completed[e] /\ ~(wpc = "mark" /\ curr = e)}
Leaked == {r \in Requests : <<r, TRUE>> \in dropped}
InHand == IF isint THEN 1 ELSE 0

BufInv ==
  /\ buf >= 0
  /\ BufferSize - buf = Cardinality(OnTheWay) + Cardinality(Leaked) + InHand

LEMMA BufferSets ==
  ASSUME CoreInv
  PROVE  /\ IsFiniteSet(OnTheWay) /\ IsFiniteSet(Leaked)
         /\ Cardinality(OnTheWay) \in Nat /\ Cardinality(Leaked) \in Nat
         /\ buf \in Int /\ BufferSize \in Nat
<1>1. Links /\ CoreTypes
  BY LinksBothTimes DEF CoreInv
<1>2. IsFiniteSet(Entries) /\ IsFiniteSet(Requests)
  <2>1. 0 \in Int /\ N - 1 \in Int /\ 1 \in Int /\ NReqs \in Int
    BY IoWorkerAssumption
  <2> QED BY <2>1, FS_Interval DEF Entries, Requests
<1>3. OnTheWay \subseteq Entries /\ Leaked \subseteq Requests
  BY <1>1 DEF OnTheWay, Leaked, Links
<1>4. IsFiniteSet(OnTheWay) /\ IsFiniteSet(Leaked)
  BY <1>2, <1>3, FS_Subset
<1>5. Cardinality(OnTheWay) \in Nat /\ Cardinality(Leaked) \in Nat
  BY <1>4, FS_CardinalityType
<1> QED BY <1>1, <1>4, <1>5, IoWorkerAssumption DEF CoreTypes

\* The sets do not change.
LEMMA BufferAside ==
  ASSUME BufInv, OnTheWay' = OnTheWay, UNCHANGED <<dropped, isint, buf>>
  PROVE  BufInv'
BY DEF BufInv, Leaked, InHand

LEMMA BufNext ==
  ASSUME CoreInv, WorkInv, DispInv, BufInv, [Next]_vars
  PROVE  BufInv'
<1>1. Links /\ CoreTypes
  BY LinksBothTimes DEF CoreInv
<1>2. /\ IsFiniteSet(OnTheWay) /\ IsFiniteSet(Leaked)
      /\ Cardinality(OnTheWay) \in Nat /\ Cardinality(Leaked) \in Nat
      /\ buf \in Int /\ BufferSize \in Nat
  BY BufferSets
<1>3. CASE Dispatcher
  <2>1. UNCHANGED <<wpc, curr>> /\ SameWork(Io)
    BY <1>3, DispatcherFrame, DispatcherWork DEF workerVars
  <2>2. Io' = Io => OnTheWay' = OnTheWay
    BY <2>1 DEF OnTheWay, SameWork
  <2>3. CASE Fetch
    <3>1. /\ dpc = "idle" /\ UNCHANGED <<dropped, listVars>>
          /\ sq + 1 \in Writes => buf > 0
          /\ isint' = (sq + 1 \in Writes)
          /\ buf' = IF sq + 1 \in Writes THEN buf - 1 ELSE buf
      BY <2>3 DEF Fetch
    <3>2. OnTheWay' = OnTheWay /\ Leaked' = Leaked /\ ~isint
      BY <2>2, <3>1, SameSets DEF Leaked, DispInv
    <3>3. CASE sq + 1 \in Writes
      <4>1. buf > 0 /\ buf' = buf - 1 /\ InHand = 0 /\ InHand' = 1
        BY <3>1, <3>2, <3>3 DEF InHand
      <4> QED BY <1>2, <3>2, <4>1 DEF BufInv
    <3>4. CASE sq + 1 \notin Writes
      <4>1. buf' = buf /\ InHand = 0 /\ InHand' = 0
        BY <3>1, <3>2, <3>4 DEF InHand
      <4> QED BY <3>2, <4>1 DEF BufInv
    <3> QED BY <3>3, <3>4
  <2>4. CASE AllocFails
    <3>1. /\ dpc = "alloc" /\ dropped' = dropped \cup {<<sq, isint>>}
          /\ isint' = FALSE /\ UNCHANGED <<buf, listVars>>
      BY <2>4 DEF AllocFails, NextOperation
    <3>2. OnTheWay' = OnTheWay /\ InHand' = 0
      BY <2>2, <3>1, SameSets DEF InHand
    <3>3. CASE isint
      <4>1. sq \in Requests /\ sq \notin Leaked
        BY <1>1, <3>1, <3>3 DEF CoreTypes, DispInv, Leaked
      <4>2. dropped' = dropped \cup {<<sq, TRUE>>}
        <5>1. isint = TRUE
          BY <1>1, <3>3 DEF CoreTypes
        <5> QED BY <3>1, <5>1
      <4>3. Leaked' = Leaked \cup {sq}
        BY <4>1, <4>2 DEF Leaked
      <4>4. Cardinality(Leaked') = Cardinality(Leaked) + 1
        BY <1>2, <4>1, <4>3, FS_AddElement
      <4>5. InHand = 1
        BY <3>3 DEF InHand
      <4> QED BY <1>2, <3>1, <3>2, <4>4, <4>5 DEF BufInv
    <3>4. CASE ~isint
      <4>1. dropped' = dropped \cup {<<sq, FALSE>>}
        <5>1. isint = FALSE
          BY <1>1, <3>4 DEF CoreTypes
        <5> QED BY <3>1, <5>1
      <4>2. Leaked' = Leaked /\ InHand = 0
        BY <3>4, <4>1 DEF Leaked, InHand
      <4> QED BY <3>1, <3>2, <4>2 DEF BufInv
    <3> QED BY <3>3, <3>4
  <2>5. CASE Alloc \/ InitEntry \/ InitInternal \/ Scan
    <3>1. UNCHANGED <<dropped, isint, buf>>
      BY <2>5 DEF Alloc, InitEntry, InitInternal, Scan
    <3>2. Io' = Io
      BY <2>5, AllocSets, InitSets, SameSets DEF InitInternal, Scan
    <3> QED BY <2>2, <3>1, <3>2, BufferAside
  <2>6. CASE Link
    <3>1. /\ dpc = "link" /\ isint' = FALSE /\ UNCHANGED <<buf, dropped, completed, internal>>
          /\ Io' = Io \cup {entry} /\ Pending = {entry}
      BY <2>6, LinkSets DEF Link, NextOperation, workVars, Pending
    <3>2. /\ entry \notin Io /\ ~completed[entry] /\ (internal[entry] <=> isint)
      BY <1>1, <3>1 DEF Links, DispInv
    <3>3. ~(wpc = "mark" /\ curr = entry)
      BY <3>2 DEF WorkInv, AtWork
    <3>4. Leaked' = Leaked /\ InHand' = 0 /\ entry \notin OnTheWay
      BY <3>1, <3>2 DEF Leaked, InHand, OnTheWay
    <3>5. CASE isint
      <4>1. OnTheWay' = OnTheWay \cup {entry}
        BY <2>1, <3>1, <3>2, <3>3, <3>5 DEF OnTheWay
      <4>2. Cardinality(OnTheWay') = Cardinality(OnTheWay) + 1
        BY <1>2, <3>4, <4>1, FS_AddElement
      <4>3. InHand = 1
        BY <3>5 DEF InHand
      <4> QED BY <1>2, <3>1, <3>4, <4>2, <4>3 DEF BufInv
    <3>6. CASE ~isint
      <4>1. OnTheWay' = OnTheWay /\ InHand = 0
        BY <2>1, <3>1, <3>2, <3>6 DEF OnTheWay, InHand
      <4> QED BY <3>1, <3>4, <4>1 DEF BufInv
    <3> QED BY <3>5, <3>6
  <2>7. CASE Reclaim
    <3>1. UNCHANGED <<dropped, isint, buf, completed, internal>>
      BY <2>7 DEF Reclaim, workVars
    <3>2. Io' \subseteq Io /\ \A e \in Io : e \in Io' \/ completed[e]
      BY <2>7, ReclaimSets DEF Gone, Reclaimable
    <3>3. OnTheWay' = OnTheWay
      BY <2>1, <3>1, <3>2 DEF OnTheWay
    <3> QED BY <3>1, <3>3, BufferAside
  <2> QED BY <1>3, <2>3, <2>4, <2>5, <2>6, <2>7 DEF Dispatcher
<1>4. CASE Worker \/ Tick \/ UNCHANGED vars
  <2>1. UNCHANGED <<dropped, isint, internal>> /\ Io' = Io
    BY <1>4, WorkerFrame DEF dispVars
  <2>2. CASE StartPass \/ Visit \/ Copy \/ NextEntry
    <3>1. wpc # "mark" /\ wpc' # "mark" /\ UNCHANGED <<completed, buf>>
      BY <2>2 DEF StartPass, Visit, Copy, NextEntry, workVars
    <3>2. OnTheWay' = OnTheWay
      BY <2>1, <3>1 DEF OnTheWay
    <3> QED BY <2>1, <3>1, <3>2, BufferAside
  <2>3. CASE Test
    <3>1. /\ wpc = "test" /\ UNCHANGED <<completed, curr>>
          /\ \/ Complete /\ wpc' = "mark"
             \/ wpc' = "next" /\ UNCHANGED <<buf, posted>>
      BY <2>3 DEF Test, workVars
    <3>2. curr \in Io /\ ~completed[curr]
      BY <3>1 DEF WorkInv, AtWork
    <3>3. CASE wpc' = "next" /\ UNCHANGED <<buf, posted>>
      <4>1. OnTheWay' = OnTheWay
        BY <2>1, <3>1, <3>3 DEF OnTheWay
      <4> QED BY <2>1, <3>3, <4>1, BufferAside
    <3>4. CASE Complete /\ wpc' = "mark" /\ internal[curr]
      <4>1. buf' = buf + 1 /\ curr \in OnTheWay
        BY <3>1, <3>2, <3>4 DEF Complete, OnTheWay
      <4>2. OnTheWay' = OnTheWay \ {curr}
        BY <2>1, <3>1, <3>4 DEF OnTheWay
      <4>3. Cardinality(OnTheWay') = Cardinality(OnTheWay) - 1
        BY <1>2, <4>1, <4>2, FS_RemoveElement
      <4>4. Leaked' = Leaked /\ InHand' = InHand /\ InHand \in Nat
        BY <2>1 DEF Leaked, InHand
      <4> QED BY <1>2, <4>1, <4>3, <4>4 DEF BufInv
    <3>5. CASE Complete /\ wpc' = "mark" /\ ~internal[curr]
      <4>1. OnTheWay' = OnTheWay /\ UNCHANGED buf
        BY <2>1, <3>1, <3>5 DEF OnTheWay, Complete
      <4> QED BY <2>1, <4>1, BufferAside
    <3> QED BY <3>1, <3>3, <3>4, <3>5
  <2>4. CASE Mark
    <3>1. /\ wpc = "mark" /\ wpc' = "next" /\ UNCHANGED <<buf, curr>>
          /\ completed' = [completed EXCEPT ![curr] = TRUE]
      BY <2>4 DEF Mark
    <3>2. \A e \in Io : completed'[e] <=> completed[e] \/ e = curr
      BY <1>1, <3>1 DEF CoreTypes, Links
    <3>3. OnTheWay' = OnTheWay
      BY <2>1, <3>1, <3>2 DEF OnTheWay
    <3> QED BY <2>1, <3>1, <3>3, BufferAside
  <2>5. CASE Tick \/ UNCHANGED vars
    <3>1. UNCHANGED <<completed, wpc, curr, buf>>
      BY <2>5 DEF Tick, vars, workVars, workerVars
    <3>2. OnTheWay' = OnTheWay
      BY <2>1, <3>1 DEF OnTheWay
    <3> QED BY <2>1, <3>1, <3>2, BufferAside
  <2> QED BY <1>4, <2>2, <2>3, <2>4, <2>5 DEF Worker
<1> QED BY <1>3, <1>4 DEF Next

-----------------------------------------------------------------------------
(***************************************************************************)
(* Everything together.                                                    *)
(***************************************************************************)
FullInv == CoreInv /\ WorkInv /\ DispInv /\ ReqInv /\ BufInv

LEMMA InitFull ==
  ASSUME Init
  PROVE  FullInv
<1>1. CoreInv
  BY InitCore
<1>2. Links /\ CoreTypes
  BY <1>1, LinksBothTimes DEF CoreInv
<1>3. Io = {}
  BY NilOutside, WalkNil DEF Init, Io
<1>4. WorkInv
  <2>1. \A e \in Free : ~completed[e]
    BY <1>2 DEF Init, Links
  <2> QED BY <2>1 DEF Init, WorkInv, AtWork
<1>5. DispInv
  BY DEF Init, DispInv
<1>6. ReqInv
  BY <1>3 DEF Init, ReqInv
<1>7. BufInv
  <2>1. OnTheWay = {} /\ Leaked = {} /\ InHand = 0 /\ buf = BufferSize
    BY <1>3 DEF Init, OnTheWay, Leaked, InHand
  <2>2. Cardinality(OnTheWay) = 0 /\ Cardinality(Leaked) = 0 /\ BufferSize \in Nat
    BY <2>1, FS_EmptySet, IoWorkerAssumption
  <2> QED BY <2>1, <2>2 DEF BufInv
<1> QED BY <1>1, <1>4, <1>5, <1>6, <1>7 DEF FullInv

LEMMA FullInductive ==
  ASSUME WorkerMayStall = FALSE, FullInv, [Next]_vars
  PROVE  FullInv'
BY CoreInductive, WorkNext, DispNext, ReqNext, BufNext DEF FullInv

LEMMA FullInvariant ==
  ASSUME WorkerMayStall = FALSE
  PROVE  Spec => []FullInv
<1>1. Init => FullInv
  BY InitFull
<1>2. FullInv /\ [Next]_vars => FullInv'
  BY FullInductive
<1> QED BY <1>1, <1>2, PTL DEF Spec

\* As long as the free list does not come round to the entry on which the
\* worker stands, every variable of the queue keeps its type; the write buffer
\* never holds more than its size, and never less than nothing.
THEOREM QueueTypes ==
  ASSUME WorkerMayStall = FALSE
  PROVE  Spec => []TypeOK
<1>1. FullInv => TypeOK
  <2> SUFFICES ASSUME FullInv PROVE TypeOK
    OBVIOUS
  <2>1. CoreTypes /\ BufInv
    BY DEF FullInv, CoreInv
  <2>2. /\ Cardinality(OnTheWay) \in Nat /\ Cardinality(Leaked) \in Nat
        /\ buf \in Int /\ BufferSize \in Nat
    BY BufferSets DEF FullInv
  <2>3. buf \in 0 .. BufferSize
    <3>1. InHand \in Nat
      BY DEF InHand
    <3> QED BY <2>1, <2>2, <3>1 DEF BufInv
  <2> QED BY <2>1, <2>3 DEF CoreTypes, TypeOK
<1> QED BY <1>1, FullInvariant, PTL

\* Under the same hypothesis, a unit of write buffer that is not free belongs
\* to a write whose internal operation is still to come (schedule_internal_
\* operation), or it leaked because that operation found the queue full.
THEOREM BufferUnitsAccounted ==
  ASSUME WorkerMayStall = FALSE
  PROVE  Spec => []BufferAccounted
<1>1. FullInv => BufferAccounted
  BY DEF FullInv, BufInv, BufferAccounted, OnTheWay, Leaked, InHand, Io
<1> QED BY <1>1, FullInvariant, PTL

-----------------------------------------------------------------------------
(***************************************************************************)
(* The work queue does what WorkQueue allows.                              *)
(***************************************************************************)
Refused == {r \in Requests : <<r, FALSE>> \in dropped}

LEMMA RefusedNext ==
  ASSUME CoreTypes, [Next]_vars
  PROVE  Refused' = IF AllocFails /\ ~isint THEN Refused \cup {sq} ELSE Refused
<1>1. CASE AllocFails
  <2>1. dpc = "alloc" /\ dropped' = dropped \cup {<<sq, isint>>}
    BY <1>1 DEF AllocFails
  <2>2. sq \in Requests
    BY <2>1 DEF CoreTypes
  <2>3. CASE isint
    <3>1. isint = TRUE
      BY <2>3 DEF CoreTypes
    <3>2. dropped' = dropped \cup {<<sq, TRUE>>}
      BY <2>1, <3>1
    <3> QED BY <2>3, <3>2 DEF Refused
  <2>4. CASE ~isint
    <3>1. isint = FALSE
      BY <2>4 DEF CoreTypes
    <3>2. dropped' = dropped \cup {<<sq, FALSE>>}
      BY <2>1, <3>1
    <3> QED BY <1>1, <2>2, <2>4, <3>2 DEF Refused
  <2> QED BY <2>3, <2>4
<1>2. CASE ~AllocFails
  <2>1. UNCHANGED dropped
    <3>1. CASE Dispatcher
      BY <1>2, <3>1 DEF Dispatcher, Fetch, Alloc, InitEntry, InitInternal, Scan, Link, Reclaim
    <3>2. CASE Worker \/ Tick \/ UNCHANGED vars
      BY <3>2, WorkerFrame
    <3> QED BY <3>1, <3>2 DEF Next
  <2> QED BY <1>2, <2>1 DEF Refused
<1> QED BY <1>1, <1>2

\* Every step is a step of WorkQueue or leaves its variables alone.
LEMMA QueueStep ==
  ASSUME FullInv, [Next]_vars
  PROVE  [Queue!Next]_(Queue!vars)
<1>1. /\ CoreInv /\ CoreTypes /\ WorkInv /\ DispInv /\ ReqInv /\ Links
      /\ Linked \subseteq Requests
  BY LinksBothTimes, LinkedRequests DEF FullInv, CoreInv
<1>2. /\ Linked' = IF Link /\ ~isint THEN Linked \cup {sq} ELSE Linked
      /\ Refused' = IF AllocFails /\ ~isint THEN Refused \cup {sq} ELSE Refused
  BY <1>1, LinkedNext, RefusedNext
<1>3. ASSUME Linked' = Linked, Refused' = Refused, UNCHANGED <<copies, posted>>
      PROVE  UNCHANGED Queue!vars
  BY <1>3 DEF Queue!vars, Refused
<1>4. CASE Dispatcher
  <2>1. UNCHANGED <<copies, posted>>
    BY <1>4, DispatcherFrame DEF hostVars
  <2>2. CASE Link /\ ~isint
    <3>1. dpc = "link" /\ ~AllocFails
      BY <2>2 DEF Link, AllocFails
    <3>2. sq \in Requests /\ sq \notin Linked /\ sq \notin Refused
      BY <1>1, <3>1, LinkedRequests DEF CoreTypes, DispInv, Refused
    <3>3. Queue!Enqueue(sq)
      BY <1>2, <2>1, <2>2, <3>1, <3>2 DEF Queue!Enqueue, Refused
    <3> QED BY <3>2, <3>3 DEF Queue!Next
  <2>3. CASE AllocFails /\ ~isint
    <3>1. dpc = "alloc" /\ ~Link
      BY <2>3 DEF Link, AllocFails
    <3>2. sq \in Requests /\ sq \notin Linked /\ sq \notin Refused
      BY <1>1, <3>1, LinkedRequests DEF CoreTypes, DispInv, Refused
    <3>3. PICK r \in Requests : r = sq
      BY <3>2
    <3>4. Queue!Refuse(r)
      BY <1>2, <2>1, <2>3, <3>1, <3>2, <3>3 DEF Queue!Refuse, Refused
    <3> QED BY <3>4 DEF Queue!Next
  <2>4. CASE ~(Link /\ ~isint) /\ ~(AllocFails /\ ~isint)
    <3>1. Linked' = Linked /\ Refused' = Refused
      BY <1>2, <2>4
    <3> QED BY <1>3, <2>1, <3>1
  <2> QED BY <2>2, <2>3, <2>4
<1>5. CASE Worker \/ Tick \/ UNCHANGED vars
  <2>1. Linked' = Linked /\ Refused' = Refused
    <3>1. UNCHANGED <<dpc, dropped>>
      BY <1>5, WorkerFrame DEF dispVars
    <3>2. ~Link
      BY <3>1 DEF Link, NextOperation
    <3> QED BY <1>2, <3>1, <3>2 DEF Refused
  <2>2. CASE Copy /\ ~internal[curr]
    <3>1. /\ wpc = "copy" /\ UNCHANGED posted
          /\ copies' = [copies EXCEPT ![req[curr]] = @ + 1]
      BY <2>2 DEF Copy
    <3>2. /\ req[curr] \in Linked /\ req[curr] \in Requests /\ copies[req[curr]] = 0
      <4>1. curr \in Io /\ ~copied[curr]
        BY <1>1, <3>1 DEF WorkInv, AtWork
      <4> QED BY <1>1, <2>2, <4>1 DEF ReqInv
    <3>3. copies' = [copies EXCEPT ![req[curr]] = 1]
      BY <3>1, <3>2
    <3>4. Queue!Copy(req[curr])
      BY <2>1, <3>1, <3>2, <3>3 DEF Queue!Copy, Refused
    <3> QED BY <3>2, <3>4 DEF Queue!Next
  <2>3. CASE Test /\ target[curr] <= latest /\ ~internal[curr]
    <3>1. /\ wpc = "test" /\ UNCHANGED copies
          /\ posted' = [posted EXCEPT ![req[curr]] = @ + 1]
      BY <2>3 DEF Test, Complete
    <3>2. /\ req[curr] \in Requests /\ copies[req[curr]] = 1 /\ posted[req[curr]] = 0
      <4>1. curr \in Io /\ copied[curr] /\ ~completed[curr] /\ ~Busy(curr)
        BY <1>1, <3>1 DEF WorkInv, AtWork, Busy
      <4> QED BY <1>1, <2>3, <4>1 DEF ReqInv
    <3>3. posted' = [posted EXCEPT ![req[curr]] = 1]
      BY <3>1, <3>2
    <3>4. Queue!Post(req[curr])
      BY <2>1, <3>1, <3>2, <3>3 DEF Queue!Post, Refused
    <3> QED BY <3>2, <3>4 DEF Queue!Next
  <2>4. CASE UNCHANGED <<copies, posted>>
    BY <1>3, <2>1, <2>4
  <2>5. Copy /\ internal[curr] => UNCHANGED <<copies, posted>>
    BY DEF Copy
  <2>6. Test /\ (internal[curr] \/ ~(target[curr] <= latest)) => UNCHANGED <<copies, posted>>
    BY DEF Test, Complete
  <2>7. StartPass \/ Visit \/ Mark \/ NextEntry \/ Tick \/ UNCHANGED vars
          => UNCHANGED <<copies, posted>>
    BY DEF StartPass, Visit, Mark, NextEntry, Tick, vars, hostVars
  <2> QED BY <1>5, <2>2, <2>3, <2>4, <2>5, <2>6, <2>7 DEF Worker
<1> QED BY <1>4, <1>5 DEF Next

\* The safety half of ImplementsQueue: whatever dispatcher and worker do to
\* the lists at the same time (io.c), no request is queued and refused, copied
\* twice, answered twice, or answered before its data has been moved, as long
\* as the free list does not come round to the worker.
THEOREM QueueImplemented ==
  ASSUME WorkerMayStall = FALSE
  PROVE  Spec => Queue!Init /\ [][Queue!Next]_(Queue!vars)
<1>1. Init => Queue!Init
  <2> SUFFICES ASSUME Init PROVE Queue!Init
    OBVIOUS
  <2>1. Linked = {}
    <3>1. 1 .. 0 = {}
      OBVIOUS
    <3> QED BY <3>1 DEF Init, Linked
  <2>2. Refused = {}
    BY DEF Init, Refused
  <2> QED BY <2>1, <2>2 DEF Init, Queue!Init, Refused
<1>2. FullInv /\ [Next]_vars => [Queue!Next]_(Queue!vars)
  BY QueueStep
<1> QED BY <1>1, <1>2, FullInvariant, PTL DEF Spec

=============================================================================
