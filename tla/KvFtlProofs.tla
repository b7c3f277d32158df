------------------------------ MODULE KvFtlProofs ------------------------------
(***************************************************************************)
(* Proofs about KvFtl: searches end, an entry that was cut off its chain   *)
(* or deleted never comes back, what was allocated for a value stays its   *)
(* own, and an iterator returns every slot once.                           *)
(*                                                                         *)
(* Two facts carry the chains.  A link is only ever made to a free slot,   *)
(* and a free slot links nowhere, so that no link closes a ring.  And the  *)
(* slots a search can come to grow only by the slot that is being filled,  *)
(* so that an entry out of reach stays out of reach.                       *)
(***************************************************************************)
EXTENDS KvFtl, FiniteSetTheorems, FunctionTheorems, TLAPS

\* Every nonempty set of naturals has a least element.
LEMMA LeastNatural ==
  ASSUME NEW T \in SUBSET Nat, T # {}
  PROVE  \E x \in T : \A y \in T : x <= y
<1>1. PICK m \in T : TRUE
  OBVIOUS
<1> DEFINE B == 1 .. m
           R == StrictSubsetOrdering(B)
           U == {1 .. x : x \in {y \in T : y <= m}}
<1>2. IsWellFoundedOn(R, SUBSET B)
  <2>1. IsFiniteSet(B)
    BY FS_Interval
  <2> HIDE DEF B
  <2>2. FiniteSubsetsOf(B) = SUBSET B
    BY <2>1, FS_FiniteSubsetsOfFinite
  <2>3. IsWellFoundedOn(R, FiniteSubsetsOf(B))
    BY FS_StrictSubsetOrderingWellFounded
  <2> QED BY <2>2, <2>3
<1>3. U \in SUBSET SUBSET B /\ U # {}
  OBVIOUS
<1>4. \E s \in U : \A t \in U : ~ (<<t, s>> \in R)
  <2> HIDE DEF R, U, B
  <2> QED BY <1>2, <1>3, WFMin
<1>5. PICK x \in {y \in T : y <= m} : \A t \in U : ~ (<<t, 1 .. x>> \in R)
  BY <1>4
<1>6. ASSUME NEW y \in T PROVE x <= y
  <2> SUFFICES ASSUME y < x PROVE FALSE
    OBVIOUS
  <2>1. 1 .. y \in U
    OBVIOUS
  <2>2. /\ x \in 1 .. x /\ x \notin 1 .. y /\ 1 .. y \subseteq 1 .. x
        /\ x \in Nat /\ m \in Nat /\ x <= m
    OBVIOUS
  <2>3. <<1 .. y, 1 .. x>> \notin R
    BY <1>5, <2>1
  <2>4. 1 .. y \in SUBSET B /\ 1 .. x \in SUBSET B
    BY <2>2
  <2> QED BY <2>2, <2>3, <2>4 DEF StrictSubsetOrdering
<1> QED BY <1>6

\* A set of numbers with 0 and with the successor of each of its numbers
\* below n holds every number up to n.
LEMMA Reached ==
  ASSUME NEW n \in Nat, NEW P, 0 \in P, \A m \in 0 .. n - 1 : m \in P => m + 1 \in P
  PROVE  0 .. n \subseteq P
<1> SUFFICES ASSUME (0 .. n) \ P # {} PROVE FALSE
  OBVIOUS
<1>1. PICK m \in (0 .. n) \ P : \A y \in (0 .. n) \ P : m <= y
  <2>1. (0 .. n) \ P \in SUBSET Nat
    OBVIOUS
  <2> QED BY <2>1, LeastNatural
<1>2. m - 1 \in 0 .. n - 1 /\ m - 1 \in P
  BY <1>1
<1> QED BY <1>1, <1>2

-----------------------------------------------------------------------------
(***************************************************************************)
(* The search.                                                             *)
(***************************************************************************)
TableType ==
  /\ key \in [Slots -> Keys \cup {NIL}]
  /\ off \in [Slots -> Cells \cup {NIL}]
  /\ len \in [Slots -> Lens \cup {NIL}]
  /\ next \in [Slots -> Slots \cup {NIL}]

\* One move of the search for k.
Move(k, s) == IF Ends(s, k) THEN s ELSE next[s]

\* at is where the search for k is after each move.
IsSearch(at, k, n) ==
  /\ at \in [0 .. n -> Slots \cup {NIL}]
  /\ at[0] = Hash[k]
  /\ \A m \in 1 .. n : at[m] = Move(k, at[m - 1])

LEMMA MoveType ==
  ASSUME TableType, NEW k, NEW s \in Slots \cup {NIL}
  PROVE  Move(k, s) \in Slots \cup {NIL}
BY DEF Move, Ends, TableType, NIL

\* The recursive function of Search exists and is the search.
LEMMA SearchIs ==
  ASSUME TableType, NEW k \in Keys
  PROVE  IsSearch(Search(k), k, NrSlots)
<1> DEFINE P == {n \in Nat : \E at : IsSearch(at, k, n)}
           Eqn(f) == f = [n \in 0 .. NrSlots |->
                            IF n = 0 THEN Hash[k] ELSE Move(k, f[n - 1])]
<1>0. NrSlots \in Nat /\ Hash[k] \in Slots
  BY KvAssumption
<1>1. 0 \in P
  <2>1. IsSearch([m \in 0 .. 0 |-> Hash[k]], k, 0)
    BY <1>0 DEF IsSearch
  <2> QED BY <2>1
<1>2. ASSUME NEW n \in 0 .. NrSlots - 1, n \in P PROVE n + 1 \in P
  <2>1. PICK at : IsSearch(at, k, n)
    BY <1>2
  <2> DEFINE b == [m \in 0 .. n + 1 |-> IF m <= n THEN at[m] ELSE Move(k, at[n])]
  <2>2. at[n] \in Slots \cup {NIL} /\ Move(k, at[n]) \in Slots \cup {NIL}
    BY <2>1, MoveType DEF IsSearch
  <2>3. b \in [0 .. n + 1 -> Slots \cup {NIL}] /\ b[0] = Hash[k]
    BY <2>1, <2>2 DEF IsSearch
  <2>4. ASSUME NEW m \in 1 .. n + 1 PROVE b[m] = Move(k, b[m - 1])
    <3>1. b[m - 1] = at[m - 1]
      OBVIOUS
    <3>2. CASE m = n + 1
      BY <3>1, <3>2
    <3>3. CASE m <= n
      BY <3>1, <3>3, <2>1 DEF IsSearch
    <3> QED BY <3>2, <3>3
  <2>5. IsSearch(b, k, n + 1)
    BY <2>3, <2>4 DEF IsSearch
  <2> QED BY <2>5
<1>3. PICK at : IsSearch(at, k, NrSlots)
  <2> HIDE DEF P
  <2>1. NrSlots \in P
    BY <1>0, <1>1, <1>2, Reached
  <2> QED BY <2>1 DEF P
<1>4. Eqn(at)
  BY <1>0, <1>3 DEF IsSearch
<1>5. Search(k) = CHOOSE f : Eqn(f)
  BY DEF Search, Move
<1>6. Eqn(Search(k))
  <2> HIDE DEF Eqn
  <2> QED BY <1>4, <1>5
<1>7. ASSUME NEW f, Eqn(f) PROVE f = at
  <2> DEFINE Q == {n \in 0 .. NrSlots : f[n] = at[n]}
  <2>1. 0 \in Q
    BY <1>0, <1>3, <1>7 DEF IsSearch
  <2>2. ASSUME NEW n \in 0 .. NrSlots - 1, n \in Q PROVE n + 1 \in Q
    <3>1. n + 1 \in 1 .. NrSlots /\ (n + 1) - 1 = n
      BY <1>0
    <3>2. at[n + 1] = Move(k, at[n])
      BY <1>3, <3>1 DEF IsSearch
    <3>3. f[n + 1] = Move(k, f[n])
      <4>1. \A m \in 0 .. NrSlots : f[m] = IF m = 0 THEN Hash[k] ELSE Move(k, f[m - 1])
        BY <1>7
      <4>2. n + 1 \in 0 .. NrSlots /\ n + 1 # 0
        BY <1>0
      <4>3. f[n + 1] = Move(k, f[(n + 1) - 1])
        BY <4>1, <4>2, Zenon
      <4> QED BY <3>1, <4>3
    <3> QED BY <2>2, <3>1, <3>2, <3>3
  <2>3. 0 .. NrSlots \subseteq Q
    <3> HIDE DEF Q
    <3> QED BY <1>0, <2>1, <2>2, Reached
  <2> QED BY <1>3, <1>7, <2>3 DEF IsSearch
<1> QED BY <1>3, <1>6, <1>7

LEMMA LookupIs ==
  ASSUME TableType, NEW k \in Keys
  PROVE  /\ Lookup(k) \in Slots \cup {NIL}
         /\ Lookup(k) # NIL => off[Lookup(k)] # NIL /\ key[Lookup(k)] = k
<1>1. Search(k)[NrSlots] \in Slots \cup {NIL}
  BY SearchIs, KvAssumption DEF IsSearch
<1> QED BY <1>1 DEF Lookup

\* What ends a search ends it for good.
LEMMA EndedStays ==
  ASSUME NEW k, NEW n \in Nat, NEW at, IsSearch(at, k, n),
         NEW i \in 0 .. n, Ends(at[i], k)
  PROVE  \A j \in i .. n : at[j] = at[i]
<1> DEFINE P == {j \in 0 .. n : j >= i => at[j] = at[i]}
<1>1. 0 \in P
  OBVIOUS
<1>2. ASSUME NEW j \in 0 .. n - 1, j \in P PROVE j + 1 \in P
  <2>1. j + 1 \in 1 .. n /\ (j + 1) - 1 = j
    OBVIOUS
  <2>2. at[j + 1] = Move(k, at[j])
    BY <2>1 DEF IsSearch
  <2>3. CASE j >= i
    BY <1>2, <2>1, <2>2, <2>3 DEF Move
  <2>4. CASE j < i
    BY <2>1, <2>4
  <2> QED BY <2>3, <2>4
<1> HIDE DEF P
<1>3. 0 .. n \subseteq P
  BY <1>1, <1>2, Reached
<1> QED BY <1>3 DEF P

(***************************************************************************)
(* Links.  rank grows along every link, hence there is no ring.            *)
(***************************************************************************)
Ranked(rank) ==
  /\ rank \in [Slots -> Nat]
  /\ \A s \in Slots : next[s] # NIL => rank[s] < rank[next[s]]

Chains == \E rank \in [Slots -> Nat] : Ranked(rank)

\* A free slot holds nothing and links nowhere.
FreeBlank ==
  \A s \in Slots : IF off[s] = NIL THEN key[s] = NIL /\ len[s] = NIL /\ next[s] = NIL
                                   ELSE key[s] \in Keys /\ len[s] \in Lens

\* R holds every slot that the search for k could come to.
Closed(R, k) == Hash[k] \in R /\ \A s \in R : next[s] # NIL => next[s] \in R

LEMMA StaysInside ==
  ASSUME NEW k \in Keys, NEW n \in Nat, NEW at, IsSearch(at, k, n),
         NEW R \in SUBSET Slots, Closed(R, k)
  PROVE  \A i \in 0 .. n : at[i] \in R \cup {NIL}
<1> DEFINE P == {i \in 0 .. n : at[i] \in R \cup {NIL}}
<1>1. 0 \in P
  BY DEF IsSearch, Closed
<1>2. ASSUME NEW i \in 0 .. n - 1, i \in P PROVE i + 1 \in P
  <2>1. i + 1 \in 1 .. n /\ (i + 1) - 1 = i
    OBVIOUS
  <2>2. at[i + 1] = Move(k, at[i])
    BY <2>1 DEF IsSearch
  <2> QED BY <1>2, <2>1, <2>2 DEF Move, Ends, Closed
<1> HIDE DEF P
<1>3. 0 .. n \subseteq P
  BY <1>1, <1>2, Reached
<1> QED BY <1>3 DEF P

\* Where a search can come to is where its key is found.
LEMMA LookupInside ==
  ASSUME TableType, NEW k \in Keys, NEW R \in SUBSET Slots, Closed(R, k)
  PROVE  Lookup(k) \in R \cup {NIL}
<1>1. Search(k)[NrSlots] \in R \cup {NIL}
  BY SearchIs, StaysInside, KvAssumption
<1> QED BY <1>1 DEF Lookup

\* After NrSlots moves without an end the search would have come to more
\* slots than there are.
LEMMA ChainsEnd ==
  ASSUME TableType, Chains, NEW k \in Keys
  PROVE  Ends(Search(k)[NrSlots], k)
<1> SUFFICES ASSUME ~Ends(Search(k)[NrSlots], k) PROVE FALSE
  OBVIOUS
<1> DEFINE n == NrSlots
           at == Search(k)
<1>0. n \in Nat /\ IsSearch(at, k, n)
  BY SearchIs, KvAssumption
<1>1. PICK rank \in [Slots -> Nat] : Ranked(rank)
  BY DEF Chains
<1> HIDE DEF n, at
<1>2. ASSUME NEW i \in 0 .. n PROVE ~Ends(at[i], k) /\ at[i] \in Slots
  <2>1. ~Ends(at[i], k)
    <3> SUFFICES ASSUME Ends(at[i], k) PROVE FALSE
      OBVIOUS
    <3>1. at[n] = at[i]
      BY <1>0, EndedStays
    <3> QED BY <3>1 DEF n, at
  <2>2. at[i] \in Slots \cup {NIL}
    BY <1>0 DEF IsSearch
  <2> QED BY <2>1, <2>2 DEF Ends
<1>3. ASSUME NEW i \in 0 .. n PROVE \A j \in 0 .. n : i < j => rank[at[i]] < rank[at[j]]
  <2> DEFINE P == {j \in 0 .. n : i < j => rank[at[i]] < rank[at[j]]}
  <2>1. 0 \in P
    BY <1>0
  <2>2. ASSUME NEW j \in 0 .. n - 1, j \in P PROVE j + 1 \in P
    <3>1. j + 1 \in 1 .. n /\ (j + 1) - 1 = j /\ j + 1 \in 0 .. n /\ j \in 0 .. n
      BY <1>0
    <3>2. at[j + 1] = next[at[j]]
      BY <1>0, <1>2, <3>1 DEF IsSearch, Move
    <3>3. at[j] \in Slots /\ at[j + 1] \in Slots /\ at[i] \in Slots
      BY <1>2, <3>1
    <3>4. rank[at[j]] < rank[at[j + 1]]
      BY <1>1, <3>2, <3>3 DEF Ranked, Slots, NIL
    <3>5. rank[at[i]] \in Nat /\ rank[at[j]] \in Nat /\ rank[at[j + 1]] \in Nat
      BY <3>3
    <3>6. i < j + 1 => i < j \/ i = j
      BY <1>0
    <3> QED BY <2>2, <3>1, <3>4, <3>5, <3>6
  <2> HIDE DEF P
  <2>3. 0 .. n \subseteq P
    BY <1>0, <2>1, <2>2, Reached
  <2> QED BY <2>3 DEF P
<1>4. at \in [0 .. n -> Slots]
  BY <1>0, <1>2 DEF IsSearch
<1>5. /\ IsFiniteSet(0 .. n) /\ Cardinality(0 .. n) = n + 1
      /\ IsFiniteSet(Slots) /\ Cardinality(Slots) = n
  BY <1>0, FS_Interval DEF Slots, n
<1>6. PICK i \in 0 .. n, j \in 0 .. n : i # j /\ at[i] = at[j]
  <2> DEFINE D == 0 .. n
  <2>1. IsFiniteSet(D) /\ IsFiniteSet(Slots) /\ Cardinality(Slots) < Cardinality(D)
    BY <1>0, <1>5
  <2>2. at \in [D -> Slots]
    BY <1>4
  <2> HIDE DEF D
  <2>3. \E i, j \in D : i # j /\ at[i] = at[j]
    BY ONLY <2>1, <2>2, FS_PigeonHole
  <2> QED BY <2>3 DEF D
<1>7. rank[at[i]] \in Nat
  BY <1>2
<1>8. i < j \/ j < i
  BY <1>0, <1>6
<1> QED BY <1>3, <1>6, <1>7, <1>8

\* A key that is not found: the slots a search can come to hold no entry of
\* this key.
LEMMA NotFoundNotReached ==
  ASSUME TableType, Chains, FreeBlank, NEW k \in Keys, Lookup(k) = NIL
  PROVE  \E R \in SUBSET Slots : Closed(R, k) /\ \A s \in R : key[s] # k
<1> DEFINE n == NrSlots
           at == Search(k)
           R == {at[i] : i \in 0 .. n} \ {NIL}
<1>0. n \in Nat /\ n > 0 /\ IsSearch(at, k, n) /\ Hash[k] \in Slots /\ NIL \notin Slots
      /\ NIL \notin Keys
  BY SearchIs, KvAssumption DEF NIL, Slots
<1>1. at[n] = NIL \/ (at[n] \in Slots /\ off[at[n]] = NIL /\ next[at[n]] = NIL)
  BY <1>0, ChainsEnd DEF Lookup, Ends, IsSearch, FreeBlank
<1> HIDE DEF at, n
<1>2. R \in SUBSET Slots
  BY <1>0 DEF IsSearch
<1>3. ASSUME NEW i \in 0 .. n, at[i] # NIL PROVE key[at[i]] # k
  <2> SUFFICES ASSUME key[at[i]] = k PROVE FALSE
    OBVIOUS
  <2>1. at[n] = at[i]
    <3>1. Ends(at[i], k) /\ n \in i .. n
      BY <1>0 DEF Ends
    <3> QED BY <1>0, <3>1, EndedStays
  <2> QED BY <1>0, <1>1, <1>3, <2>1 DEF FreeBlank
<1>4. Hash[k] \in R
  <2>1. at[0] = Hash[k] /\ 0 \in 0 .. n
    BY <1>0 DEF IsSearch
  <2> QED BY <2>1, <1>0
<1>5. ASSUME NEW i \in 0 .. n, at[i] # NIL, next[at[i]] # NIL PROVE next[at[i]] \in R
  <2>1. at[i] \in Slots /\ next[at[i]] \in Slots
    BY <1>0, <1>5 DEF IsSearch, TableType
  <2>2. off[at[i]] # NIL
    BY <2>1, <1>5 DEF FreeBlank
  <2>3. ~Ends(at[i], k)
    BY <1>3, <1>5, <2>2 DEF Ends
  <2>4. i # n
    BY <1>1, <1>5
  <2>5. i + 1 \in 1 .. n /\ (i + 1) - 1 = i /\ i + 1 \in 0 .. n
    BY <2>4, <1>0
  <2>6. at[i + 1] = next[at[i]]
    BY <1>0, <2>3, <2>5 DEF IsSearch, Move
  <2> QED BY <2>1, <2>5, <2>6, <1>0
<1>6. Closed(R, k)
  BY <1>4, <1>5 DEF Closed
<1>7. \A s \in R : key[s] # k
  BY <1>3
<1> HIDE DEF R
<1> QED BY <1>2, <1>6, <1>7

-----------------------------------------------------------------------------
(***************************************************************************)
(* The mapping table.                                                      *)
(***************************************************************************)
\* The last store of a key, if it was not deleted since, is in the table.
SlotsCurrent ==
  /\ slotOf \in [Keys -> Slots \cup {NIL}]
  /\ \A k \in Keys : slotOf[k] # NIL => key[slotOf[k]] = k

\* An entry of k in another slot than that of its last store was cut off: no
\* search for k comes to it.
OutOfReach ==
  \A k \in Keys, s \in Slots : key[s] = k /\ slotOf[k] # s =>
    \E R \in SUBSET Slots : Closed(R, k) /\ s \notin R

TableInv == TableType /\ Chains /\ FreeBlank /\ SlotsCurrent /\ OutOfReach

LEMMA FoundCurrent ==
  ASSUME TableInv, NEW k \in Keys, Lookup(k) # NIL
  PROVE  Lookup(k) = slotOf[k]
<1>1. /\ Lookup(k) \in Slots /\ off[Lookup(k)] # NIL /\ key[Lookup(k)] = k
  BY LookupIs DEF TableInv
<1> SUFFICES ASSUME slotOf[k] # Lookup(k) PROVE FALSE
  BY <1>1
<1>2. PICK R \in SUBSET Slots : Closed(R, k) /\ Lookup(k) \notin R
  BY <1>1 DEF TableInv, OutOfReach
<1> QED BY <1>2, LookupInside DEF TableInv

\* x is a multiple of n between -n and n.
LEMMA ModZero ==
  ASSUME NEW n \in Nat, n > 0, NEW x \in 0 .. n - 1, NEW y \in 0 .. n - 1, (x - y) % n <= 0
  PROVE  x = y
OBVIOUS

\* find_next_slot finds a free slot, and the hash slot if that is free.
LEMMA NextSlotIs ==
  ASSUME NEW h \in Slots, Free # {}
  PROVE  NextSlot(h) \in Free /\ (h \in Free => NextSlot(h) = h)
<1> DEFINE D(s) == (s - h) % NrSlots
           T == {D(s) : s \in Free}
           Least(s) == \A t \in Free : D(s) <= D(t)
<1>1. \A s \in Free : D(s) \in Nat
  BY KvAssumption DEF Free, Slots
<1>2. T \in SUBSET Nat /\ T # {}
  BY <1>1
<1>3. PICK s \in Free : Least(s)
  <2> HIDE DEF D
  <2>1. PICK x \in T : \A y \in T : x <= y
    <3> HIDE DEF T
    <3> QED BY <1>2, LeastNatural
  <2>2. PICK s \in Free : x = D(s)
    BY <2>1
  <2> QED BY <2>1, <2>2
<1>4. NextSlot(h) = CHOOSE t \in Free : Least(t)
  BY DEF NextSlot
<1>5. NextSlot(h) \in Free /\ Least(NextSlot(h))
  <2> HIDE DEF Least
  <2> QED BY <1>3, <1>4
<1>6. ASSUME h \in Free PROVE NextSlot(h) = h
  <2>1. D(NextSlot(h)) <= D(h)
    BY <1>5, <1>6
  <2>2. D(h) = 0
    <3>1. h - h = 0 /\ 0 % NrSlots = 0
      BY KvAssumption DEF Slots
    <3> QED BY <3>1
  <2>3. NextSlot(h) \in Slots
    BY <1>5 DEF Free
  <2> QED BY <2>1, <2>2, <2>3, ModZero, KvAssumption DEF Slots
<1> QED BY <1>5, <1>6

\* The entry of k at offset o with length n is put into slot s.
Filled(k, o, n, s) ==
  /\ off[s] = NIL
  /\ s # Hash[k] => off[Hash[k]] # NIL
  /\ key' = [key EXCEPT ![s] = k]
  /\ off' = [off EXCEPT ![s] = o]
  /\ len' = [len EXCEPT ![s] = n]
  /\ next' = IF s = Hash[k] THEN next ELSE [next EXCEPT ![Hash[k]] = s]
  /\ slotOf' = [slotOf EXCEPT ![k] = s]
  /\ room' = [room EXCEPT ![s] = n]

LEMMA Fills ==
  ASSUME NEW k \in Keys, NEW o, NEW n, Free # {}, NewMappingEntry(k, o, n)
  PROVE  \E s \in Slots : Filled(k, o, n, s)
<1>1. Hash[k] \in Slots
  BY KvAssumption
<1>2. NextSlot(Hash[k]) \in Free /\ (Hash[k] \in Free => NextSlot(Hash[k]) = Hash[k])
  BY <1>1, NextSlotIs
<1>3. Filled(k, o, n, NextSlot(Hash[k]))
  BY <1>1, <1>2 DEF NewMappingEntry, Filled, Free
<1> QED BY <1>2, <1>3 DEF Free

LEMMA FillType ==
  ASSUME TableInv, NEW k \in Keys, NEW o \in Cells, NEW n \in Lens, NEW s \in Slots,
         Filled(k, o, n, s)
  PROVE  TableType' /\ FreeBlank' /\ SlotsCurrent'
<1>1. o # NIL /\ k # NIL /\ NIL \notin Slots /\ Hash[k] \in Slots
  BY KvAssumption DEF Cells, NIL, Slots
<1>2. TableType'
  BY <1>1 DEF TableInv, TableType, Filled
<1>3. FreeBlank'
  BY <1>1 DEF TableInv, TableType, FreeBlank, Filled
<1>4. SlotsCurrent'
  <2>1. slotOf' \in [Keys -> Slots \cup {NIL}]
    BY DEF TableInv, SlotsCurrent, Filled
  <2>2. ASSUME NEW x \in Keys, slotOf'[x] # NIL PROVE key'[slotOf'[x]] = x
    <3>1. CASE x = k
      BY <3>1 DEF TableInv, SlotsCurrent, TableType, Filled
    <3>2. CASE x # k
      <4>1. slotOf'[x] = slotOf[x] /\ slotOf[x] \in Slots /\ key[slotOf[x]] = x
        BY <2>2, <3>2 DEF TableInv, SlotsCurrent, Filled
      <4>2. slotOf[x] # s
        BY <1>1, <4>1, KvAssumption DEF TableInv, FreeBlank, Filled
      <4> QED BY <4>1, <4>2 DEF TableInv, TableType, Filled
    <3> QED BY <3>1, <3>2
  <2> QED BY <2>1, <2>2 DEF SlotsCurrent
<1> QED BY <1>2, <1>3, <1>4

\* The new link leads to a slot that links nowhere.
LEMMA FillChains ==
  ASSUME TableInv, NEW k \in Keys, NEW o, NEW n, NEW s \in Slots,
         Filled(k, o, n, s)
  PROVE  Chains'
<1> DEFINE h == Hash[k]
<1>1. h \in Slots /\ NIL \notin Slots
  BY KvAssumption DEF Slots, NIL
<1>2. next[s] = NIL /\ next \in [Slots -> Slots \cup {NIL}]
  BY DEF TableInv, FreeBlank, TableType, Filled
<1>3. PICK rank \in [Slots -> Nat] : Ranked(rank)
  BY DEF TableInv, Chains
<1>4. PICK new : new = [rank EXCEPT ![s] = rank[s] + rank[h] + 1]
  OBVIOUS
<1>5. new \in [Slots -> Nat] /\ (\A t \in Slots : t # s => new[t] = rank[t])
      /\ new[s] > rank[s] /\ new[s] > rank[h]
  BY <1>1, <1>4
<1>6. ASSUME NEW t \in Slots, next'[t] # NIL PROVE new[t] < new[next'[t]]
  <2>1. CASE s # h /\ t = h
    <3>1. next'[t] = s
      BY <1>1, <1>2, <2>1 DEF Filled
    <3> QED BY <1>5, <2>1, <3>1
  <2>2. CASE ~(s # h /\ t = h)
    <3>1. next'[t] = next[t] /\ t # s
      BY <1>2, <1>6, <2>2 DEF Filled
    <3>2. next[t] \in Slots /\ rank[t] < rank[next[t]]
      BY <1>2, <1>3, <1>6, <3>1 DEF Ranked
    <3>3. rank[next[t]] <= new[next[t]] /\ new[t] = rank[t]
      BY <1>5, <3>1, <3>2
    <3>4. rank[t] \in Nat /\ rank[next[t]] \in Nat /\ new[next[t]] \in Nat
      BY <1>5, <3>2
    <3> QED BY <3>1, <3>2, <3>3, <3>4
  <2> QED BY <2>1, <2>2
<1>7. Ranked(new)'
  BY <1>5, <1>6 DEF Ranked
<1> QED BY <1>5, <1>7 DEF Chains

\* A search comes to the slots it came to before, and to the new one.
LEMMA FillReach ==
  ASSUME TableInv, NEW k \in Keys, NEW o, NEW n, NEW s \in Slots,
         Filled(k, o, n, s), NEW x \in Keys, NEW R \in SUBSET Slots, Closed(R, x)
  PROVE  Closed(R \cup {s}, x)'
<1>1. next[s] = NIL /\ next \in [Slots -> Slots \cup {NIL}] /\ NIL \notin Slots /\ Hash[k] \in Slots
  BY KvAssumption DEF TableInv, FreeBlank, TableType, Filled, Slots, NIL
<1>2. ASSUME NEW t \in R \cup {s}, next'[t] # NIL PROVE next'[t] \in R \cup {s}
  <2>1. next'[t] = next[t] \/ next'[t] = s
    BY <1>1 DEF Filled
  <2>2. next'[t] # s => t # s
    BY <1>1, <1>2, <2>1
  <2> QED BY <1>2, <2>1, <2>2 DEF Closed
<1> QED BY <1>2 DEF Closed

LEMMA FillOutOfReach ==
  ASSUME TableInv, NEW k \in Keys, NEW o \in Cells, NEW n \in Lens, NEW s \in Slots,
         Filled(k, o, n, s), Lookup(k) = NIL
  PROVE  OutOfReach'
<1>1. SUFFICES ASSUME NEW x \in Keys, NEW t \in Slots, key'[t] = x, slotOf'[x] # t
               PROVE  \E R \in SUBSET Slots : Closed(R, x)' /\ t \notin R
  BY DEF OutOfReach
<1>2. t # s
  BY <1>1 DEF TableInv, TableType, SlotsCurrent, Filled
<1>3. key[t] = x
  BY <1>1, <1>2 DEF TableInv, TableType, Filled
<1>4. PICK R \in SUBSET Slots : Closed(R, x) /\ t \notin R
  <2>1. CASE x = k
    BY <1>3, <2>1, NotFoundNotReached DEF TableInv
  <2>2. CASE x # k
    <3>1. slotOf[x] # t
      BY <1>1, <2>2 DEF TableInv, SlotsCurrent, Filled
    <3> QED BY <1>3, <3>1 DEF TableInv, OutOfReach
  <2> QED BY <2>1, <2>2
<1>5. Closed(R \cup {s}, x)'
  BY <1>4, FillReach
<1> QED BY <1>2, <1>4, <1>5

LEMMA FillTable ==
  ASSUME TableInv, NEW k \in Keys, NEW o \in Cells, NEW n \in Lens, NEW s \in Slots,
         Filled(k, o, n, s), Lookup(k) = NIL
  PROVE  TableInv'
BY FillType, FillChains, FillOutOfReach DEF TableInv

\* A slot is cleared: what is left of the chains is part of what was there.
Cleared(k, s) ==
  /\ key' = [key EXCEPT ![s] = NIL]
  /\ off' = [off EXCEPT ![s] = NIL]
  /\ len' = [len EXCEPT ![s] = NIL]
  /\ next' = [next EXCEPT ![s] = NIL]
  /\ slotOf' = [slotOf EXCEPT ![k] = NIL]

LEMMA ClearTable ==
  ASSUME TableInv, NEW k \in Keys, NEW s \in Slots, key[s] = k, slotOf[k] = s,
         Cleared(k, s)
  PROVE  TableInv'
<1>1. NIL \notin Keys /\ NIL \notin Slots
  BY KvAssumption DEF NIL, Slots
<1>2. TableType' /\ FreeBlank'
  BY DEF TableInv, TableType, FreeBlank, Cleared
<1>3. Chains'
  <2>1. PICK rank \in [Slots -> Nat] : Ranked(rank)
    BY DEF TableInv, Chains
  <2>2. Ranked(rank)'
    BY <1>1, <2>1 DEF Ranked, TableInv, TableType, Cleared
  <2> QED BY <2>2 DEF Chains
<1>4. SlotsCurrent'
  <2>1. ASSUME NEW x \in Keys, slotOf'[x] # NIL PROVE key'[slotOf'[x]] = x
    <3>1. x # k /\ slotOf'[x] = slotOf[x] /\ slotOf[x] \in Slots /\ key[slotOf[x]] = x
      BY <2>1 DEF TableInv, SlotsCurrent, Cleared
    <3> QED BY <3>1 DEF TableInv, TableType, Cleared
  <2> QED BY <2>1 DEF TableInv, SlotsCurrent, Cleared
<1>5. OutOfReach'
  <2>1. SUFFICES ASSUME NEW x \in Keys, NEW t \in Slots, key'[t] = x, slotOf'[x] # t
                 PROVE  \E R \in SUBSET Slots : Closed(R, x)' /\ t \notin R
    BY DEF OutOfReach
  <2>2. t # s /\ key[t] = x
    BY <1>1, <2>1 DEF TableInv, TableType, Cleared
  <2>3. slotOf[x] # t
    BY <2>1, <2>2 DEF TableInv, SlotsCurrent, Cleared
  <2>4. PICK R \in SUBSET Slots : Closed(R, x) /\ t \notin R
    BY <2>2, <2>3 DEF TableInv, OutOfReach
  <2>5. Closed(R, x)'
    BY <2>4 DEF Closed, TableInv, TableType, Cleared
  <2> QED BY <2>4, <2>5
<1> QED BY <1>2, <1>3, <1>4, <1>5 DEF TableInv

\* Lengths do not matter to the chains.
LEMMA SameTable ==
  ASSUME TableInv, UNCHANGED <<key, off, next, slotOf>>,
         \/ UNCHANGED len
         \/ \E s \in Slots, n \in Lens : off[s] # NIL /\ len' = [len EXCEPT ![s] = n]
  PROVE  TableInv'
<1>1. TableType' /\ FreeBlank'
  BY DEF TableInv, TableType, FreeBlank
<1>2. Chains'
  <2>1. PICK rank \in [Slots -> Nat] : Ranked(rank)
    BY DEF TableInv, Chains
  <2>2. Ranked(rank)'
    BY <2>1 DEF Ranked
  <2> QED BY <2>2 DEF Chains
<1>3. SlotsCurrent'
  BY DEF TableInv, SlotsCurrent
<1>4. OutOfReach'
  <2>1. SUFFICES ASSUME NEW x \in Keys, NEW t \in Slots, key'[t] = x, slotOf'[x] # t
                 PROVE  \E R \in SUBSET Slots : Closed(R, x)' /\ t \notin R
    BY DEF OutOfReach
  <2>2. PICK R \in SUBSET Slots : Closed(R, x) /\ t \notin R
    BY <2>1 DEF TableInv, OutOfReach
  <2>3. Closed(R, x)'
    BY <2>2 DEF Closed
  <2> QED BY <2>2, <2>3
<1> QED BY <1>1, <1>2, <1>3, <1>4 DEF TableInv

\* What a step does to the table.
TableStep ==
  \/ \E k \in Keys, n \in Lens, s \in Slots :
       latest \in Cells /\ Lookup(k) = NIL /\ Filled(k, latest, n, s)
  \/ \E k \in Keys, s \in Slots : key[s] = k /\ slotOf[k] = s /\ Cleared(k, s)
  \/ /\ UNCHANGED <<key, off, next, slotOf>>
     /\ \/ UNCHANGED len
        \/ \E s \in Slots, n \in Lens : off[s] # NIL /\ len' = [len EXCEPT ![s] = n]

LEMMA InsertStep ==
  ASSUME TableInv, latest \in Nat, NEW k \in Keys, NEW n \in Lens, Insert(k, n)
  PROVE  TableStep
<1>1. CASE Fits(latest, n) /\ Free # {} /\ NewMappingEntry(k, latest, n)
  <2>1. n \in Nat /\ n > 0
    BY KvAssumption
  <2>2. latest \in Cells /\ Lookup(k) = NIL
    BY <1>1, <2>1, KvAssumption DEF Cells, Fits, Insert
  <2> QED BY <1>1, <2>2, Fills DEF TableStep
<1>2. CASE UNCHANGED <<tableVars, slotOf, room>>
  BY <1>2 DEF TableStep, tableVars
<1> QED BY <1>1, <1>2 DEF Insert

LEMMA UpdateStep ==
  ASSUME TableInv, NEW k \in Keys, NEW n \in Lens, NEW relen \in BOOLEAN, Update(k, n, relen)
  PROVE  TableStep
<1>1. Lookup(k) \in Slots /\ off[Lookup(k)] # NIL
  BY LookupIs DEF Update, TableInv
<1> QED BY <1>1 DEF TableStep, Update

LEMMA DeleteStep ==
  ASSUME TableInv, NEW k \in Keys, Delete(k)
  PROVE  TableStep
<1>1. Lookup(k) \in Slots /\ key[Lookup(k)] = k /\ slotOf[k] = Lookup(k)
  BY LookupIs, FoundCurrent DEF Delete, TableInv
<1>2. Cleared(k, Lookup(k))
  BY DEF Delete, Cleared
<1> QED BY <1>1, <1>2 DEF TableStep

LEMMA TableKept ==
  ASSUME TableInv, TableStep
  PROVE  TableInv'
BY FillTable, ClearTable, SameTable DEF TableStep

-----------------------------------------------------------------------------
(***************************************************************************)
(* The values.  What is allocated for the entries lies side by side below  *)
(* the allocator's offset.                                                 *)
(***************************************************************************)
Within(c, s) == off[s] <= c /\ c < off[s] + room[s]
Apart(s, t) == off[s] + room[s] <= off[t] \/ off[t] + room[t] <= off[s]

Layout ==
  /\ \A s \in Slots : off[s] # NIL => room[s] \in Lens /\ off[s] + room[s] <= latest
  /\ \A s \in Slots, c \in Cells :
       off[s] # NIL /\ Within(c, s) => mem[c] = key[s] \/ c \in spilt
  /\ \A s, t \in Slots : s # t /\ off[s] # NIL /\ off[t] # NIL => Apart(s, t)

DataInv == stop = "no" => Layout

\* The table with whatever else the actions need.
KvTypes == TableInv /\ TypeOK

\* Sizes and offsets of entries are naturals.
LEMMA EntryNumbers ==
  ASSUME KvTypes, Layout, NEW s \in Slots, off[s] # NIL
  PROVE  off[s] \in Nat /\ room[s] \in Nat /\ room[s] > 0
<1>1. off[s] \in Cells /\ room[s] \in Lens
  BY DEF KvTypes, TypeOK, Layout
<1>2. Cells \subseteq Nat /\ Lens \subseteq Nat \ {0}
  BY KvAssumption DEF Cells
<1>3. off[s] \in Nat
  BY <1>1, <1>2
<1>4. room[s] \in Nat \ {0}
  BY <1>1, <1>2
<1> QED BY <1>3, <1>4

LEMMA InsertData ==
  ASSUME KvTypes, DataInv, NEW k \in Keys, NEW n \in Lens, Insert(k, n)
  PROVE  DataInv'
<1> SUFFICES ASSUME stop' = "no" PROVE Layout'
  BY DEF DataInv
<1>1. latest \in Nat /\ n \in Nat /\ n > 0 /\ latest' = latest + n
  BY KvAssumption DEF Insert, KvTypes, TypeOK
<1>2. Free # {} /\ NewMappingEntry(k, latest, n) /\ stop = "no"
  BY DEF Insert
<1>3. PICK s \in Slots : Filled(k, latest, n, s)
  BY <1>2, Fills
<1>4. Layout
  BY <1>2 DEF DataInv
<1>5. /\ off[s] = NIL /\ off'[s] = latest /\ room'[s] = n /\ key'[s] = k
      /\ \A t \in Slots : t # s => off'[t] = off[t] /\ room'[t] = room[t] /\ key'[t] = key[t]
  BY <1>3 DEF Filled, KvTypes, TypeOK
<1>6. ASSUME NEW c \in Cells
      PROVE  /\ c \in Nat
             /\ latest <= c /\ c < latest + n => mem'[c] = k
             /\ ~(latest <= c /\ c < latest + n) =>
                  mem'[c] = mem[c] /\ (c \in spilt => c \in spilt')
  BY KvAssumption DEF Insert, Written, Spilt, Cells
<1>7. ASSUME NEW t \in Slots, off'[t] # NIL
      PROVE  room'[t] \in Lens /\ off'[t] + room'[t] <= latest'
  <2>1. CASE t = s
    BY <1>1, <1>5, <2>1
  <2>2. CASE t # s
    <3>1. off[t] \in Nat /\ room[t] \in Nat /\ room[t] \in Lens /\ off[t] + room[t] <= latest
      BY <1>4, <1>5, <1>7, <2>2, EntryNumbers DEF Layout
    <3> QED BY <1>1, <1>5, <2>2, <3>1
  <2> QED BY <2>1, <2>2
<1>8. ASSUME NEW t \in Slots, NEW c \in Cells, off'[t] # NIL, Within(c, t)'
      PROVE  mem'[c] = key'[t] \/ c \in spilt'
  <2>1. CASE t = s
    BY <1>5, <1>6, <1>8, <2>1 DEF Within
  <2>2. CASE t # s
    <3>1. off[t] # NIL /\ Within(c, t) /\ key'[t] = key[t]
      BY <1>5, <1>8, <2>2 DEF Within
    <3>2. c < latest
      BY <1>1, <1>4, <1>6, <3>1, EntryNumbers DEF Layout, Within
    <3>3. mem[c] = key[t] \/ c \in spilt
      BY <1>4, <3>1 DEF Layout
    <3> QED BY <1>1, <1>6, <3>1, <3>2, <3>3
  <2> QED BY <2>1, <2>2
<1>9. ASSUME NEW t \in Slots, NEW u \in Slots, t # u, off'[t] # NIL, off'[u] # NIL
      PROVE  Apart(t, u)'
  <2>1. CASE t = s
    <3>1. off[u] # NIL
      BY <1>5, <1>9, <2>1
    <3>2. off[u] + room[u] <= latest
      BY <1>4, <3>1 DEF Layout
    <3> QED BY <1>5, <1>9, <2>1, <3>2 DEF Apart
  <2>2. CASE u = s
    <3>1. off[t] # NIL
      BY <1>5, <1>9, <2>2
    <3>2. off[t] + room[t] <= latest
      BY <1>4, <3>1 DEF Layout
    <3> QED BY <1>5, <1>9, <2>2, <3>2 DEF Apart
  <2>3. CASE t # s /\ u # s
    BY <1>4, <1>5, <1>9, <2>3 DEF Layout, Apart
  <2> QED BY <2>1, <2>2, <2>3
<1> QED BY <1>7, <1>8, <1>9 DEF Layout

\* A longer value runs out of its own room only into cells that are spilt then.
LEMMA UpdateData ==
  ASSUME KvTypes, DataInv, NEW k \in Keys, NEW n \in Lens, NEW relen \in BOOLEAN,
         Update(k, n, relen)
  PROVE  DataInv'
<1> SUFFICES ASSUME stop' = "no" PROVE Layout'
  BY DEF DataInv
<1>1. PICK s \in Slots : s = Lookup(k) /\ off[s] # NIL /\ key[s] = k
  BY LookupIs DEF Update, KvTypes, TableInv
<1>2. Layout
  BY DEF Update, DataInv
<1>3. off[s] \in Nat /\ room[s] \in Nat /\ n \in Nat
  BY <1>1, <1>2, EntryNumbers, KvAssumption
<1>4. UNCHANGED <<off, key, room, latest>>
  BY DEF Update
<1>5. ASSUME NEW c \in Cells
      PROVE  /\ c \in Nat
             /\ off[s] <= c /\ c < off[s] + n => mem'[c] = k /\ (off[s] + room[s] <= c => c \in spilt')
             /\ ~(off[s] <= c /\ c < off[s] + n) =>
                  mem'[c] = mem[c] /\ (c \in spilt => c \in spilt')
  BY <1>1, KvAssumption DEF Update, Written, Spilt, Cells
<1>6. ASSUME NEW t \in Slots, NEW c \in Cells, off[t] # NIL, Within(c, t)
      PROVE  mem'[c] = key[t] \/ c \in spilt'
  <2>1. mem[c] = key[t] \/ c \in spilt
    BY <1>2, <1>6 DEF Layout
  <2>2. CASE t = s
    BY <1>1, <1>5, <2>1, <2>2
  <2>3. CASE t # s
    <3>1. Apart(s, t)
      BY <1>1, <1>2, <1>6, <2>3 DEF Layout
    <3>2. off[t] \in Nat /\ room[t] \in Nat
      BY <1>2, <1>6, EntryNumbers
    <3>3. off[s] <= c /\ c < off[s] + n => off[s] + room[s] <= c
      BY <1>3, <1>5, <1>6, <3>1, <3>2 DEF Apart, Within
    <3> QED BY <1>5, <2>1, <3>3
  <2> QED BY <2>2, <2>3
<1> QED BY <1>2, <1>4, <1>6 DEF Layout, Within, Apart

LEMMA DeleteData ==
  ASSUME KvTypes, DataInv, NEW k \in Keys, Delete(k)
  PROVE  DataInv'
<1> SUFFICES ASSUME stop' = "no" PROVE Layout'
  BY DEF DataInv
<1>1. PICK s \in Slots : s = Lookup(k)
  BY LookupIs DEF Delete, KvTypes, TableInv
<1>2. Layout
  BY DEF Delete, DataInv
<1>3. /\ off'[s] = NIL
      /\ \A t \in Slots : t # s => off'[t] = off[t] /\ room'[t] = room[t] /\ key'[t] = key[t]
      /\ UNCHANGED <<mem, latest, spilt>>
  BY <1>1 DEF Delete, KvTypes, TypeOK
<1> QED BY <1>2, <1>3 DEF Layout, Within, Apart

-----------------------------------------------------------------------------
(***************************************************************************)
(* The iterators.                                                          *)
(***************************************************************************)
\* The slots that an iterator must return are in use and match.
IterInv ==
  \A h \in 1 .. NrIters : IsOpen(h) =>
    /\ \A s \in iter[h].must : s \in Slots /\ off[s] # NIL /\ key[s] \in iter[h].match
    /\ iter[h].seen = {s \in iter[h].must : s < iter[h].pos}

LEMMA OpenType ==
  ASSUME TypeOK, NEW h \in 1 .. NrIters
  PROVE  /\ iter[h] \in IterType \/ iter[h] = NoIter \/ iter[h] = Garbage
         /\ IsOpen(h) <=> iter[h] \in IterType
<1>1. iter[h] \in IterType \cup {NoIter, Garbage}
  BY DEF TypeOK
<1>2. NoIter.pos = -1 /\ Garbage.pos = -2
  BY DEF NoIter, Garbage, NIL
<1>3. NoIter \notin IterType /\ Garbage \notin IterType
  BY <1>2 DEF IterType
<1> QED BY <1>1, <1>2, <1>3 DEF IsOpen, IterType

\* What one read returns is what matches between the old and the new position.
LEMMA ReadRange ==
  ASSUME TableType, NEW ks, NEW p \in 0 .. NrSlots
  PROVE  /\ Resume(p, ks) \in p .. NrSlots
         /\ \A s \in Matching(ks) : s \in Batch(p, ks) <=> p <= s /\ s < Resume(p, ks)
<1> DEFINE B == Batch(p, ks)
           M == Matching(ks)
           upto(s) == {t \in M : p <= t /\ t <= s}
           rest == {s \in M \ B : s >= p}
           Least(s) == \A t \in rest : s <= t
<1>0. NrSlots \in Nat /\ M \subseteq Slots /\ Slots \subseteq Nat
  BY KvAssumption DEF Matching, Slots
<1>1. IsFiniteSet(M)
  <2>1. IsFiniteSet(Slots)
    BY <1>0, FS_Interval DEF Slots
  <2> QED BY <1>0, <2>1, FS_Subset
<1>2. \A s \in M : s \in B <=> p <= s /\ Cardinality(upto(s)) <= IterBuf
  BY DEF Batch
<1>3. \A s \in M : IsFiniteSet(upto(s)) /\ Cardinality(upto(s)) \in Nat
  BY <1>1, FS_Subset, FS_CardinalityType
<1>4. ASSUME NEW s \in B, NEW t \in M, p <= t, t <= s PROVE t \in B
  <2>1. s \in M
    BY DEF Batch
  <2>2. upto(t) \subseteq upto(s)
    <3>1. s \in Nat /\ t \in Nat
      BY <1>0, <2>1
    <3> SUFFICES ASSUME NEW x \in M, p <= x, x <= t PROVE x <= s
      OBVIOUS
    <3>2. x \in Nat
      BY <1>0
    <3> QED BY <1>4, <3>1, <3>2
  <2>3. Cardinality(upto(t)) <= Cardinality(upto(s))
    BY <1>3, <2>1, <2>2, FS_Subset
  <2>4. Cardinality(upto(s)) <= IterBuf /\ IterBuf \in Nat
    BY <1>2, <2>1, <1>4, KvAssumption
  <2>5. Cardinality(upto(t)) \in Nat /\ Cardinality(upto(s)) \in Nat
    BY <1>3, <2>1
  <2> HIDE DEF upto
  <2>6. Cardinality(upto(t)) <= IterBuf
    BY <2>3, <2>4, <2>5
  <2> QED BY <1>2, <1>4, <2>6
<1>5. Resume(p, ks) = IF rest = {} THEN NrSlots ELSE CHOOSE s \in rest : Least(s)
  BY DEF Resume
<1>6. \A s \in B : s \in M /\ p <= s
  BY DEF Batch
<1>7. CASE rest = {}
  <2>1. \A s \in M : p <= s => s \in B
    BY <1>0, <1>7
  <2> HIDE DEF rest, B, M
  <2> QED BY <1>0, <1>5, <1>6, <1>7, <2>1 DEF Slots, B, M
<1>8. CASE rest # {}
  <2>1. rest \in SUBSET Nat
    BY <1>0
  <2>2. \E s \in rest : Least(s)
    <3> HIDE DEF rest
    <3> QED BY <1>8, <2>1, LeastNatural
  <2>3. PICK r : r = Resume(p, ks)
    OBVIOUS
  <2>4. r \in rest /\ Least(r)
    <3> HIDE DEF rest, Least
    <3> QED BY <1>5, <1>8, <2>2, <2>3
  <2>5. r \in M /\ r \notin B /\ p <= r /\ r \in 0 .. NrSlots - 1
    BY <1>0, <2>4 DEF Slots
  <2>6. ASSUME NEW s \in M PROVE s \in B <=> p <= s /\ s < r
    <3>0. s \in Nat /\ r \in Nat
      BY <1>0, <2>5
    <3>1. ASSUME s \in B PROVE p <= s /\ s < r
      <4>1. p <= s
        BY <1>6, <3>1
      <4>2. ~(r <= s)
        BY <1>4, <2>5, <3>1
      <4> QED BY <3>0, <4>1, <4>2
    <3>2. ASSUME p <= s, s < r PROVE s \in B
      <4> SUFFICES ASSUME s \notin B PROVE FALSE
        OBVIOUS
      <4>1. s \in rest
        BY <3>0, <3>2
      <4>2. r <= s
        BY <2>4, <4>1
      <4> QED BY <3>0, <3>2, <4>2
    <3> QED BY <3>1, <3>2
  <2> HIDE DEF B, M
  <2> QED BY <1>0, <2>3, <2>5, <2>6 DEF B, M
<1> QED BY <1>7, <1>8

LEMMA ReadIterators ==
  ASSUME KvTypes, IterInv, NEW h \in 1 .. NrIters, IterRead(h)
  PROVE  IterInv' /\ iter' \in [1 .. NrIters -> IterType \cup {NoIter, Garbage}]
<1> DEFINE i == iter[h]
           r == Resume(i.pos, i.match)
           b == Batch(i.pos, i.match)
<1>1. i \in IterType /\ iter \in [1 .. NrIters -> IterType \cup {NoIter, Garbage}]
  BY OpenType DEF IterRead, KvTypes, TypeOK
<1>2. i.pos \in 0 .. NrSlots /\ i.must \in SUBSET Slots /\ i.match \in IterKeys
      /\ i.must \subseteq Matching(i.match) /\ i.seen = {s \in i.must : s < i.pos}
  BY <1>1 DEF IterType, IterInv, IterRead, Matching, Free
<1>3. r \in i.pos .. NrSlots /\ NrSlots \in Nat
      /\ \A s \in Matching(i.match) : s \in b <=> i.pos <= s /\ s < r
  BY <1>2, ReadRange, KvAssumption DEF KvTypes, TableInv
<1> DEFINE new == [i EXCEPT !.pos = r, !.seen = i.seen \cup (i.must \cap b)]
<1>4. iter' = [iter EXCEPT ![h] = new] /\ UNCHANGED <<key, off>>
  BY <1>1 DEF IterRead, tableVars
<1> HIDE DEF r, b
<1>5. i.seen \cup (i.must \cap b) = {s \in i.must : s < r}
  <2>1. ASSUME NEW s \in i.must PROVE s < i.pos \/ s \in b <=> s < r
    <3>1. s \in Nat /\ s \in Matching(i.match) /\ i.pos \in Nat /\ r \in Nat /\ i.pos <= r
      BY <1>2, <1>3, <2>1, KvAssumption DEF Slots
    <3> QED BY <1>3, <3>1
  <2> HIDE DEF i
  <2> QED BY <1>2, <2>1
<1>6. new \in IterType /\ new.pos = r /\ new.match = i.match /\ new.must = i.must
      /\ new.seen = {s \in i.must : s < r}
  <2>1. r \in 0 .. NrSlots
    BY <1>2, <1>3
  <2>2. i.seen \cup (i.must \cap b) \in SUBSET Slots
    BY <1>2, <1>5
  <2> QED BY <1>1, <1>5, <2>1, <2>2 DEF IterType
<1> HIDE DEF new
<1>7. IterInv'
  <2> SUFFICES ASSUME NEW g \in 1 .. NrIters, IsOpen(g)'
               PROVE  /\ \A s \in iter'[g].must :
                           s \in Slots /\ off[s] # NIL /\ key[s] \in iter'[g].match
                      /\ iter'[g].seen = {s \in iter'[g].must : s < iter'[g].pos}
    BY <1>4 DEF IterInv
  <2>1. CASE g = h
    BY <1>1, <1>2, <1>4, <1>6, <2>1 DEF Matching, Free
  <2>2. CASE g # h
    BY <1>1, <1>4, <2>2 DEF IterInv, IsOpen
  <2> QED BY <2>1, <2>2
<1> QED BY <1>1, <1>4, <1>6, <1>7

\* Handles that are opened or closed.
LEMMA HandleIterators ==
  ASSUME KvTypes, IterInv, NEW h \in 1 .. NrIters,
         IterClose(h) \/ \E ks \in IterKeys : IterOpen(h, ks)
  PROVE  IterInv' /\ iter' \in [1 .. NrIters -> IterType \cup {NoIter, Garbage}]
<1>1. iter \in [1 .. NrIters -> IterType \cup {NoIter, Garbage}]
  BY DEF KvTypes, TypeOK
<1>2. PICK new \in IterType \cup {NoIter} :
        /\ iter' = [iter EXCEPT ![h] = new] /\ UNCHANGED <<key, off>>
        /\ new.pos >= 0 => /\ new.must \subseteq Matching(new.match)
                           /\ new.seen = {s \in new.must : s < new.pos}
  <2>1. CASE IterClose(h)
    <3>1. ~(NoIter.pos >= 0)
      BY DEF NoIter, NIL
    <3> QED BY <2>1, <3>1 DEF IterClose, tableVars
  <2>2. ASSUME NEW ks \in IterKeys, IterOpen(h, ks)
        PROVE  \E new \in IterType :
                 /\ iter' = [iter EXCEPT ![h] = new] /\ UNCHANGED <<key, off>>
                 /\ new.must \subseteq Matching(new.match)
                 /\ new.seen = {s \in new.must : s < new.pos}
    <3> DEFINE new == [pos |-> 0, match |-> ks, must |-> Matching(ks), seen |-> {}]
    <3>1. NrSlots \in Nat /\ Matching(ks) \subseteq Slots /\ Slots \subseteq Nat
      BY KvAssumption DEF Matching, Slots
    <3>2. new \in IterType
      BY <3>1 DEF IterType
    <3>3. {s \in Matching(ks) : s < 0} = {}
      <4> SUFFICES ASSUME NEW s \in Matching(ks) PROVE ~(s < 0)
        OBVIOUS
      <4>1. s \in Nat
        BY <3>1
      <4> QED BY <4>1
    <3> QED BY <2>2, <3>2, <3>3 DEF IterOpen, tableVars
  <2> QED BY <2>1, <2>2
<1>3. IterInv'
  <2> SUFFICES ASSUME NEW g \in 1 .. NrIters, IsOpen(g)'
               PROVE  /\ \A s \in iter'[g].must :
                           s \in Slots /\ off[s] # NIL /\ key[s] \in iter'[g].match
                      /\ iter'[g].seen = {s \in iter'[g].must : s < iter'[g].pos}
    BY <1>2 DEF IterInv
  <2>1. CASE g = h
    BY <1>1, <1>2, <2>1 DEF IsOpen, Matching, Free
  <2>2. CASE g # h
    BY <1>1, <1>2, <2>2 DEF IterInv, IsOpen
  <2> QED BY <2>1, <2>2
<1> QED BY <1>1, <1>2, <1>3

\* A store fills free slots only, and those no iterator must return.
LEMMA StoreIterators ==
  ASSUME KvTypes, IterInv, UNCHANGED iter,
         \A s \in Slots : off[s] # NIL => off'[s] # NIL /\ key'[s] = key[s]
  PROVE  IterInv'
BY DEF IterInv, IsOpen

LEMMA DeleteIterators ==
  ASSUME KvTypes, IterInv, NEW k \in Keys, Delete(k)
  PROVE  IterInv' /\ iter' \in [1 .. NrIters -> IterType \cup {NoIter, Garbage}]
<1>1. PICK s \in Slots : s = Lookup(k)
  BY LookupIs DEF Delete, KvTypes, TableInv
<1>2. /\ iter' = [h \in 1 .. NrIters |->
                    [iter[h] EXCEPT !.must = @ \ {s}, !.seen = @ \ {s}]]
      /\ key' = [key EXCEPT ![s] = NIL] /\ off' = [off EXCEPT ![s] = NIL]
  BY <1>1 DEF Delete
<1>3. ASSUME NEW h \in 1 .. NrIters
      PROVE  /\ iter'[h] \in IterType \cup {NoIter, Garbage}
             /\ iter'[h].pos = iter[h].pos /\ iter'[h].match = iter[h].match
             /\ iter'[h].must = iter[h].must \ {s} /\ iter'[h].seen = iter[h].seen \ {s}
  <2>1. iter'[h] = [iter[h] EXCEPT !.must = iter[h].must \ {s}, !.seen = iter[h].seen \ {s}]
    BY <1>2
  <2>2. CASE iter[h] \in IterType
    BY <2>1, <2>2 DEF IterType
  <2>3. CASE iter[h] = NoIter
    <3>1. NoIter = [pos |-> NIL, match |-> {}, must |-> {}, seen |-> {}]
      BY DEF NoIter
    <3>2. iter'[h] = NoIter
      <4>1. iter[h].must \ {s} = {} /\ iter[h].seen \ {s} = {}
        BY <2>3, <3>1
      <4>2. iter'[h] = [NoIter EXCEPT !.must = {}, !.seen = {}]
        BY <2>1, <2>3, <4>1
      <4> QED BY <3>1, <4>2
    <3> QED BY <2>3, <3>1, <3>2
  <2>4. CASE iter[h] = Garbage
    BY ONLY <2>1, <2>4, ZenonT(30) DEF NoIter, Garbage
  <2> QED BY <2>2, <2>3, <2>4, OpenType DEF KvTypes
<1>4. IterInv'
  <2> SUFFICES ASSUME NEW h \in 1 .. NrIters, IsOpen(h)'
               PROVE  /\ \A t \in iter'[h].must :
                           t \in Slots /\ off'[t] # NIL /\ key'[t] \in iter'[h].match
                      /\ iter'[h].seen = {t \in iter'[h].must : t < iter'[h].pos}
    BY DEF IterInv
  <2>1. /\ \A t \in iter[h].must : t \in Slots /\ off[t] # NIL /\ key[t] \in iter[h].match
        /\ iter[h].seen = {t \in iter[h].must : t < iter[h].pos}
    BY <1>3 DEF IterInv, IsOpen
  <2>2. \A t \in Slots : t # s => off'[t] = off[t] /\ key'[t] = key[t]
    BY <1>2 DEF KvTypes, TypeOK
  <2> HIDE DEF IterInv
  <2> QED BY <1>3, <2>1, <2>2
<1> QED BY <1>2, <1>3, <1>4

-----------------------------------------------------------------------------
(***************************************************************************)
(* The invariant.                                                          *)
(***************************************************************************)
KvInv == KvTypes /\ DataInv /\ IterInv

LEMMA InitKv == Init => KvInv
<1> SUFFICES ASSUME Init PROVE KvInv
  OBVIOUS
<1>1. TypeOK
  <2>1. Slots \in SUBSET Int /\ NIL \in Slots \cup {NIL} /\ 0 \in Nat
    BY KvAssumption DEF Slots
  <2>2. iter \in [1 .. NrIters -> IterType \cup {NoIter, Garbage}]
    BY DEF Init
  <2> QED BY <2>1, <2>2 DEF Init, TypeOK
<1>2. TableInv
  <2>1. Ranked([s \in Slots |-> 0])
    BY DEF Init, Ranked
  <2>2. Chains
    BY <2>1 DEF Chains
  <2>3. OutOfReach
    BY KvAssumption DEF Init, OutOfReach
  <2> QED BY <1>1, <2>2, <2>3
          DEF TableInv, Init, TypeOK, TableType, FreeBlank, SlotsCurrent
<1>3. DataInv
  BY DEF Init, DataInv, Layout
<1>4. IterInv
  <2> SUFFICES ASSUME NEW h \in 1 .. NrIters, IsOpen(h) PROVE FALSE
    BY DEF IterInv
  <2>1. iter[h] = NoIter \/ iter[h] = Garbage
    BY DEF Init
  <2>2. NoIter.pos = -1 /\ Garbage.pos = -2
    BY DEF NoIter, Garbage, NIL
  <2> QED BY <2>1, <2>2 DEF IsOpen
<1> QED BY <1>1, <1>2, <1>3, <1>4 DEF KvInv, KvTypes

\* A value is written for its key.
LEMMA WrittenType ==
  ASSUME TypeOK, NEW o, NEW k \in Keys, NEW n
  PROVE  Written(o, k, n) \in [Cells -> Keys \cup {NIL}]
BY DEF TypeOK, Written

LEMMA SpiltType ==
  ASSUME TypeOK, NEW o, NEW n, NEW r
  PROVE  Spilt(o, n, r) \subseteq Cells
BY DEF TypeOK, Spilt

LEMMA InsertKv ==
  ASSUME KvInv, NEW k \in Keys, NEW n \in Lens, Insert(k, n)
  PROVE  KvInv'
<1>1. TableInv'
  BY InsertStep, TableKept DEF KvInv, KvTypes, TypeOK
<1>2. TypeOK'
  <2>1. latest' \in Nat /\ mem' \in [Cells -> Keys \cup {NIL}]
    <3>1. TypeOK /\ latest \in Nat /\ n \in Nat
      BY KvAssumption DEF KvInv, KvTypes, TypeOK
    <3> QED BY <3>1, WrittenType DEF Insert
  <2>2. room' \in [Slots -> Lens \cup {NIL}]
    BY DEF Insert, NewMappingEntry, KvInv, KvTypes, TypeOK
  <2>3. stop' \in {"no", "hang", "bug", "overrun"}
    BY DEF Insert, KvInv, KvTypes, TypeOK
  <2>4. spilt' \subseteq Cells
    BY SpiltType DEF Insert, KvInv, KvTypes
  <2> QED BY <1>1, <2>1, <2>2, <2>3, <2>4
          DEF TypeOK, TableInv, TableType, SlotsCurrent, Insert, KvInv, KvTypes
<1>3. DataInv'
  <2>1. CASE stop' = "no"
    BY InsertData DEF KvInv
  <2> QED BY <2>1 DEF DataInv
<1>4. IterInv'
  <2>1. CASE Free # {} /\ NewMappingEntry(k, latest, n)
    <3>1. PICK s \in Slots : Filled(k, latest, n, s)
      BY <2>1, Fills
    <3>2. \A t \in Slots : off[t] # NIL => off'[t] # NIL /\ key'[t] = key[t]
      BY <3>1 DEF Filled, KvInv, KvTypes, TypeOK
    <3> QED BY <3>2, StoreIterators DEF KvInv, Insert
  <2>2. CASE UNCHANGED <<tableVars, slotOf, room>>
    BY <2>2, StoreIterators DEF KvInv, Insert, tableVars
  <2> QED BY <2>1, <2>2 DEF Insert
<1> QED BY <1>1, <1>2, <1>3, <1>4 DEF KvInv, KvTypes

LEMMA UpdateKv ==
  ASSUME KvInv, NEW k \in Keys, NEW n \in Lens, NEW relen \in BOOLEAN, Update(k, n, relen)
  PROVE  KvInv'
<1>1. TableInv'
  BY UpdateStep, TableKept DEF KvInv, KvTypes
<1>2. TypeOK'
  <2>1. mem' \in [Cells -> Keys \cup {NIL}]
    BY WrittenType DEF Update, KvInv, KvTypes
  <2>2. stop' \in {"no", "hang", "bug", "overrun"}
    BY DEF Update, KvInv, KvTypes, TypeOK
  <2>3. spilt' \subseteq Cells
    BY SpiltType DEF Update, KvInv, KvTypes
  <2> QED BY <1>1, <2>1, <2>2, <2>3
          DEF TypeOK, TableInv, TableType, SlotsCurrent, Update, KvInv, KvTypes
<1>3. DataInv'
  BY UpdateData DEF KvInv
<1>4. IterInv'
  BY StoreIterators DEF KvInv, Update
<1> QED BY <1>1, <1>2, <1>3, <1>4 DEF KvInv, KvTypes

LEMMA DeleteKv ==
  ASSUME KvInv, NEW k \in Keys, Delete(k)
  PROVE  KvInv'
<1>1. TableInv'
  BY DeleteStep, TableKept DEF KvInv, KvTypes
<1>2. IterInv' /\ iter' \in [1 .. NrIters -> IterType \cup {NoIter, Garbage}]
  BY DeleteIterators DEF KvInv
<1>3. TypeOK'
  <2>1. room' \in [Slots -> Lens \cup {NIL}]
    BY DEF Delete, KvInv, KvTypes, TypeOK
  <2> QED BY <1>1, <1>2, <2>1
          DEF TypeOK, TableInv, TableType, SlotsCurrent, Delete, KvInv, KvTypes
<1>4. DataInv'
  BY DeleteData DEF KvInv
<1> QED BY <1>1, <1>2, <1>3, <1>4 DEF KvInv, KvTypes

\* Where only iterators change, or nothing does.
LEMMA TablesSame ==
  ASSUME KvInv, UNCHANGED <<tableVars, mem, latest, stop, histVars>>,
         IterInv', iter' \in [1 .. NrIters -> IterType \cup {NoIter, Garbage}]
  PROVE  KvInv'
<1> USE DEF tableVars, histVars
<1>1. TableInv'
  BY SameTable DEF KvInv, KvTypes
<1>2. TypeOK'
  BY DEF KvInv, KvTypes, TypeOK
<1>3. DataInv'
  BY DEF KvInv, DataInv, Layout, Apart, Within
<1> QED BY <1>1, <1>2, <1>3 DEF KvInv, KvTypes

LEMMA KvStep == KvInv /\ [Next]_vars => KvInv'
<1> SUFFICES ASSUME KvInv, [Next]_vars PROVE KvInv'
  OBVIOUS
<1>1. ASSUME NEW k \in Keys, NEW n \in Lens, Store(k, n) \/ BatchStore(k, n) PROVE KvInv'
  BY <1>1, InsertKv, UpdateKv DEF Store, BatchStore
<1>2. ASSUME NEW k \in Keys, Delete(k) PROVE KvInv'
  BY <1>2, DeleteKv
<1>3. ASSUME NEW h \in 1 .. NrIters, IterRead(h) PROVE KvInv'
  <2>1. IterInv' /\ iter' \in [1 .. NrIters -> IterType \cup {NoIter, Garbage}]
    BY <1>3, ReadIterators DEF KvInv
  <2> QED BY <1>3, <2>1, TablesSame DEF IterRead
<1>4. ASSUME NEW h \in 1 .. NrIters, IterClose(h) \/ \E ks \in IterKeys : IterOpen(h, ks)
      PROVE  KvInv'
  <2>1. IterInv' /\ iter' \in [1 .. NrIters -> IterType \cup {NoIter, Garbage}]
    BY <1>4, HandleIterators DEF KvInv
  <2>2. UNCHANGED <<tableVars, mem, latest, stop, histVars>>
    BY <1>4 DEF IterClose, IterOpen
  <2> QED BY <2>1, <2>2, TablesSame
<1>5. CASE UNCHANGED vars
  <2>1. UNCHANGED <<tableVars, mem, latest, iter, stop, histVars>>
    BY <1>5 DEF vars
  <2>2. IterInv' /\ iter' \in [1 .. NrIters -> IterType \cup {NoIter, Garbage}]
    BY <2>1 DEF KvInv, KvTypes, TypeOK, IterInv, IsOpen, tableVars
  <2> QED BY <2>1, <2>2, TablesSame
<1> QED BY <1>1, <1>2, <1>3, <1>4, <1>5 DEF Next

LEMMA KvInvariant == Spec => []KvInv
BY InitKv, KvStep, PTL DEF Spec

(***************************************************************************)
(* Types of kv_mapping_table, storage, allocator and iterators, for every  *)
(* hash function, size of the table and set of lengths: an entry, once it  *)
(* is made, begins in the storage.                                         *)
(***************************************************************************)
THEOREM TableTypes == Spec => []TypeOK
<1>1. KvInv => TypeOK
  BY DEF KvInv, KvTypes
<1> QED BY <1>1, KvInvariant, PTL

(***************************************************************************)
(* get_mapping_entry never walks in a ring: whatever is stored, deleted    *)
(* and chained again, the search for any key ends within hash_slots moves. *)
(***************************************************************************)
THEOREM SearchesEnd == Spec => []SearchEnds
<1>1. KvInv => SearchEnds
  BY ChainsEnd DEF KvInv, KvTypes, TableInv, SearchEnds
<1> QED BY <1>1, KvInvariant, PTL

(***************************************************************************)
(* An entry of a key that chain_mapping cut off, or that was deleted, is   *)
(* never found again: what get_mapping_entry finds is the last store.      *)
(***************************************************************************)
THEOREM NothingOutdatedFound == Spec => []FoundIsCurrent
<1>1. KvInv => FoundIsCurrent
  BY FoundCurrent DEF KvInv, KvTypes, FoundIsCurrent
<1> QED BY <1>1, KvInvariant, PTL

(***************************************************************************)
(* append_only_allocate never hands out what a value still lies in: every  *)
(* cell allocated for an entry holds its value, except where a longer      *)
(* update in place of another entry has run into it, which kv_store does   *)
(* not prevent.  The theorem bounds the damage of such updates: it ends    *)
(* where the longer value ends, and no store, delete or further update     *)
(* spreads it to a cell that was not written behind its own room.          *)
(***************************************************************************)
THEOREM ValuesKeepApart == Spec => []ValuesApart
<1>1. KvInv => ValuesApart
  BY DEF KvInv, DataInv, Layout, Within, ValuesApart, Free
<1> QED BY <1>1, KvInvariant, PTL

(***************************************************************************)
(* kv_iter_read: of the slots in use when the iterator was opened and not  *)
(* freed since, exactly those before its position have been returned,      *)
(* however many keys are stored and deleted between two reads.             *)
(***************************************************************************)
THEOREM IteratorsExact == Spec => []IterExact
<1>1. KvInv => IterExact
  BY DEF KvInv, IterInv, IterExact
<1> QED BY <1>1, KvInvariant, PTL

=============================================================================
