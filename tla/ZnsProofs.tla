------------------------------ MODULE ZnsProofs ------------------------------
(***************************************************************************)
(* Proofs about ZnsFtl and ZnsSnapshot, in this order, for every number of *)
(* zones, zone capacity and buffer size: the resource counters are exact   *)
(* and never wrap, the write pointer and the state of a zone agree, a      *)
(* write pointer moves only forwards until a reset, no command is refused  *)
(* for want of a zone resource, no space of a write buffer is lost, and    *)
(* snapshots keep all of that and what a careful host has written.         *)
(*                                                                         *)
(* Every command changes one zone.  LocalStep(z) says how the counters     *)
(* follow that change, HeldStep(z) how the blocks of the zone's buffer     *)
(* move; that such a step keeps the invariant is shown once, and each      *)
(* command is shown to be such a step.                                     *)
(***************************************************************************)
EXTENDS ZnsSnapshot, FiniteSetTheorems, FunctionTheorems, TLAPS

\* The inductive invariant.
ZoneInv == TypeOK /\ ResourcesCounted /\ ZrwaCovered /\ WpMatchesState

-----------------------------------------------------------------------------
\* Two subsets of Zones that differ at most in z: their sizes differ by what
\* they say of z.
LEMMA CountChange ==
  ASSUME NEW P \in SUBSET Zones, NEW Q \in SUBSET Zones, NEW z \in Zones,
         P \ {z} = Q \ {z}
  PROVE  /\ Cardinality(P) \in Nat
         /\ Cardinality(Q) \in Nat
         /\ Cardinality(Q) = Cardinality(P) - B(z \in P) + B(z \in Q)
<1>1. IsFiniteSet(Zones)
  BY ZnsAssumption, FS_Interval DEF Zones
<1>2. IsFiniteSet(P) /\ IsFiniteSet(Q) /\ IsFiniteSet(P \ {z})
  BY <1>1, FS_Subset
<1>3. /\ Cardinality(P) \in Nat /\ Cardinality(Q) \in Nat
      /\ Cardinality(P \ {z}) \in Nat
      /\ Cardinality(Q \ {z}) = Cardinality(P \ {z})
  BY <1>2, FS_CardinalityType
<1>4. Cardinality(P) = Cardinality(P \ {z}) + B(z \in P)
  <2>1. CASE z \in P
    <3>1. Cardinality(P \ {z}) = Cardinality(P) - 1
      BY <2>1, <1>2, FS_RemoveElement
    <3> QED BY <3>1, <2>1, <1>3 DEF B
  <2>2. CASE z \notin P
    <3>1. Cardinality(P \ {z}) = Cardinality(P)
      <4>1. P \ {z} = P
        BY <2>2
      <4> QED BY <4>1, Zenon
    <3> QED BY <3>1, <2>2, <1>3 DEF B
  <2> QED BY <2>1, <2>2
<1>5. Cardinality(Q) = Cardinality(P \ {z}) + B(z \in Q)
  <2>1. CASE z \in Q
    <3>1. Cardinality(Q \ {z}) = Cardinality(Q) - 1
      BY <2>1, <1>2, FS_RemoveElement
    <3> QED BY <3>1, <2>1, <1>3 DEF B
  <2>2. CASE z \notin Q
    <3>1. Cardinality(Q \ {z}) = Cardinality(Q)
      <4>1. Q \ {z} = Q
        BY <2>2
      <4> QED BY <4>1, Zenon
    <3> QED BY <3>1, <2>2, <1>3 DEF B
  <2> QED BY <2>1, <2>2
<1> QED BY <1>3, <1>4, <1>5 DEF B

\* A set of zones is never larger than the number of zones.
LEMMA CountBound ==
  ASSUME NEW P \in SUBSET Zones
  PROVE  /\ Cardinality(P) \in 0 .. NrZones
         /\ Cardinality(P) = NrZones => P = Zones
<1>1. IsFiniteSet(Zones) /\ Cardinality(Zones) = NrZones
  BY ZnsAssumption, FS_Interval DEF Zones
<1>2. IsFiniteSet(P) /\ Cardinality(P) <= NrZones
      /\ (Cardinality(P) = Cardinality(Zones) => P = Zones)
  BY <1>1, FS_Subset
<1>3. Cardinality(P) \in Nat
  BY <1>2, FS_CardinalityType
<1> QED BY <1>1, <1>2, <1>3, ZnsAssumption

-----------------------------------------------------------------------------
\* A step that changes no zone but z and keeps the counters in line with it.
LocalStep(z) ==
  /\ state' \in [Zones -> States]
  /\ wp' \in [Zones -> 0 .. Cap]
  /\ zrwav' \in [Zones -> BOOLEAN]
  /\ \A y \in Zones \ {z} : /\ state'[y] = state[y]
                            /\ wp'[y] = wp[y]
                            /\ zrwav'[y] = zrwav[y]
  /\ open' = open - B(state[z] \in Opened) + B(state'[z] \in Opened)
  /\ active' = active - B(state[z] \in Active) + B(state'[z] \in Active)
  /\ zrwa' \in Int
  /\ zrwa' <= NrZones
  /\ zrwa' >= zrwa - B(state[z] \in Active /\ zrwav[z])
                   + B(state'[z] \in Active /\ zrwav'[z])
  /\ state'[z] = "EMPTY" => wp'[z] = 0 /\ ~zrwav'[z]
  /\ state'[z] \in Active => wp'[z] < Cap
  /\ \/ wp'[z] >= wp[z] /\ (state[z] = "FULL" => state'[z] = "FULL")
     \/ wp'[z] = 0 /\ state'[z] = "EMPTY"

\* What LocalStep keeps: everything but the types of the other variables.
ZoneCore ==
  /\ open \in 0 .. NrZones /\ active \in 0 .. NrZones /\ zrwa \in 0 .. NrZones
  /\ ResourcesCounted /\ ZrwaCovered /\ WpMatchesState

LEMMA LocalPreserves ==
  ASSUME ZoneInv, NEW z \in Zones, LocalStep(z)
  PROVE  ZoneCore'
<1> USE DEF ZoneInv
<1>1. /\ InState(Opened) \in SUBSET Zones /\ InState(Opened)' \in SUBSET Zones
      /\ InState(Active) \in SUBSET Zones /\ InState(Active)' \in SUBSET Zones
      /\ ZrwaZones \in SUBSET Zones /\ ZrwaZones' \in SUBSET Zones
  BY DEF InState, ZrwaZones
<1>2. InState(Opened) \ {z} = InState(Opened)' \ {z}
  BY DEF InState, LocalStep
<1>3. InState(Active) \ {z} = InState(Active)' \ {z}
  BY DEF InState, LocalStep
<1>4. ZrwaZones \ {z} = ZrwaZones' \ {z}
  BY DEF ZrwaZones, InState, LocalStep
<1>5. /\ (z \in InState(Opened)) = (state[z] \in Opened)
      /\ (z \in InState(Opened)') = (state'[z] \in Opened)
      /\ (z \in InState(Active)) = (state[z] \in Active)
      /\ (z \in InState(Active)') = (state'[z] \in Active)
  BY DEF InState
<1>6. /\ (z \in ZrwaZones) = (state[z] \in Active /\ zrwav[z])
      /\ (z \in ZrwaZones') = (state'[z] \in Active /\ zrwav'[z])
  BY DEF InState, ZrwaZones, TypeOK, LocalStep
<1>7. /\ Cardinality(InState(Opened)) \in Nat
      /\ Cardinality(InState(Opened)') = Cardinality(InState(Opened))
           - B(state[z] \in Opened) + B(state'[z] \in Opened)
  <2>1. /\ Cardinality(InState(Opened)) \in Nat
        /\ Cardinality(InState(Opened)') = Cardinality(InState(Opened))
             - B(z \in InState(Opened)) + B(z \in InState(Opened)')
    BY <1>1, <1>2, CountChange
  <2> QED BY <2>1, <1>5 DEF B
<1>8. /\ Cardinality(InState(Active)) \in Nat
      /\ Cardinality(InState(Active)') = Cardinality(InState(Active))
           - B(state[z] \in Active) + B(state'[z] \in Active)
  <2>1. /\ Cardinality(InState(Active)) \in Nat
        /\ Cardinality(InState(Active)') = Cardinality(InState(Active))
             - B(z \in InState(Active)) + B(z \in InState(Active)')
    BY <1>1, <1>3, CountChange
  <2> QED BY <2>1, <1>5 DEF B
<1>9. /\ Cardinality(ZrwaZones) \in Nat
      /\ Cardinality(ZrwaZones') = Cardinality(ZrwaZones)
           - B(state[z] \in Active /\ zrwav[z]) + B(state'[z] \in Active /\ zrwav'[z])
  <2>1. /\ Cardinality(ZrwaZones) \in Nat
        /\ Cardinality(ZrwaZones') = Cardinality(ZrwaZones)
             - B(z \in ZrwaZones) + B(z \in ZrwaZones')
    BY <1>1, <1>4, CountChange
  <2> QED BY <2>1, <1>6 DEF B
<1>10. ResourcesCounted'
  BY <1>7, <1>8 DEF ResourcesCounted, LocalStep
<1>11. ZrwaCovered'
  BY <1>9 DEF ZrwaCovered, LocalStep, TypeOK, B
<1>12. WpMatchesState'
  BY DEF WpMatchesState, LocalStep
<1>13. /\ Cardinality(InState(Opened)') \in 0 .. NrZones
       /\ Cardinality(InState(Active)') \in 0 .. NrZones
       /\ Cardinality(ZrwaZones') \in 0 .. NrZones
  BY <1>1, CountBound
<1>14. open' \in 0 .. NrZones /\ active' \in 0 .. NrZones
  BY <1>10, <1>13 DEF ResourcesCounted
<1>15. zrwa' \in 0 .. NrZones
  BY <1>11, <1>13, ZnsAssumption DEF ZrwaCovered, LocalStep
<1> QED BY <1>10, <1>11, <1>12, <1>14, <1>15 DEF ZoneCore

-----------------------------------------------------------------------------
\* Rounding up to a multiple of unit adds less than one unit.
LEMMA RoundUpBound ==
  ASSUME NEW n \in Nat, NEW unit \in Nat \ {0}
  PROVE  RoundUp(n, unit) \in Nat /\ RoundUp(n, unit) <= n + unit - 1
<1>1. ASSUME NEW m \in Nat
      PROVE  (m \div unit) * unit \in Nat /\ (m \div unit) * unit <= m
  <2>1. (m \div unit) * unit <= m
    OBVIOUS
  <2>2. m \div unit \in Nat
    OBVIOUS
  <2>3. \A q \in Nat : q * unit \in Nat
    OBVIOUS
  <2> QED BY <2>1, <2>2, <2>3
<1>2. n + unit - 1 \in Nat
  OBVIOUS
<1> QED BY <1>1, <1>2 DEF RoundUp

\* An implicit flush stays within the zone.
LEMMA FlushWithinZone ==
  ASSUME NEW z \in Zones, wp[z] \in 0 .. Cap, NEW off \in 0 .. Cap - 1,
         NEW n \in 1 .. MaxLen, ZrwaWriteError(z, off, n) = "SUCCESS",
         wp[z] < Cap
  PROVE  /\ ImplicitFlush(z, off + n - 1) \in Nat
         /\ wp[z] + ImplicitFlush(z, off + n - 1) <= Cap
<1> DEFINE elba == off + n - 1
<1>1. SameZone(off, n) /\ off >= wp[z]
  BY ZnsAssumption DEF ZrwaWriteError
<1>2. elba \in Nat /\ elba < Cap /\ elba >= wp[z]
  BY <1>1, ZnsAssumption DEF SameZone
<1>3. CASE elba >= wp[z] + Zrwa
  <2> DEFINE x == elba - (wp[z] + Zrwa) + 1
  <2>1. x \in Nat
    BY <1>2, <1>3, ZnsAssumption
  <2>2. ImplicitFlush(z, elba) = RoundUp(x, Zrwafg)
    BY <1>3 DEF ImplicitFlush
  <2>3. Zrwafg \in Nat \ {0}
    BY ZnsAssumption
  <2>4. RoundUp(x, Zrwafg) \in Nat /\ RoundUp(x, Zrwafg) <= x + Zrwafg - 1
    <3> HIDE DEF x
    <3> QED BY <2>1, <2>3, RoundUpBound
  <2> QED BY <1>2, <2>1, <2>2, <2>4, ZnsAssumption
<1>4. CASE ~(elba >= wp[z] + Zrwa)
  BY <1>2, <1>4, ZnsAssumption DEF ImplicitFlush
<1> QED BY <1>3, <1>4

\* The operators on buffer sizes yield natural numbers.
LEMMA BufferTypes ==
  ASSUME NEW off \in Nat, NEW n \in Nat
  PROVE  /\ ReleasedBy(off, n) \in Nat
         /\ ReleasedByFlush(off, n) \in Nat
         /\ Unprogrammed(off) \in Nat
<1>1. WlBlocks \in Nat /\ WlBlocks > 0
  BY ZnsAssumption DEF WlBlocks
<1>2. ASSUME NEW a \in Int, NEW b \in Int, NEW S \in SUBSET (a .. b)
      PROVE  WlBlocks * Cardinality(S) \in Nat
  <2>1. IsFiniteSet(a .. b)
    BY FS_Interval
  <2>2. Cardinality(S) \in Nat
    BY <2>1, FS_Subset, FS_CardinalityType
  <2> QED BY <1>1, <2>2
<1>3. UnalignedSpace \in Nat
  BY <1>1, ZnsAssumption DEF UnalignedSpace
<1>4. /\ off \div SecsPerPg \in Int
      /\ (off + n - 1) \div SecsPerPg \in Int
      /\ n \div SecsPerPg \in Int
  BY ZnsAssumption
<1>5. ReleasedBy(off, n) \in Nat
  <2> DEFINE pgs == off \div SecsPerPg .. (off + n - 1) \div SecsPerPg
             S1 == {p \in pgs \ {LastPg} : EndsWordline(p)}
             S2 == {p \in pgs : EndsWordline(p)}
  <2>1. S1 \in SUBSET pgs /\ S2 \in SUBSET pgs
    OBVIOUS
  <2>2. WlBlocks * Cardinality(S1) \in Nat /\ WlBlocks * Cardinality(S2) \in Nat
    BY <2>1, <1>2, <1>4
  <2> QED BY <2>2, <1>3 DEF ReleasedBy
<1>6. ReleasedByFlush(off, n) \in Nat
  <2> DEFINE a == off \div SecsPerPg
             b == off \div SecsPerPg + n \div SecsPerPg - 1
             S == {p \in a .. b : EndsWordline(p)}
  <2>1. S \in SUBSET (a .. b) /\ a \in Int /\ b \in Int
    BY <1>4
  <2>2. WlBlocks * Cardinality(S) \in Nat
    BY <2>1, <1>2
  <2> QED BY <2>2 DEF ReleasedByFlush
<1>7. Unprogrammed(off) \in Nat
  BY <1>1 DEF Unprogrammed
<1> QED BY <1>5, <1>6, <1>7

-----------------------------------------------------------------------------
(***************************************************************************)
(* Every command is a local step, and leaves the buffers well typed.       *)
(***************************************************************************)
BuffersTyped ==
  /\ wb \in [Zones -> Nat] /\ zb \in [Zones -> Nat]
  /\ wbOut \in [Zones -> Nat] /\ zbOut \in [Zones -> Nat] /\ spilt \in [Zones -> Nat]

\* Opening a zone if need be and moving its write pointer by n blocks.
LEMMA AdvanceLocal ==
  ASSUME ZoneInv, NEW z \in Zones, NEW n \in Nat, NEW acquired \in {0, 1},
         state[z] # "FULL", wp[z] + n <= Cap, n > 0 \/ state[z] # "EMPTY",
         acquired = B(state[z] = "EMPTY"),
         OpenAndAdvance(z, n, acquired), zrwav' = zrwav, zrwa' = zrwa
  PROVE  LocalStep(z)
<1> USE ZnsAssumption DEF ZoneInv
<1>1. /\ state \in [Zones -> States] /\ wp \in [Zones -> 0 .. Cap]
      /\ zrwav \in [Zones -> BOOLEAN] /\ open \in Int /\ active \in Int /\ zrwa \in 0 .. NrZones
  BY DEF TypeOK
<1>2. state[z] \in Active => wp[z] < Cap
  BY DEF WpMatchesState
<1>3. state[z] = "EMPTY" => wp[z] = 0 /\ ~zrwav[z]
  BY DEF WpMatchesState
<1>4. /\ state' \in [Zones -> States]
      /\ \A y \in Zones \ {z} : state'[y] = state[y]
      /\ state'[z] = IF wp[z] + n = Cap THEN "FULL"
                     ELSE IF state[z] \in Opened THEN state[z] ELSE "OPENED_IMPL"
  BY <1>1 DEF OpenAndAdvance, States, Active, Opened
<1>5. /\ wp' \in [Zones -> 0 .. Cap]
      /\ \A y \in Zones \ {z} : wp'[y] = wp[y]
      /\ wp'[z] = wp[z] + n
  BY <1>1 DEF OpenAndAdvance
<1>6. state[z] \in {"EMPTY", "CLOSED", "OPENED_IMPL", "OPENED_EXPL"}
  BY <1>1 DEF States, Active, Opened
<1>7. open' = open - B(state[z] \in Opened) + B(state'[z] \in Opened)
  BY <1>1, <1>4, <1>6 DEF OpenAndAdvance, Opened, B
<1>8. active' = active - B(state[z] \in Active) + B(state'[z] \in Active)
  BY <1>1, <1>4, <1>6 DEF OpenAndAdvance, Opened, Active, B
<1>9. zrwa' >= zrwa - B(state[z] \in Active /\ zrwav[z])
                    + B(state'[z] \in Active /\ zrwav'[z])
  BY <1>1, <1>3, <1>4, <1>6 DEF Opened, Active, B
<1>10. /\ state'[z] # "EMPTY"
       /\ state'[z] \in Active => wp'[z] < Cap
  BY <1>1, <1>2, <1>4, <1>5, <1>6 DEF Opened, Active
<1> QED BY <1>1, <1>4, <1>5, <1>7, <1>8, <1>9, <1>10 DEF LocalStep

\* A step that changes no zone is a local step.
LEMMA StutterLocal ==
  ASSUME ZoneInv, NEW z \in Zones, UNCHANGED <<zoneVars, resVars>>
  PROVE  LocalStep(z)
BY DEF ZoneInv, TypeOK, WpMatchesState, LocalStep, zoneVars, resVars, B

LEMMA WriteLocal ==
  ASSUME ZoneInv, NEW z \in Zones, NEW off \in 0 .. Cap, NEW n \in 1 .. MaxLen,
         DoWrite(z, off, n)
  PROVE  LocalStep(z) /\ BuffersTyped'
<1> USE DEF ZoneInv
<1>1. n \in Nat /\ off \in Nat /\ n > 0
  BY ZnsAssumption
<1>2. BuffersTyped'
  <2>1. /\ wb' = [wb EXCEPT ![z] = @ - n] /\ wb[z] >= n
        /\ zb' = zb /\ zbOut' = zbOut
        /\ wbOut' = wbOut \/ wbOut' = [wbOut EXCEPT ![z] = @ + ReleasedBy(off, n)]
        /\ spilt' = spilt \/ spilt' = [spilt EXCEPT ![z] = @ + n]
    BY DEF DoWrite
  <2>2. ReleasedBy(off, n) \in Nat
    BY <1>1, BufferTypes
  <2>3. wb' \in [Zones -> Nat] /\ zb' \in [Zones -> Nat] /\ zbOut' \in [Zones -> Nat]
    BY <1>1, <2>1 DEF TypeOK
  <2>4. wbOut' \in [Zones -> Nat]
    BY <2>1, <2>2 DEF TypeOK
  <2>5. spilt' \in [Zones -> Nat]
    BY <1>1, <2>1 DEF TypeOK
  <2> QED BY <2>3, <2>4, <2>5 DEF BuffersTyped
<1>3. CASE WriteError(z, off, n) = "SUCCESS"
  <2>1. SameZone(off, n) /\ off = wp[z] /\ state[z] # "FULL"
    BY <1>3 DEF WriteError
  <2>2. state[z] \in Active \cup {"EMPTY"}
    BY <2>1 DEF TypeOK, States
  <2>3. wp[z] < Cap
    BY <2>2, ZnsAssumption DEF WpMatchesState
  <2>4. wp[z] + n <= Cap
    BY <2>1, <2>3 DEF SameZone
  <2>5. /\ OpenAndAdvance(z, n, B(state[z] = "EMPTY"))
        /\ zrwav' = zrwav /\ zrwa' = zrwa
    BY <1>3 DEF DoWrite
  <2>6. B(state[z] = "EMPTY") \in {0, 1}
    BY DEF B
  <2> QED BY <1>1, <1>2, <2>1, <2>4, <2>5, <2>6, AdvanceLocal
<1>4. CASE WriteError(z, off, n) # "SUCCESS"
  <2>1. UNCHANGED <<zoneVars, resVars>>
    BY <1>4 DEF DoWrite, zoneVars, resVars
  <2> QED BY <2>1, <1>2, StutterLocal
<1> QED BY <1>3, <1>4

LEMMA ZrwaWriteLocal ==
  ASSUME ZoneInv, NEW z \in Zones, NEW off \in 0 .. Cap - 1, NEW n \in 1 .. MaxLen,
         ZnsWriteZrwa(z, off, n)
  PROVE  LocalStep(z) /\ BuffersTyped'
<1> USE DEF ZoneInv
<1> DEFINE err   == ZrwaWriteError(z, off, n)
           flush == ImplicitFlush(z, off + n - 1)
           taken == IF state[z] \in Opened THEN 0 ELSE Zrwa
<1>1. zrwav[z] /\ zrwav' = zrwav /\ zrwa' = zrwa /\ wb' = wb /\ wbOut' = wbOut /\ spilt' = spilt
  BY DEF ZnsWriteZrwa
<1>2. state[z] # "EMPTY"
  BY <1>1 DEF WpMatchesState
<1>3. taken \in Nat
  BY ZnsAssumption
<1>4. CASE err = "SUCCESS"
  <2>1. state[z] \in Active
    BY <1>2, <1>4 DEF ZrwaWriteError, TypeOK, States
  <2>2. wp[z] < Cap /\ wp[z] \in 0 .. Cap /\ state[z] # "FULL" /\ B(state[z] = "EMPTY") = 0
    BY <2>1, <1>2 DEF WpMatchesState, TypeOK, Active, Opened, B
  <2>3. flush \in Nat /\ wp[z] + flush <= Cap
    BY <1>4, <2>2, FlushWithinZone
  <2>4. ReleasedByFlush(wp[z], flush) \in Nat
    <3> HIDE DEF flush
    <3>1. wp[z] \in Nat
      BY <2>2, ZnsAssumption
    <3> QED BY <2>3, <3>1, BufferTypes
  <2>5. \/ UNCHANGED <<state, wp, open, active, zb, zbOut>>
        \/ /\ zb[z] >= taken
           /\ OpenAndAdvance(z, 0, 0)
           /\ zb' = [zb EXCEPT ![z] = @ - taken]
           /\ UNCHANGED zbOut
        \/ /\ zb[z] - taken >= flush
           /\ OpenAndAdvance(z, flush, 0)
           /\ zb' = [zb EXCEPT ![z] = @ - taken - flush]
           /\ zbOut' = [zbOut EXCEPT ![z] = @ + ReleasedByFlush(wp[z], flush)]
    BY <1>4 DEF ZnsWriteZrwa
  <2>6. BuffersTyped'
    <3> HIDE DEF flush, taken
    <3>1. zb \in [Zones -> Nat] /\ zbOut \in [Zones -> Nat] /\ zb[z] \in Nat
      BY DEF TypeOK
    <3>2. zb' \in [Zones -> Nat]
      BY <1>3, <2>3, <2>5, <3>1
    <3>3. zbOut' \in [Zones -> Nat]
      BY <2>4, <2>5, <3>1
    <3> QED BY <1>1, <3>2, <3>3 DEF BuffersTyped, TypeOK
  <2>7. CASE UNCHANGED <<state, wp, open, active, zb, zbOut>>
    BY <1>1, <2>6, <2>7, StutterLocal DEF zoneVars, resVars
  <2>8. CASE OpenAndAdvance(z, 0, 0)
    BY <1>1, <1>2, <2>2, <2>6, <2>8, AdvanceLocal
  <2>9. CASE OpenAndAdvance(z, flush, 0)
    <3> HIDE DEF flush
    <3> QED BY <1>1, <1>2, <2>2, <2>3, <2>6, <2>9, AdvanceLocal
  <2> QED BY <2>5, <2>7, <2>8, <2>9
<1>5. CASE err # "SUCCESS"
  <2>1. UNCHANGED <<zoneVars, resVars, zb, zbOut>>
    BY <1>1, <1>5 DEF ZnsWriteZrwa, zoneVars, resVars
  <2> QED BY <1>1, <2>1, StutterLocal DEF BuffersTyped, TypeOK
<1> QED BY <1>4, <1>5

\* Zone management: one local step per function of zns_mgmt_send.c.
LEMMA ZmgmtLocal ==
  ASSUME ZoneInv, NEW z \in Zones, NEW act \in Actions, NEW opt \in BOOLEAN,
         NEW off \in 0 .. Cap - 1, ZmgmtSend(z, act, opt, off)
  PROVE  LocalStep(z) /\ BuffersTyped'
<1> USE ZnsAssumption DEF ZoneInv
<1>1. /\ state \in [Zones -> States] /\ wp \in [Zones -> 0 .. Cap]
      /\ zrwav \in [Zones -> BOOLEAN]
      /\ open \in Int /\ active \in Int /\ zrwa \in 0 .. NrZones
      /\ state[z] \in {"EMPTY", "FULL", "CLOSED", "OPENED_IMPL", "OPENED_EXPL"}
      /\ BuffersTyped
  BY DEF TypeOK, States, Active, Opened, BuffersTyped
<1>2. /\ state[z] \in Active => wp[z] < Cap
      /\ state[z] = "EMPTY" => wp[z] = 0 /\ ~zrwav[z]
  BY DEF WpMatchesState
<1>3. CASE act = "CLOSE"
  <2>1. CloseZone(z)
    BY <1>3 DEF ZmgmtSend
  <2>2. LocalStep(z)
    BY <1>1, <1>2, <2>1 DEF CloseZone, LocalStep, States, Active, Opened, B
  <2> QED BY <1>1, <2>1, <2>2 DEF CloseZone, bufVars, BuffersTyped
<1>4. CASE act = "FINISH"
  <2>1. FinishZone(z)
    BY <1>4 DEF ZmgmtSend
  <2>2. LocalStep(z)
    BY <1>1, <1>2, <2>1 DEF FinishZone, LocalStep, States, Active, Opened, B
  <2> QED BY <1>1, <2>1, <2>2 DEF FinishZone, bufVars, BuffersTyped
<1>5. CASE act = "OPEN"
  <2>1. OpenZone(z, opt)
    BY <1>5 DEF ZmgmtSend
  <2>2. BuffersTyped'
    BY <1>1, <2>1 DEF OpenZone, bufVars, BuffersTyped
  <2>3. CASE OpenError(z, opt) # "SUCCESS"
    <3>1. UNCHANGED <<zoneVars, resVars>>
      BY <1>1, <2>1, <2>3 DEF OpenZone, zoneVars, resVars, B
    <3> QED BY <2>2, <3>1, StutterLocal
  <2>4. CASE OpenError(z, opt) = "SUCCESS"
    <3>1. state[z] # "FULL" /\ (state[z] = "EMPTY" /\ opt => zrwa # NrZones)
      BY <2>4, <1>1 DEF OpenError, Exhausted
    <3>2. /\ state' = [state EXCEPT ![z] = "OPENED_EXPL"]
          /\ zrwav' = [zrwav EXCEPT ![z] = @ \/ (state[z] = "EMPTY" /\ opt)]
          /\ open' = open + B(state[z] \notin Opened)
          /\ active' = active + B(state[z] = "EMPTY")
          /\ zrwa' = zrwa + B(state[z] = "EMPTY" /\ opt)
          /\ wp' = wp
      BY <2>1, <2>4 DEF OpenZone, B
    <3>3. zrwav' \in [Zones -> BOOLEAN]
      BY <1>1, <3>2
    <3>4. LocalStep(z)
      BY <1>1, <1>2, <3>1, <3>2, <3>3 DEF LocalStep, States, Active, Opened, B
    <3> QED BY <2>2, <3>4
  <2> QED BY <2>3, <2>4
<1>6. CASE act = "RESET"
  <2>1. ResetZone(z)
    BY <1>6 DEF ZmgmtSend
  <2>2. LocalStep(z)
    BY <1>1, <1>2, <2>1 DEF ResetZone, LocalStep, States, Active, Opened, B
  <2>3. Unprogrammed(wp[z]) \in Nat
    BY <1>1, BufferTypes
  <2>4. BuffersTyped'
    BY <1>1, <2>1, <2>3 DEF ResetZone, BuffersTyped
  <2> QED BY <2>2, <2>4
<1>7. CASE act = "OFFLINE"
  <2>1. UNCHANGED <<zoneVars, resVars, bufVars>>
    BY <1>7 DEF ZmgmtSend, OfflineZone
  <2>2. BuffersTyped'
    BY <1>1, <2>1 DEF bufVars, BuffersTyped
  <2> QED BY <2>1, <2>2, StutterLocal
<1>8. CASE act = "FLUSH_ZRWA"
  <2>1. FlushZrwa(z, off)
    BY <1>8 DEF ZmgmtSend
  <2>2. BuffersTyped'
    BY <1>1, <2>1 DEF FlushZrwa, bufVars, BuffersTyped
  <2>3. CASE FlushError(z, off) # "SUCCESS"
    <3>1. UNCHANGED <<zoneVars, resVars>>
      BY <1>1, <2>1, <2>3 DEF FlushZrwa, zoneVars, resVars, B
    <3> QED BY <2>2, <3>1, StutterLocal
  <2>4. CASE FlushError(z, off) = "SUCCESS"
    <3>1. zrwav[z] /\ state[z] \in Active /\ wp[z] <= off
      BY <2>4 DEF FlushError
    <3>2. LocalStep(z)
      BY <1>1, <1>2, <2>1, <2>4, <3>1 DEF FlushZrwa, LocalStep, States, Active, Opened, B
    <3> QED BY <2>2, <3>2
  <2> QED BY <2>3, <2>4
<1> QED BY <1>3, <1>4, <1>5, <1>6, <1>7, <1>8 DEF Actions

-----------------------------------------------------------------------------
LEMMA OptionsBoolean ==
  ASSUME NEW act, NEW opt \in Options(act)
  PROVE  opt \in BOOLEAN
BY Zenon DEF Options

\* Every step is local to some zone.
LEMMA StepLocal ==
  ASSUME ZoneInv, Next
  PROVE  /\ \E z \in Zones : LocalStep(z)
         /\ BuffersTyped'
         /\ sweep' \in [zid : Zones, act : Actions, opt : BOOLEAN] \cup {NoSweep}
         /\ panic' \in BOOLEAN
<1> USE ZnsAssumption
<1>1. /\ sweep \in [zid : Zones, act : Actions, opt : BOOLEAN] \cup {NoSweep}
      /\ panic \in BOOLEAN /\ BuffersTyped /\ wp \in [Zones -> 0 .. Cap]
  BY DEF ZoneInv, TypeOK, BuffersTyped
<1>2. ASSUME NEW z \in Zones, NEW act \in Actions, NEW opt \in BOOLEAN,
             NEW off \in 0 .. Cap - 1, Manage(z, act, opt, off)
      PROVE  LocalStep(z) /\ BuffersTyped' /\ UNCHANGED <<sweep, panic>>
  BY <1>2, ZmgmtLocal DEF Manage
<1>3. ASSUME NEW z \in Zones, Command(z)
      PROVE  LocalStep(z) /\ BuffersTyped' /\ sweep' = sweep /\ panic' \in BOOLEAN
  <2>1. ASSUME NEW off \in 0 .. Cap - 1, NEW n \in 1 .. MaxLen, ZnsWrite(z, off, n)
        PROVE  LocalStep(z) /\ BuffersTyped' /\ UNCHANGED <<sweep, panic>>
    <3>1. DoWrite(z, off, n) /\ off \in 0 .. Cap
      BY <2>1 DEF ZnsWrite
    <3>2. LocalStep(z) /\ BuffersTyped'
      BY <3>1, WriteLocal
    <3> QED BY <3>1, <3>2 DEF DoWrite
  <2>2. ASSUME NEW off \in 0 .. Cap - 1, NEW n \in 1 .. MaxLen, ZnsWriteZrwa(z, off, n)
        PROVE  LocalStep(z) /\ BuffersTyped' /\ sweep' = sweep /\ panic' \in BOOLEAN
    <3>1. LocalStep(z) /\ BuffersTyped'
      BY <2>2, ZrwaWriteLocal
    <3>2. sweep' = sweep /\ panic' \in BOOLEAN
      BY <1>1, <2>2 DEF ZnsWriteZrwa
    <3> QED BY <3>1, <3>2
  <2>3. ASSUME NEW n \in 1 .. MaxLen, ZnsAppend(z, n)
        PROVE  LocalStep(z) /\ BuffersTyped' /\ UNCHANGED <<sweep, panic>>
    <3>1. DoWrite(z, wp[z], n) /\ wp[z] \in 0 .. Cap
      BY <1>1, <2>3 DEF ZnsAppend
    <3>2. LocalStep(z) /\ BuffersTyped'
      BY <3>1, WriteLocal
    <3> QED BY <3>1, <3>2 DEF DoWrite
  <2>4. ASSUME NEW act \in Actions, NEW opt \in Options(act), Manage(z, act, opt, 0)
        PROVE  LocalStep(z) /\ BuffersTyped' /\ UNCHANGED <<sweep, panic>>
    <3>1. 0 \in 0 .. Cap - 1
      OBVIOUS
    <3>2. opt \in BOOLEAN
      BY OptionsBoolean
    <3> QED BY <1>2, <2>4, <3>1, <3>2
  <2>5. ASSUME NEW off \in 0 .. Cap - 1, Manage(z, "FLUSH_ZRWA", FALSE, off)
        PROVE  LocalStep(z) /\ BuffersTyped' /\ UNCHANGED <<sweep, panic>>
    <3>1. "FLUSH_ZRWA" \in Actions /\ FALSE \in BOOLEAN
      BY DEF Actions
    <3> QED BY <1>2, <2>5, <3>1
  <2> QED BY <1>1, <1>3, <2>1, <2>2, <2>3, <2>4, <2>5 DEF Command
<1>4. ASSUME NEW z \in Zones, NEW act \in Actions, NEW opt \in BOOLEAN, SweepZone(z, act, opt)
      PROVE  /\ LocalStep(z) /\ BuffersTyped' /\ panic' = panic
             /\ sweep' \in [zid : Zones, act : Actions, opt : BOOLEAN] \cup {NoSweep}
  <2>1. ZmgmtSend(z, act, opt, 0) /\ 0 \in 0 .. Cap - 1
    BY <1>4 DEF SweepZone
  <2>2. LocalStep(z) /\ BuffersTyped'
    BY <2>1, ZmgmtLocal
  <2>3. sweep' \in [zid : Zones, act : Actions, opt : BOOLEAN] \cup {NoSweep}
    <3>1. CASE z + 1 = NrZones
      BY <1>4, <3>1 DEF SweepZone
    <3>2. CASE z + 1 # NrZones
      <4>1. z + 1 \in Zones
        BY <3>2 DEF Zones
      <4> QED BY <1>4, <3>2, <4>1 DEF SweepZone
    <3> QED BY <3>1, <3>2
  <2> QED BY <1>4, <2>2, <2>3 DEF SweepZone
<1>5. CASE \E z \in Zones : Command(z)
  BY <1>1, <1>3, <1>5
<1>6. CASE \E act \in Actions : \E opt \in Options(act) : SelectAll(act, opt)
  <2>0. PICK act \in Actions : \E opt \in Options(act) : SelectAll(act, opt)
    BY <1>6
  <2>1. PICK opt \in Options(act) : SelectAll(act, opt)
    BY <2>0
  <2>2. opt \in BOOLEAN /\ 0 \in Zones /\ SweepZone(0, act, opt)
    <3>1. opt \in BOOLEAN
      BY OptionsBoolean
    <3> QED BY <2>1, <3>1 DEF SelectAll, Zones
  <2> QED BY <1>1, <1>4, <2>2
<1>7. CASE SelectNext
  <2>1. /\ sweep.zid \in Zones /\ sweep.act \in Actions /\ sweep.opt \in BOOLEAN
        /\ SweepZone(sweep.zid, sweep.act, sweep.opt)
    BY <1>1, <1>7 DEF SelectNext, Sweeping
  <2> QED BY <1>1, <1>4, <2>1
<1>8. ASSUME NEW z \in Zones, Release(z)
      PROVE  LocalStep(z) /\ BuffersTyped' /\ UNCHANGED <<sweep, panic>>
  <2>1. UNCHANGED <<zoneVars, resVars, sweep, panic>> /\ spilt' = spilt
    BY <1>8 DEF Release
  <2>2. BuffersTyped'
    BY <1>1, <1>8 DEF Release, BuffersTyped
  <2> QED BY <2>1, <2>2, StutterLocal
<1> QED BY <1>1, <1>5, <1>6, <1>7, <1>8 DEF Next

\* The initial state satisfies the invariant.
LEMMA InitZoneInv == Init => ZoneInv
<1> SUFFICES ASSUME Init PROVE ZoneInv
  OBVIOUS
<1> USE ZnsAssumption
<1>1. TypeOK
  <2>1. /\ state \in [Zones -> States] /\ wp \in [Zones -> 0 .. Cap]
        /\ wb \in [Zones -> Nat] /\ zb \in [Zones -> Nat]
        /\ wbOut \in [Zones -> Nat] /\ zbOut \in [Zones -> Nat] /\ spilt \in [Zones -> Nat]
        /\ open \in 0 .. NrZones /\ active \in 0 .. NrZones /\ zrwa \in 0 .. NrZones
    BY DEF Init, States
  <2>2. zrwav \in [Zones -> BOOLEAN] /\ panic \in BOOLEAN
    BY DEF Init
  <2>3. sweep \in [zid : Zones, act : Actions, opt : BOOLEAN] \cup {NoSweep}
    BY DEF Init
  <2> QED BY <2>1, <2>2, <2>3 DEF TypeOK
<1>2. InState(Opened) = {} /\ InState(Active) = {} /\ ZrwaZones = {}
  BY DEF Init, InState, ZrwaZones, Active, Opened
<1>3. Cardinality({}) = 0
  BY FS_EmptySet
<1>4. ResourcesCounted
  <2>1. Cardinality(InState(Opened)) = 0 /\ Cardinality(InState(Active)) = 0
    BY <1>2, <1>3, Zenon
  <2> QED BY <2>1 DEF Init, ResourcesCounted
<1>5. ZrwaCovered
  <2>1. Cardinality(ZrwaZones) = 0
    BY <1>2, <1>3, Zenon
  <2> QED BY <2>1 DEF Init, ZrwaCovered
<1>6. WpMatchesState
  BY DEF Init, WpMatchesState, Active, Opened
<1> QED BY <1>1, <1>4, <1>5, <1>6 DEF ZoneInv

\* The invariant is inductive.
LEMMA ZoneInvStep ==
  ASSUME ZoneInv, [Next]_vars
  PROVE  ZoneInv'
<1>1. CASE Next
  <2>1. PICK z \in Zones : LocalStep(z)
    BY <1>1, StepLocal
  <2>2. ZoneCore'
    BY <2>1, LocalPreserves
  <2>3. /\ BuffersTyped' /\ panic' \in BOOLEAN
        /\ sweep' \in [zid : Zones, act : Actions, opt : BOOLEAN] \cup {NoSweep}
    BY <1>1, StepLocal
  <2>4. TypeOK'
    BY <2>1, <2>2, <2>3 DEF LocalStep, ZoneCore, BuffersTyped, TypeOK
  <2> QED BY <2>2, <2>4 DEF ZoneInv, ZoneCore
<1>2. CASE UNCHANGED vars
  BY <1>2 DEF ZoneInv, TypeOK, ResourcesCounted, ZrwaCovered, WpMatchesState, InState,
              ZrwaZones, vars, zoneVars, resVars, bufVars
<1> QED BY <1>1, <1>2

LEMMA ZoneInvariant == Spec => []ZoneInv
BY InitZoneInv, ZoneInvStep, PTL DEF Spec

(***************************************************************************)
(* The acquired counts of the open and active resources are exactly the    *)
(* numbers of open and of active zones, for every sequence of writes and   *)
(* zone management commands, and the ZRWA count covers the zones that hold *)
(* a ZRWA: the unchecked decrement of release_zone_resource never wraps.   *)
(***************************************************************************)
THEOREM ResourcesExact == Spec => [](TypeOK /\ ResourcesCounted /\ ZrwaCovered)
<1>1. ZoneInv => TypeOK /\ ResourcesCounted /\ ZrwaCovered
  BY DEF ZoneInv
<1> QED BY <1>1, ZoneInvariant, PTL

\* Types, for every geometry: a write pointer stays within its zone, the unsigned
\* resource counts of release_zone_resource and the remaining space of the
\* buffers never wrap below zero.
THEOREM ZonesTyped == Spec => []TypeOK
<1>1. ZoneInv => TypeOK
  BY DEF ZoneInv
<1> QED BY <1>1, ZoneInvariant, PTL

\* Write pointer and zone state agree: __zns_write and the zone management
\* functions never leave an active zone at its end or an empty one in the middle.
THEOREM WritePointersAgree == Spec => []WpMatchesState
<1>1. ZoneInv => WpMatchesState
  BY DEF ZoneInv
<1> QED BY <1>1, ZoneInvariant, PTL

(***************************************************************************)
(* With one resource of each kind per zone, as __init_resource sets them   *)
(* up, the NO_ACTIVE_ZONE and NO_OPEN_ZONE returns are unreachable.        *)
(***************************************************************************)
THEOREM ResourcesSuffice == Spec => []NeverExhausted
<1>1. ZoneInv => NeverExhausted
  <2> SUFFICES ASSUME ZoneInv, NEW z \in Zones
               PROVE  /\ state[z] = "EMPTY" => ~Exhausted(active)
                      /\ state[z] \notin Opened => ~Exhausted(open)
    BY DEF NeverExhausted
  <2>1. InState(Opened) \in SUBSET Zones /\ InState(Active) \in SUBSET Zones
    BY DEF InState
  <2>2. /\ Cardinality(InState(Opened)) = NrZones => InState(Opened) = Zones
        /\ Cardinality(InState(Active)) = NrZones => InState(Active) = Zones
    BY <2>1, CountBound
  <2>3. ASSUME Exhausted(active) PROVE state[z] # "EMPTY"
    <3>1. z \in InState(Active)
      BY <2>2, <2>3 DEF Exhausted, ZoneInv, ResourcesCounted
    <3> QED BY <3>1 DEF InState, Active, Opened
  <2>4. ASSUME Exhausted(open) PROVE state[z] \in Opened
    <3>1. z \in InState(Opened)
      BY <2>2, <2>4 DEF Exhausted, ZoneInv, ResourcesCounted
    <3> QED BY <3>1 DEF InState
  <2> QED BY <2>3, <2>4
<1> QED BY <1>1, ZoneInvariant, PTL

\* A write pointer moves backwards, and a full zone becomes writable, only
\* by a reset that empties the zone.
THEOREM WpForward == Spec => WpMonotone
<1>1. ASSUME ZoneInv, [Next]_vars
      PROVE  [\A z \in Zones :
                \/ wp'[z] >= wp[z] /\ (state[z] = "FULL" => state'[z] = "FULL")
                \/ wp'[z] = 0 /\ state'[z] = "EMPTY"]_vars
  <2>1. CASE Next
    <3>1. PICK z \in Zones : LocalStep(z)
      BY <1>1, <2>1, StepLocal
    <3>2. wp \in [Zones -> 0 .. Cap]
      BY <1>1 DEF ZoneInv, TypeOK
    <3> QED BY <3>1, <3>2, ZnsAssumption DEF LocalStep
  <2>2. CASE UNCHANGED vars
    BY <2>2
  <2> QED BY <1>1, <2>1, <2>2
<1> QED BY <1>1, ZoneInvariant, PTL DEF Spec, WpMonotone

-----------------------------------------------------------------------------
(***************************************************************************)
(* The write buffer of a zone, for pages of any number of blocks.          *)
(***************************************************************************)
\* A number is made of its quotient and its remainder.
LEMMA DivMod ==
  ASSUME NEW W \in Nat \ {0}, NEW x \in Nat
  PROVE  /\ x \div W \in Nat
         /\ x % W \in 0 .. W - 1
         /\ W * (x \div W) \in Nat
         /\ x = W * (x \div W) + (x % W)
<1>1. x \div W \in Nat /\ x % W \in 0 .. W - 1
  OBVIOUS
<1>2. x = W * (x \div W) + (x % W)
  OBVIOUS
<1>3. ASSUME NEW q \in Nat PROVE W * q \in Nat
  OBVIOUS
<1> QED BY <1>1, <1>2, <1>3

\* A larger factor gives a larger multiple, by at least one W.
LEMMA MultipleOrder ==
  ASSUME NEW W \in Nat \ {0}, NEW j \in Int, NEW k \in Int
  PROVE  /\ W * j \in Int
         /\ j < k => W * j + W <= W * k
         /\ j <= k => W * j <= W * k
<1>1. W * j \in Int /\ W * k \in Int
  OBVIOUS
<1>2. ASSUME j < k PROVE W * j + W <= W * k
  <2> DEFINE d == k - j - 1
  <2>1. d \in Nat /\ k = j + 1 + d
    BY <1>2
  <2>2. W * d >= 0 /\ W * d \in Int
    <3> HIDE DEF d
    <3> QED BY <2>1
  <2>3. W * (j + 1 + d) = W * j + W + W * d
    <3> HIDE DEF d
    <3> QED BY <2>1
  <2>4. W * k = W * j + W + W * d
    BY <2>1, <2>3
  <2> HIDE DEF d
  <2> QED BY <1>1, <2>2, <2>4
<1> QED BY <1>1, <1>2

\* How many of the pages a .. b - 1 end a wordline of W pages.
LEMMA WordlineEnds ==
  ASSUME NEW W \in Nat \ {0}, NEW a \in Nat, NEW b \in Nat, a <= b
  PROVE  /\ a \div W <= b \div W
         /\ Cardinality({p \in a .. b - 1 : (p + 1) % W = 0}) = b \div W - a \div W
<1> DEFINE qa == a \div W
           qb == b \div W
           K == qa + 1 .. qb
           S == {p \in a .. b - 1 : (p + 1) % W = 0}
           f == [k \in K |-> W * k - 1]
<1>1. /\ qa \in Nat /\ a % W \in 0 .. W - 1 /\ W * qa \in Nat /\ a = W * qa + (a % W)
      /\ qb \in Nat /\ b % W \in 0 .. W - 1 /\ W * qb \in Nat /\ b = W * qb + (b % W)
  BY DivMod
<1> HIDE DEF qa, qb
<1>2. qa <= qb
  <2>1. qb < qa => W * qb + W <= W * qa
    BY <1>1, MultipleOrder
  <2> QED BY <1>1, <2>1
<1>3. ASSUME NEW k \in K
      PROVE  W * k - 1 \in S
  <2>1. k \in Nat /\ qa < k /\ k <= qb
    BY <1>1, <1>3
  <2>2. W * qa + W <= W * k /\ W * k <= W * qb /\ W * k \in Int
    BY <1>1, <2>1, MultipleOrder
  <2>3. W * k - 1 \in a .. b - 1
    BY <1>1, <2>2
  <2>4. (W * k) % W = 0
    BY <2>1
  <2>5. (W * k - 1) + 1 = W * k
    BY <2>2
  <2> QED BY <2>3, <2>4, <2>5
<1>4. ASSUME NEW p \in S
      PROVE  \E k \in K : p = W * k - 1
  <2>1. p \in a .. b - 1 /\ (p + 1) % W = 0 /\ p + 1 \in Nat
    BY <1>4
  <2> DEFINE k == (p + 1) \div W
  <2>2. k \in Nat /\ p + 1 = W * k + ((p + 1) % W) /\ W * k \in Nat
    BY <2>1, DivMod
  <2> HIDE DEF k
  <2>3. p + 1 = W * k
    BY <2>1, <2>2
  <2>4. qa < k
    <3>1. k <= qa => W * k <= W * qa
      BY <1>1, <2>2, MultipleOrder
    <3> QED BY <1>1, <2>1, <2>2, <2>3, <3>1
  <2>5. k <= qb
    <3>1. qb < k => W * qb + W <= W * k
      BY <1>1, <2>2, MultipleOrder
    <3> QED BY <1>1, <2>1, <2>2, <2>3, <3>1
  <2>6. k \in K /\ p = W * k - 1
    BY <1>1, <2>1, <2>2, <2>3, <2>4, <2>5
  <2> QED BY <2>6
<1>5. f \in Bijection(K, S)
  <2>1. f \in [K -> S]
    BY <1>3
  <2>2. ASSUME NEW j \in K, NEW k \in K, f[j] = f[k] PROVE j = k
    <3>1. j \in Int /\ k \in Int /\ W * j \in Int /\ W * k \in Int
      BY <1>1
    <3>2. W * j = W * k
      BY <2>2, <3>1
    <3>3. /\ j < k => W * j + W <= W * k
          /\ k < j => W * k + W <= W * j
      BY <3>1, MultipleOrder
    <3> QED BY <3>1, <3>2, <3>3
  <2>3. \A p \in S : \E k \in K : f[k] = p
    BY <1>4
  <2> HIDE DEF f, K, S
  <2> QED BY <2>1, <2>2, <2>3, Fun_IsBij
<1>6. IsFiniteSet(K) /\ Cardinality(K) = qb - qa
  <2>1. qa + 1 \in Int /\ qb \in Int
    BY <1>1
  <2>2. IsFiniteSet(K) /\ Cardinality(K) = IF qa + 1 > qb THEN 0 ELSE qb - (qa + 1) + 1
    BY <2>1, FS_Interval
  <2> QED BY <1>1, <1>2, <2>2
<1>7. Cardinality(S) = Cardinality(K)
  <2> HIDE DEF f, K, S
  <2>1. ExistsBijection(K, S)
    BY <1>5 DEF ExistsBijection
  <2> QED BY <1>6, <2>1, FS_Bijection
<1>8. Cardinality(S) = qb - qa
  BY <1>6, <1>7
<1> QED BY <1>2, <1>8 DEF qa, qb

\* Quotient and remainder are the only ones.
LEMMA DivModUnique ==
  ASSUME NEW W \in Nat \ {0}, NEW x \in Nat, NEW q \in Nat, W * q <= x, x < W * q + W
  PROVE  x % W = x - W * q
<1> DEFINE k == x \div W
<1>1. k \in Nat /\ x % W \in 0 .. W - 1 /\ W * k \in Nat /\ x = W * k + (x % W)
  BY DivMod
<1> HIDE DEF k
<1>2. /\ W * q \in Int
      /\ k < q => W * k + W <= W * q
      /\ q < k => W * q + W <= W * k
  BY <1>1, MultipleOrder
<1>3. k = q
  BY <1>1, <1>2
<1> QED BY <1>1, <1>3

\* Pages in blocks: a wordline of PgsPerOneshot pages, and the pages behind it.
LEMMA PagesInBlocks ==
  ASSUME NEW q \in Nat, NEW p \in 0 .. PgsPerOneshot - 1
  PROVE  /\ SecsPerPg * (PgsPerOneshot * q + p) = WlBlocks * q + SecsPerPg * p
         /\ WlBlocks \in Nat \ {0}
         /\ WlBlocks * q \in Nat /\ SecsPerPg * p \in Nat
         /\ SecsPerPg * p + SecsPerPg <= WlBlocks
         /\ p > 0 => SecsPerPg * p >= SecsPerPg
<1>1. SecsPerPg \in Nat \ {0} /\ PgsPerOneshot \in Nat \ {0}
  BY ZnsAssumption
<1>2. WlBlocks = SecsPerPg * PgsPerOneshot /\ WlBlocks = PgsPerOneshot * SecsPerPg
  BY <1>1 DEF WlBlocks
<1>3. WlBlocks \in Nat \ {0}
  BY <1>1, <1>2
<1>4. /\ SecsPerPg * p + SecsPerPg <= SecsPerPg * PgsPerOneshot
      /\ SecsPerPg * 0 + SecsPerPg <= SecsPerPg * p \/ p = 0
      /\ SecsPerPg * p \in Nat
  <2>1. p \in Int /\ p < PgsPerOneshot /\ p >= 0
    BY <1>1
  <2>2. SecsPerPg * p \in Nat
    BY <1>1, <2>1
  <2> QED BY <1>1, <2>1, <2>2, MultipleOrder
<1>5. SecsPerPg * (PgsPerOneshot * q + p) = (PgsPerOneshot * SecsPerPg) * q + SecsPerPg * p
  BY <1>1
<1>6. WlBlocks * q \in Nat
  BY <1>3
<1> QED BY <1>1, <1>2, <1>3, <1>4, <1>5, <1>6

\* A write at the write pointer: what it takes from the buffer and what lay
\* there unprogrammed is released or lies there unprogrammed.  It may be less
\* than what is released, as a page that is written in several pieces may
\* release its wordline with each.
LEMMA WriteReleases ==
  ASSUME NEW off \in Nat, NEW n \in Nat \ {0}, off + n <= Cap
  PROVE  Unprogrammed(off) + n <= ReleasedBy(off, n) + Unprogrammed(off + n)
<1> DEFINE P == PgsPerOneshot
           S == SecsPerPg
           W == WlBlocks
           e == off + n
           a == off \div S
           b == (e - 1) \div S
           qa == a \div P
           qb == (b + 1) \div P
           pa == a % P
           pb == (b + 1) % P
           pgs == a .. b
           Ends == {p \in pgs : EndsWordline(p)}
<1>1. P \in Nat \ {0} /\ S \in Nat \ {0} /\ Cap \in Nat \ {0} /\ W \in Nat \ {0}
  BY ZnsAssumption DEF WlBlocks
<1>2. e \in Nat /\ e - 1 \in Nat /\ off <= e - 1 /\ e <= Cap
  OBVIOUS
<1>3. /\ a \in Nat /\ off % S \in 0 .. S - 1 /\ S * a \in Nat /\ off = S * a + (off % S)
      /\ b \in Nat /\ (e - 1) % S \in 0 .. S - 1 /\ S * b \in Nat
      /\ e - 1 = S * b + ((e - 1) % S)
  <2> HIDE DEF e
  <2> QED BY <1>1, <1>2, DivMod
<1>4. a <= b
  <2>1. b < a => S * b + S <= S * a
    BY <1>1, <1>3, MultipleOrder
  <2> HIDE DEF a, b, e, S
  <2> QED BY <1>1, <1>2, <1>3, <2>1
<1>5. /\ qa \in Nat /\ pa \in 0 .. P - 1 /\ a = P * qa + pa
      /\ qb \in Nat /\ pb \in 0 .. P - 1 /\ b + 1 = P * qb + pb
  <2>1. b + 1 \in Nat
    BY <1>3
  <2> HIDE DEF a, b, P
  <2> QED BY <1>1, <1>3, <2>1, DivMod
<1>6. qa <= qb /\ Cardinality(Ends) = qb - qa
  <2>1. b + 1 \in Nat /\ a <= b + 1
    BY <1>3, <1>4
  <2>2. qa <= qb /\ Cardinality({p \in a .. (b + 1) - 1 : (p + 1) % P = 0}) = qb - qa
    <3> HIDE DEF a, b, P
    <3> QED BY <1>1, <1>3, <2>1, WordlineEnds
  <2>3. (b + 1) - 1 = b
    BY <1>3
  <2> QED BY <2>2, <2>3 DEF EndsWordline
<1>7. S * (b + 1) = S * b + S
  <2> HIDE DEF b, S
  <2> QED BY <1>1, <1>3
<1>8. /\ S * a = W * qa + S * pa /\ W * qa \in Nat /\ S * pa \in Nat /\ S * pa + S <= W
      /\ S * b + S = W * qb + S * pb /\ W * qb \in Nat /\ S * pb \in Nat /\ S * pb + S <= W
      /\ pb > 0 => S * pb >= S
  <2> HIDE DEF qa, qb, pa, pb, a, b
  <2> QED BY <1>5, <1>7, PagesInBlocks
<1>9. W * (qb - qa) = W * qb - W * qa
  <2> HIDE DEF qa, qb, W
  <2> QED BY <1>1, <1>5
<1>10. W * qa <= off /\ off < W * qa + W /\ e <= W * qb + S * pb /\ W * qb + S * pb < e + S
  <2> HIDE DEF qa, qb, pa, pb, a, b, W, e, S
  <2> QED BY <1>1, <1>2, <1>3, <1>8
<1>11. Unprogrammed(off) <= off - W * qa /\ Unprogrammed(off) \in Nat
  <2>1. off % W = off - W * qa
    <3> HIDE DEF qa, W
    <3>1. W \in Nat \ {0} /\ off \in Nat /\ qa \in Nat
      BY <1>1, <1>5
    <3> QED BY <1>10, <3>1, DivModUnique, Zenon
  <2> HIDE DEF qa, W
  <2> QED BY <1>1, <1>8, <1>10, <2>1 DEF Unprogrammed, W
<1>12. Unprogrammed(e) \in Nat
  <2> HIDE DEF e
  <2> QED BY <1>2, BufferTypes
<1>13. LastPg \in Int /\ Cap = S * (LastPg + 1) /\ Cap = S * LastPg + S
  <2>1. Cap % S = 0
    BY ZnsAssumption
  <2>2. Cap = S * (Cap \div S) + 0 /\ Cap \div S \in Nat
    BY <1>1, <2>1, DivMod
  <2>3. LastPg + 1 = Cap \div S /\ LastPg \in Int
    BY <2>2 DEF LastPg
  <2>4. ASSUME NEW k \in Int PROVE S * (k + 1) = S * k + S
    <3> HIDE DEF S
    <3> QED BY <1>1
  <2>5. S * (LastPg + 1) = S * LastPg + S
    BY <2>3, <2>4
  <2>6. Cap = S * (Cap \div S)
    BY <1>1, <2>2
  <2>7. Cap = S * (LastPg + 1)
    BY <2>3, <2>6, Zenon
  <2> QED BY <2>3, <2>5, <2>7, Zenon
<1>14. b <= LastPg
  <2>1. LastPg < b => S * LastPg + S <= S * b
    BY <1>1, <1>3, <1>13, MultipleOrder
  <2> HIDE DEF b, e, S
  <2> QED BY <1>1, <1>2, <1>3, <1>13, <2>1
<1>15. LastPg \in pgs <=> b = LastPg
  BY <1>3, <1>4, <1>13, <1>14
\* The last page of the zone is reached: all of it is behind this write.
<1>16. b = LastPg => UnalignedSpace = S * pb /\ Cap = W * qb + S * pb
  <2> SUFFICES ASSUME b = LastPg PROVE UnalignedSpace = S * pb /\ Cap = W * qb + S * pb
    OBVIOUS
  <2>1. Cap = W * qb + S * pb
    <3> HIDE DEF b, qb, pb, W, S
    <3> QED BY <1>8, <1>13
  <2>2. Cap % W = Cap - W * qb
    <3> HIDE DEF qb, pb, W, S
    <3>1. W * qb <= Cap /\ Cap < W * qb + W
      BY <1>1, <1>8, <2>1
    <3>2. W \in Nat \ {0} /\ Cap \in Nat /\ qb \in Nat
      BY <1>1, <1>5
    <3> QED BY <3>1, <3>2, DivModUnique, Zenon
  <2> HIDE DEF qb, pb, W, S
  <2> QED BY <1>8, <2>1, <2>2 DEF UnalignedSpace, W
<1>17. (pb = 0 <=> EndsWordline(b)) /\ (pb = 0 => S * pb = 0)
  <2>1. pb = 0 <=> EndsWordline(b)
    BY DEF EndsWordline
  <2>2. S * 0 = 0
    BY <1>1
  <2> QED BY <2>1, <2>2, Zenon
<1>18. CASE b = LastPg /\ UnalignedSpace > 0
  <2>1. ~EndsWordline(LastPg)
    BY <1>16, <1>17, <1>18
  <2>2. {p \in pgs \ {LastPg} : EndsWordline(p)} = Ends
    BY <2>1
  <2>3. ReleasedBy(off, n) = W * Cardinality(Ends) + UnalignedSpace
    <3>1. ReleasedBy(off, n)
            = W * Cardinality({p \in pgs \ {LastPg} : EndsWordline(p)}) + UnalignedSpace
      BY <1>15, <1>18 DEF ReleasedBy
    <3> QED BY <2>2, <3>1, Zenon
  <2>4. ReleasedBy(off, n) = W * qb - W * qa + S * pb
    BY <1>6, <1>9, <1>16, <1>18, <2>3, Zenon
  <2> HIDE DEF qa, qb, pb, W, S
  <2> QED BY <1>1, <1>8, <1>10, <1>11, <1>12, <2>4
<1>19. CASE ~(b = LastPg /\ UnalignedSpace > 0)
  <2>1. ReleasedBy(off, n) = W * Cardinality(Ends)
    BY <1>15, <1>19 DEF ReleasedBy
  <2>2. ReleasedBy(off, n) = W * qb - W * qa
    BY <1>6, <1>9, <2>1, Zenon
  <2>3. CASE pb = 0
    <3>1. S * pb = 0
      BY <1>17, <2>3
    <3> HIDE DEF qa, qb, pb, W, S
    <3> QED BY <1>1, <1>8, <1>10, <1>11, <1>12, <2>2, <3>1
  <2>4. CASE pb > 0
    <3>1. S * pb >= S /\ S * pb > 0
      <4> HIDE DEF pb, S
      <4> QED BY <1>1, <1>8, <2>4
    <3>2. b # LastPg
      <4>1. S * pb \in Nat
        BY <1>8
      <4> QED BY <1>16, <1>19, <3>1, <4>1
    <3>3. e # Cap
      <4>1. b < LastPg
        BY <1>3, <1>13, <1>14, <3>2
      <4>2. S * b + S <= S * LastPg
        <5> HIDE DEF b, S
        <5> QED BY <1>1, <1>3, <1>13, <4>1, MultipleOrder
      <4> HIDE DEF b, S, e
      <4> QED BY <1>1, <1>2, <1>3, <1>13, <4>2
    <3>4. ~Touched(e)
      <4> SUFFICES ASSUME e % S # 0 PROVE e \div S = b
        BY <1>17, <2>4, <3>2 DEF Touched
      <4>1. e = S * b + ((e - 1) % S) + 1
        <5> HIDE DEF b, S
        <5> QED BY <1>2, <1>3
      <4> DEFINE k == e \div S
      <4>2. k \in Nat /\ e % S \in 0 .. S - 1 /\ S * k \in Nat /\ e = S * k + (e % S)
        <5> HIDE DEF e
        <5> QED BY <1>1, <1>2, DivMod
      <4> HIDE DEF k
      <4>3. /\ k < b => S * k + S <= S * b
            /\ b < k => S * b + S <= S * k
        BY <1>1, <1>3, <4>2, MultipleOrder
      <4>4. k = b
        <5> HIDE DEF b, S, e
        <5> QED BY <1>1, <1>2, <1>3, <4>1, <4>2, <4>3
      <4> QED BY <4>4 DEF k
    <3>5. e % W = e - W * qb
      <4> HIDE DEF qb, pb, W, S, e
      <4>1. W * qb <= e /\ e < W * qb + W
        BY <1>1, <1>2, <1>8, <1>10, <3>1
      <4>2. W \in Nat \ {0} /\ e \in Nat /\ qb \in Nat
        BY <1>1, <1>2, <1>5
      <4> QED BY <4>1, <4>2, DivModUnique, Zenon
    <3>6. Unprogrammed(e) = e - W * qb
      BY <3>3, <3>4, <3>5 DEF Unprogrammed
    <3>7. Unprogrammed(off) + n <= (W * qb - W * qa) + (e - W * qb)
      <4>1. W * qa \in Nat /\ W * qb \in Nat
        BY <1>8
      <4> HIDE DEF qa, qb, W
      <4> QED BY <1>11, <4>1
    <3> QED BY <2>2, <3>6, <3>7, Zenon
  <2> QED BY <1>5, <2>3, <2>4
<1> QED BY <1>18, <1>19

\* What BufferCovered adds up for a zone.
Held(z) ==
  wb[z] + wbOut[z] + spilt[z] + (IF zrwav[z] THEN 0 ELSE Unprogrammed(wp[z]))

\* A step that loses no blocks of zone z, and leaves the buffers of the other
\* zones alone.
HeldStep(z) ==
  /\ \A y \in Zones \ {z} : /\ wb'[y] = wb[y] /\ wbOut'[y] = wbOut[y] /\ spilt'[y] = spilt[y]
                            /\ zrwav'[y] = zrwav[y] /\ wp'[y] = wp[y]
  /\ \/ Held(z)' = Held(z)
     \/ Held(z)' \in Int /\ Held(z) \in Int /\ Held(z)' >= Held(z)

LEMMA HeldPreserves ==
  ASSUME BufferCovered, NEW z \in Zones, HeldStep(z)
  PROVE  BufferCovered'
<1>1. ASSUME NEW y \in Zones PROVE Held(y)' >= WbSize
  <2>1. Held(y) >= WbSize
    BY DEF BufferCovered, Held
  <2>2. CASE y = z /\ Held(z)' # Held(z)
    <3>1. Held(z)' \in Int /\ Held(z) \in Int /\ Held(z)' >= Held(z) /\ WbSize \in Int
      BY <2>2, ZnsAssumption DEF HeldStep
    <3> HIDE DEF Held
    <3> QED BY <2>1, <2>2, <3>1
  <2>3. CASE y # z
    <3>1. Held(y)' = Held(y)
      BY <2>3 DEF HeldStep, Held
    <3> QED BY <2>1, <3>1
  <2>4. CASE y = z /\ Held(z)' = Held(z)
    BY <2>1, <2>4
  <2> QED BY <2>2, <2>3, <2>4
<1> QED BY <1>1 DEF BufferCovered, Held

LEMMA HeldUnchanged ==
  ASSUME NEW z \in Zones, UNCHANGED <<wb, wbOut, spilt, zrwav, wp>>
  PROVE  HeldStep(z)
BY DEF HeldStep, Held

LEMMA WriteHeld ==
  ASSUME ZoneInv, NEW z \in Zones, NEW off \in 0 .. Cap,
         NEW n \in 1 .. MaxLen, DoWrite(z, off, n)
  PROVE  HeldStep(z)
<1>1. /\ n \in Nat \ {0} /\ Cap \in Nat \ {0} /\ off \in Nat
      /\ wb \in [Zones -> Nat] /\ wbOut \in [Zones -> Nat] /\ spilt \in [Zones -> Nat]
      /\ wp \in [Zones -> 0 .. Cap] /\ wp[z] \in Nat
  BY ZnsAssumption DEF ZoneInv, TypeOK
<1>2. wb' = [wb EXCEPT ![z] = @ - n] /\ zrwav' = zrwav /\ ~zrwav[z] /\ zrwav'[z] = zrwav[z]
  BY DEF DoWrite
<1>3. CASE WriteError(z, off, n) = "SUCCESS"
  <2>1. SameZone(off, n) /\ off = wp[z] /\ state[z] # "FULL"
    BY <1>3 DEF WriteError
  <2>2. wp[z] < Cap
    <3>1. state[z] \in Active \cup {"EMPTY"}
      BY <2>1 DEF ZoneInv, TypeOK, States
    <3> QED BY <1>1, <3>1 DEF ZoneInv, WpMatchesState
  <2>3. off + n <= Cap
    BY <1>1, <2>1, <2>2 DEF SameZone
  <2>4. /\ wp' = [wp EXCEPT ![z] = @ + n] /\ spilt' = spilt
        /\ wbOut' = [wbOut EXCEPT ![z] = @ + ReleasedBy(off, n)]
    BY <1>3 DEF DoWrite, OpenAndAdvance
  <2>5. Unprogrammed(off) + n <= ReleasedBy(off, n) + Unprogrammed(off + n)
    BY <1>1, <2>3, WriteReleases
  <2>6. /\ ReleasedBy(off, n) \in Nat /\ Unprogrammed(off) \in Nat
        /\ Unprogrammed(off + n) \in Nat
    <3>1. off + n \in Nat /\ n \in Nat
      BY <1>1
    <3> QED BY <1>1, <3>1, BufferTypes
  <2>7. /\ wb'[z] = wb[z] - n /\ wbOut'[z] = wbOut[z] + ReleasedBy(off, n)
        /\ spilt'[z] = spilt[z] /\ wp'[z] = off + n
        /\ wb[z] \in Nat /\ wbOut[z] \in Nat /\ spilt[z] \in Nat
    BY <1>1, <1>2, <2>1, <2>4
  <2>8. /\ Held(z) = wb[z] + wbOut[z] + spilt[z] + Unprogrammed(off)
        /\ Held(z)' = wb'[z] + wbOut'[z] + spilt'[z] + Unprogrammed(off + n)
    BY <1>2, <2>1, <2>7 DEF Held, Unprogrammed, Touched, EndsWordline
  <2>9. Held(z)' >= Held(z) /\ Held(z)' \in Int /\ Held(z) \in Int
    BY <1>1, <2>5, <2>6, <2>7, <2>8
  <2> QED BY <1>1, <1>2, <2>4, <2>9 DEF HeldStep
<1>4. CASE WriteError(z, off, n) # "SUCCESS"
  <2>1. spilt' = [spilt EXCEPT ![z] = @ + n] /\ wp' = wp /\ wbOut' = wbOut
    BY <1>4 DEF DoWrite
  <2>2. Unprogrammed(wp[z]) \in Nat
    BY <1>1, BufferTypes
  <2>3. /\ wb'[z] = wb[z] - n /\ spilt'[z] = spilt[z] + n
        /\ wb[z] \in Nat /\ wbOut[z] \in Nat /\ spilt[z] \in Nat
    BY <1>1, <1>2, <2>1
  <2>4. Held(z)' = Held(z)
    <3>1. /\ Held(z) = wb[z] + wbOut[z] + spilt[z] + Unprogrammed(wp[z])
          /\ Held(z)' = wb'[z] + wbOut[z] + spilt'[z] + Unprogrammed(wp[z])
      BY <1>2, <2>1 DEF Held, Unprogrammed, Touched, EndsWordline
    <3> QED BY <1>1, <2>2, <2>3, <3>1
  <2> QED BY <1>1, <1>2, <2>1, <2>4 DEF HeldStep
<1> QED BY <1>3, <1>4

LEMMA ZrwaWriteHeld ==
  ASSUME ZoneInv, NEW z \in Zones, NEW off, NEW n, ZnsWriteZrwa(z, off, n)
  PROVE  HeldStep(z)
<1>1. /\ zrwav[z] /\ zrwav' = zrwav /\ wb' = wb /\ wbOut' = wbOut /\ spilt' = spilt
      /\ wp \in [Zones -> 0 .. Cap]
  BY DEF ZnsWriteZrwa, ZoneInv, TypeOK
<1>2. \A y \in Zones \ {z} : wp'[y] = wp[y]
  BY <1>1 DEF ZnsWriteZrwa, OpenAndAdvance
<1>3. Held(z)' = Held(z)
  BY <1>1 DEF Held
<1> QED BY <1>1, <1>2, <1>3 DEF HeldStep

LEMMA ZmgmtHeld ==
  ASSUME ZoneInv, NEW z \in Zones, NEW act \in Actions, NEW opt \in BOOLEAN,
         NEW off, ZmgmtSend(z, act, opt, off)
  PROVE  HeldStep(z)
<1>1. /\ wp \in [Zones -> 0 .. Cap] /\ zrwav \in [Zones -> BOOLEAN] /\ wp[z] \in Nat
      /\ wb \in [Zones -> Nat] /\ wbOut \in [Zones -> Nat] /\ spilt \in [Zones -> Nat]
      /\ Cap \in Nat \ {0}
  BY ZnsAssumption DEF ZoneInv, TypeOK
<1>2. Unprogrammed(0) = 0
  <2>1. WlBlocks \in Nat \ {0}
    BY ZnsAssumption DEF WlBlocks
  <2> QED BY <1>1, <2>1 DEF Unprogrammed
<1>3. CASE act = "CLOSE"
  BY <1>3, HeldUnchanged DEF ZmgmtSend, CloseZone, bufVars
<1>4. CASE act = "FINISH"
  BY <1>4, HeldUnchanged DEF ZmgmtSend, FinishZone, bufVars
<1>5. CASE act = "OPEN"
  <2>1. OpenZone(z, opt)
    BY <1>5 DEF ZmgmtSend
  <2>2. wp' = wp /\ wb' = wb /\ wbOut' = wbOut /\ spilt' = spilt
    BY <2>1 DEF OpenZone, bufVars
  <2>3. /\ \A y \in Zones \ {z} : zrwav'[y] = zrwav[y]
        /\ zrwav'[z] # zrwav[z] => state[z] = "EMPTY"
    <3>1. zrwav' = [zrwav EXCEPT ![z] = @ \/ (/\ OpenError(z, opt) = "SUCCESS"
                                                 /\ state[z] = "EMPTY" /\ opt)]
      BY <2>1 DEF OpenZone
    <3> QED BY <1>1, <3>1, Zenon
  <2>4. Held(z)' = Held(z)
    <3>1. CASE zrwav'[z] = zrwav[z]
      BY <2>2, <3>1 DEF Held
    <3>2. CASE zrwav'[z] # zrwav[z]
      <4>1. wp[z] = 0 /\ wp'[z] = 0
        BY <2>2, <2>3, <3>2 DEF ZoneInv, WpMatchesState
      <4> QED BY <1>2, <2>2, <4>1 DEF Held, Unprogrammed, Touched, EndsWordline
    <3> QED BY <3>1, <3>2
  <2> QED BY <2>2, <2>3, <2>4 DEF HeldStep
<1>6. CASE act = "RESET"
  <2>1. ResetZone(z)
    BY <1>6 DEF ZmgmtSend
  <2>2. /\ wp' = [wp EXCEPT ![z] = 0] /\ zrwav' = [zrwav EXCEPT ![z] = FALSE]
        /\ spilt' = [spilt EXCEPT ![z] = IF zrwav[z] THEN @ ELSE @ + Unprogrammed(wp[z])]
        /\ wb' = wb /\ wbOut' = wbOut
    BY <2>1 DEF ResetZone
  <2>3. wp'[z] = 0 /\ ~zrwav'[z]
    BY <1>1, <2>2
  <2>4. spilt'[z] = spilt[z] + (IF zrwav[z] THEN 0 ELSE Unprogrammed(wp[z]))
    BY <1>1, <2>2
  <2>5. Unprogrammed(wp[z]) \in Nat /\ wb[z] \in Nat /\ wbOut[z] \in Nat /\ spilt[z] \in Nat
    BY <1>1, BufferTypes
  <2>6. Held(z)' = wb[z] + wbOut[z] + spilt'[z]
    <3>1. Held(z)' = wb[z] + wbOut[z] + spilt'[z] + 0
      BY <1>2, <2>2, <2>3 DEF Held, Unprogrammed, Touched, EndsWordline
    <3> QED BY <2>4, <2>5, <3>1
  <2>7. Held(z)' = Held(z)
    BY <2>4, <2>5, <2>6 DEF Held
  <2> QED BY <1>1, <2>2, <2>7 DEF HeldStep
<1>7. CASE act = "OFFLINE"
  BY <1>7, HeldUnchanged DEF ZmgmtSend, OfflineZone, zoneVars, bufVars
<1>8. CASE act = "FLUSH_ZRWA"
  <2>1. FlushZrwa(z, off)
    BY <1>8 DEF ZmgmtSend
  <2>2. /\ wp' = [wp EXCEPT ![z] = IF FlushError(z, off) = "SUCCESS" THEN off + 1 ELSE @]
        /\ zrwav' = zrwav /\ wb' = wb /\ wbOut' = wbOut /\ spilt' = spilt
    BY <2>1 DEF FlushZrwa, bufVars
  <2>3. CASE zrwav[z]
    BY <1>1, <2>2, <2>3 DEF HeldStep, Held
  <2>4. CASE ~zrwav[z]
    <3>1. FlushError(z, off) # "SUCCESS"
      BY <2>4 DEF FlushError
    <3>2. wp' = wp
      BY <1>1, <2>2, <3>1
    <3> QED BY <2>2, <3>2, HeldUnchanged
  <2> QED BY <2>3, <2>4
<1> QED BY <1>3, <1>4, <1>5, <1>6, <1>7, <1>8 DEF Actions

\* Every step moves blocks within the sum of one zone.
LEMMA StepHeld ==
  ASSUME ZoneInv, Next
  PROVE  \E z \in Zones : HeldStep(z)
<1> USE ZnsAssumption
<1>1. /\ sweep \in [zid : Zones, act : Actions, opt : BOOLEAN] \cup {NoSweep}
      /\ wp \in [Zones -> 0 .. Cap] /\ wb \in [Zones -> Nat] /\ wbOut \in [Zones -> Nat]
      /\ spilt \in [Zones -> Nat]
  BY DEF ZoneInv, TypeOK
<1>2. ASSUME NEW z \in Zones, Command(z)
      PROVE  HeldStep(z)
  <2>1. ASSUME NEW off \in 0 .. Cap - 1, NEW n \in 1 .. MaxLen, ZnsWrite(z, off, n)
        PROVE  HeldStep(z)
    <3>1. DoWrite(z, off, n) /\ off \in 0 .. Cap
      BY <2>1 DEF ZnsWrite
    <3> QED BY <3>1, WriteHeld
  <2>2. ASSUME NEW off \in 0 .. Cap - 1, NEW n \in 1 .. MaxLen, ZnsWriteZrwa(z, off, n)
        PROVE  HeldStep(z)
    BY <2>2, ZrwaWriteHeld
  <2>3. ASSUME NEW n \in 1 .. MaxLen, ZnsAppend(z, n)
        PROVE  HeldStep(z)
    <3>1. DoWrite(z, wp[z], n) /\ wp[z] \in 0 .. Cap
      BY <1>1, <2>3 DEF ZnsAppend
    <3> QED BY <3>1, WriteHeld
  <2>4. ASSUME NEW act \in Actions, NEW opt \in Options(act), NEW off, Manage(z, act, opt, off)
        PROVE  HeldStep(z)
    BY <2>4, OptionsBoolean, ZmgmtHeld DEF Manage
  <2>5. FALSE \in Options("FLUSH_ZRWA") /\ "FLUSH_ZRWA" \in Actions
    BY DEF Options, Actions
  <2> QED BY <1>2, <2>1, <2>2, <2>3, <2>4, <2>5 DEF Command
<1>3. ASSUME NEW z \in Zones, NEW act \in Actions, NEW opt \in BOOLEAN, SweepZone(z, act, opt)
      PROVE  HeldStep(z)
  BY <1>3, ZmgmtHeld DEF SweepZone
<1>4. CASE \E z \in Zones : Command(z)
  BY <1>2, <1>4
<1>5. CASE \E act \in Actions : \E opt \in Options(act) : SelectAll(act, opt)
  <2>1. PICK act \in Actions : \E opt \in Options(act) : SelectAll(act, opt)
    BY <1>5
  <2>2. PICK opt \in Options(act) : SelectAll(act, opt)
    BY <2>1
  <2>3. opt \in BOOLEAN
    BY OptionsBoolean
  <2>4. 0 \in Zones
    BY DEF Zones
  <2> QED BY <1>3, <2>2, <2>3, <2>4 DEF SelectAll
<1>6. CASE SelectNext
  <2>1. sweep.zid \in Zones /\ sweep.act \in Actions /\ sweep.opt \in BOOLEAN
    BY <1>1, <1>6 DEF SelectNext, Sweeping
  <2> QED BY <1>3, <1>6, <2>1 DEF SelectNext
<1>7. ASSUME NEW z \in Zones, Release(z) PROVE HeldStep(z)
  <2>1. spilt' = spilt /\ wp' = wp /\ zrwav' = zrwav
    BY <1>7 DEF Release, zoneVars
  <2>2. /\ wb'[z] + wbOut'[z] = wb[z] + wbOut[z]
        /\ \A y \in Zones \ {z} : wb'[y] = wb[y] /\ wbOut'[y] = wbOut[y]
    BY <1>1, <1>7 DEF Release
  <2>3. Held(z)' = Held(z)
    BY <2>1, <2>2 DEF Held, Unprogrammed, Touched, EndsWordline
  <2> QED BY <2>1, <2>2, <2>3 DEF HeldStep
<1> QED BY <1>4, <1>5, <1>6, <1>7 DEF Next

LEMMA BufferStart == Init => BufferCovered
<1> SUFFICES ASSUME Init, NEW z \in Zones
             PROVE  wb[z] + wbOut[z] + spilt[z]
                      + (IF zrwav[z] THEN 0 ELSE Unprogrammed(wp[z])) >= WbSize
  BY DEF BufferCovered
<1>1. WlBlocks \in Nat \ {0} /\ Cap # 0 /\ WbSize \in Nat
  BY ZnsAssumption DEF WlBlocks
<1>2. Unprogrammed(0) = 0
  BY <1>1 DEF Unprogrammed
<1> QED BY <1>1, <1>2 DEF Init

LEMMA BufferStep ==
  ASSUME BufferCovered, ZoneInv, [Next]_vars
  PROVE  BufferCovered'
<1>1. CASE Next
  <2>1. PICK z \in Zones : HeldStep(z)
    BY <1>1, StepHeld
  <2> QED BY <2>1, HeldPreserves
<1>2. CASE UNCHANGED vars
  BY <1>2 DEF vars, zoneVars, bufVars, BufferCovered, Unprogrammed, Touched, EndsWordline
<1> QED BY <1>1, <1>2

(***************************************************************************)
(* No block of a zone's write buffer is lost unaccounted, for pages and    *)
(* wordlines of any size: what a write takes comes back with its wordline, *)
(* the short last one of a zone included, except for what a failed write   *)
(* or a reset throws away.                                                 *)
(***************************************************************************)
THEOREM BuffersCovered == Spec => []BufferCovered
<1>1. BufferCovered /\ ZoneInv /\ [Next]_vars => BufferCovered'
  BY BufferStep
<1> QED BY <1>1, BufferStart, ZoneInvariant, PTL DEF Spec

-----------------------------------------------------------------------------
(***************************************************************************)
(* ZnsSnapshot: whatever is written, reset, saved, loaded and inserted     *)
(* again, in whatever order and wherever a file is cut off, a device that  *)
(* was loaded as a whole is one that the commands could have led to, it    *)
(* holds what was written before the save, and nothing that a careful host *)
(* has written is lost.                                                    *)
(*                                                                         *)
(* A file is a device at rest: what the invariant says of the running      *)
(* device, FileInv and FileData say of the file.  A save carries the one   *)
(* over to the other and a load of a whole file carries it back.           *)
(***************************************************************************)
\* The zones of a device that is used without ZRWA.
DeviceInv ==
  /\ ZoneInv
  /\ BufferCovered
  /\ zrwav = [z \in Zones |-> FALSE]

\* What no load touches.
RestInv ==
  /\ wbOut \in [Zones -> Nat] /\ zbOut \in [Zones -> Nat] /\ zb \in [Zones -> Nat]
  /\ sweep \in [zid : Zones, act : Actions, opt : BOOLEAN] \cup {NoSweep}
  /\ sweep.opt = FALSE
  /\ panic = FALSE

FileInv(f) ==
  /\ f.cut[1] \in 0 .. 6
  /\ f.state \in [Zones -> States]
  /\ f.wp \in [Zones -> 0 .. Cap]
  /\ f.zrwav = [z \in Zones |-> FALSE]
  /\ f.open \in 0 .. NrZones /\ f.active \in 0 .. NrZones /\ f.zrwa \in 0 .. NrZones
  /\ f.wb \in [Zones -> Nat] /\ f.spilt \in [Zones -> Nat]
  /\ f.open = Cardinality({z \in Zones : f.state[z] \in Opened})
  /\ f.active = Cardinality({z \in Zones : f.state[z] \in Active})
  /\ \A z \in Zones : /\ f.state[z] = "EMPTY" => f.wp[z] = 0
                      /\ f.state[z] \in Active => f.wp[z] < Cap
                      /\ f.wb[z] + f.spilt[z] + Unprogrammed(f.wp[z]) >= WbSize

\* The inductive invariant of the zones, on the device and on file.
SnapInv ==
  /\ RestInv
  /\ ~damaged => DeviceInv
  /\ file # NoFile => FileInv(file)

-----------------------------------------------------------------------------
\* What a step of the host or of a worker does to the zones is a step of ZnsFtl.
LEMMA FtlStep ==
  ASSUME panic = FALSE, HostCommand \/ Background
  PROVE  [Next]_vars /\ file' = file /\ damaged' = damaged
<1>1. ASSUME NEW z \in Zones, NEW off \in 0 .. Cap - 1, NEW n \in 1 .. MaxLen,
             HostWrite(z, off, n)
      PROVE  Next /\ file' = file /\ damaged' = damaged
  <2>1. ZnsWrite(z, off, n) \/ ZnsAppend(z, n)
    BY <1>1 DEF HostWrite
  <2>2. Command(z)
    BY <2>1 DEF Command
  <2> QED BY <1>1, <2>2 DEF Next, HostWrite, Queue
<1>2. ASSUME NEW act \in Actions \ {"FLUSH_ZRWA"}, Management(act)
      PROVE  Next /\ file' = file /\ damaged' = damaged
  <2>1. FALSE \in Options(act)
    BY DEF Options
  <2>2. CASE \E z \in Zones : Manage(z, act, FALSE, 0) /\ ManageData(z, act)
    <3>1. PICK z \in Zones : Manage(z, act, FALSE, 0) /\ ManageData(z, act)
      BY <2>2
    <3>2. Command(z)
      BY <2>1, <3>1 DEF Command
    <3> QED BY <3>1, <3>2 DEF Next, ManageData
  <2>3. CASE SelectAll(act, FALSE) /\ ManageData(0, act)
    BY <2>1, <2>3 DEF Next, ManageData
  <2>4. CASE SelectNext /\ ManageData(sweep.zid, act)
    BY <2>4 DEF Next, ManageData
  <2> QED BY <1>2, <2>2, <2>3, <2>4 DEF Management
<1>3. ASSUME Background PROVE [Next]_vars /\ file' = file /\ damaged' = damaged
  BY <1>3 DEF Background, Next, Copy, snapVars
<1> QED BY <1>1, <1>2, <1>3 DEF HostCommand

\* No command but an open with the ZRWA option gives a zone a ZRWA.
LEMMA NoZrwaGiven ==
  ASSUME DeviceInv, NEW z \in Zones, NEW act \in Actions, NEW off,
         ZmgmtSend(z, act, FALSE, off)
  PROVE  zrwav' = [y \in Zones |-> FALSE]
<1>1. zrwav = [y \in Zones |-> FALSE]
  BY DEF DeviceInv
<1>2. CASE act = "OPEN"
  <2>1. zrwav' = [zrwav EXCEPT ![z] = @ \/ (/\ OpenError(z, FALSE) = "SUCCESS"
                                               /\ state[z] = "EMPTY" /\ FALSE)]
    BY <1>2 DEF ZmgmtSend, OpenZone
  <2> QED BY <1>1, <2>1
<1>3. CASE act = "RESET"
  <2>1. zrwav' = [zrwav EXCEPT ![z] = FALSE]
    BY <1>3 DEF ZmgmtSend, ResetZone
  <2> QED BY <1>1, <2>1
<1>4. CASE act \notin {"OPEN", "RESET"}
  <2>1. zrwav' = zrwav
    BY <1>4 DEF ZmgmtSend, Actions, CloseZone, FinishZone, OfflineZone, FlushZrwa, zoneVars
  <2> QED BY <1>1, <2>1
<1> QED BY <1>2, <1>3, <1>4

LEMMA DeviceStep ==
  ASSUME RestInv, DeviceInv, HostCommand \/ Background
  PROVE  RestInv' /\ DeviceInv'
<1>1. [Next]_vars
  BY FtlStep DEF RestInv
<1>2. ZoneInv' /\ BufferCovered'
  BY <1>1, ZoneInvStep, BufferStep DEF DeviceInv
<1> DEFINE Kept == /\ zrwav' = [z \in Zones |-> FALSE]
                   /\ sweep'.opt = FALSE
                   /\ panic' = FALSE
<1>3. ASSUME NEW z \in Zones, NEW off \in 0 .. Cap - 1, NEW n \in 1 .. MaxLen,
             HostWrite(z, off, n)
      PROVE  Kept
  BY <1>3 DEF HostWrite, ZnsWrite, ZnsAppend, DoWrite, DeviceInv, RestInv
<1>4. ASSUME NEW act \in Actions, NEW z \in Zones, SweepZone(z, act, FALSE)
      PROVE  Kept
  <2>1. zrwav' = [y \in Zones |-> FALSE]
    BY <1>4, NoZrwaGiven DEF SweepZone
  <2>2. sweep'.opt = FALSE
    BY <1>4 DEF SweepZone, NoSweep
  <2> QED BY <1>4, <2>1, <2>2 DEF SweepZone, RestInv
<1>5. ASSUME NEW act \in Actions \ {"FLUSH_ZRWA"}, Management(act)
      PROVE  Kept
  <2>1. CASE \E z \in Zones : Manage(z, act, FALSE, 0) /\ ManageData(z, act)
    <3>1. PICK z \in Zones : Manage(z, act, FALSE, 0)
      BY <2>1
    <3>2. zrwav' = [y \in Zones |-> FALSE]
      BY <3>1, NoZrwaGiven DEF Manage
    <3> QED BY <3>1, <3>2 DEF Manage, RestInv
  <2>2. CASE SelectAll(act, FALSE)
    <3>1. 0 \in Zones
      BY ZnsAssumption DEF Zones
    <3> QED BY <1>4, <2>2, <3>1 DEF SelectAll
  <2>3. CASE SelectNext
    <3>1. /\ sweep.zid \in Zones /\ sweep.act \in Actions /\ sweep.opt = FALSE
          /\ SweepZone(sweep.zid, sweep.act, sweep.opt)
      BY <2>3 DEF SelectNext, Sweeping, RestInv
    <3>2. SweepZone(sweep.zid, sweep.act, FALSE)
      BY <3>1
    <3> QED BY <1>4, <3>1, <3>2
  <2> QED BY <1>5, <2>1, <2>2, <2>3 DEF Management
<1>6. ASSUME Background PROVE Kept
  BY <1>6 DEF Background, Release, Copy, vars, zoneVars, DeviceInv, RestInv
<1>7. Kept
  BY <1>3, <1>5, <1>6 DEF HostCommand
<1> QED BY <1>2, <1>7 DEF DeviceInv, RestInv, ZoneInv, TypeOK

\* Zones without ZRWA are covered by any ZRWA count.
LEMMA CoveredWithoutZrwa ==
  ASSUME zrwav' = [z \in Zones |-> FALSE], zrwa' \in Nat
  PROVE  ZrwaCovered'
<1>1. ZrwaZones' = {}
  BY DEF ZrwaZones, InState
<1>2. Cardinality(ZrwaZones') = 0
  BY <1>1, FS_EmptySet, Zenon
<1> QED BY <1>2 DEF ZrwaCovered

\* Everything is before a cut behind the data.
LEMMA WholeFile ==
  ASSUME file.cut[1] \in 0 .. 6, ~Before(file.cut, Sentinel)
  PROVE  \A i \in 0 .. 4 : \A j, k : Saved(<<i, j, k>>)
<1>1. file.cut[1] >= 5
  BY DEF Before, Sentinel
<1> QED BY <1>1 DEF Saved, Before

\* A load of a whole file puts the device on file into the place of the
\* running one.
LEMMA LoadedZones ==
  ASSUME RestInv, FileInv(file), Idle, LoadFile, ~damaged'
  PROVE  DeviceInv'
<1>1. /\ state' = [z \in Zones |-> file.state[z]] /\ wp' = [z \in Zones |-> file.wp[z]]
      /\ zrwav' = [z \in Zones |-> file.zrwav[z]]
      /\ open' = file.open /\ active' = file.active /\ zrwa' = file.zrwa
      /\ wb' = [z \in Zones |-> file.wb[z]] /\ spilt' = [z \in Zones |-> file.spilt[z]]
  <2>1. \A i \in 0 .. 4 : \A j, k : Saved(<<i, j, k>>)
    BY WholeFile DEF LoadFile, FileInv
  <2>2. \A z \in Zones : Saved(StateAt(z)) /\ Saved(WpAt(z)) /\ Saved(BufAt(z))
    BY <2>1 DEF StateAt, WpAt, BufAt
  <2>3. Saved(ActiveAt) /\ Saved(OpenAt) /\ Saved(ZrwaAt)
    BY <2>1 DEF ActiveAt, OpenAt, ZrwaAt
  <2>4. RestoreZones
    BY DEF LoadFile
  <2>5. /\ state' = [z \in Zones |-> IF Saved(StateAt(z)) THEN file.state[z] ELSE state[z]]
        /\ zrwav' = [z \in Zones |-> IF Saved(StateAt(z)) THEN file.zrwav[z] ELSE zrwav[z]]
        /\ wp' = [z \in Zones |-> IF Saved(WpAt(z)) THEN file.wp[z] ELSE wp[z]]
    BY <2>4 DEF RestoreZones
  <2>6. /\ wb' = [z \in Zones |-> IF Saved(BufAt(z)) THEN file.wb[z] ELSE 0]
        /\ spilt' = [z \in Zones |-> IF Saved(BufAt(z)) THEN file.spilt[z] ELSE spilt[z]]
    BY <2>4 DEF RestoreZones
  <2>7. open' = file.open /\ active' = file.active /\ zrwa' = file.zrwa
    BY <2>3, <2>4 DEF RestoreZones
  <2> HIDE DEF Saved, StateAt, WpAt, BufAt
  <2> QED BY <2>2, <2>5, <2>6, <2>7, Zenon
<1>2. zrwav' = [z \in Zones |-> FALSE]
  BY <1>1 DEF FileInv
<1>3. /\ state' = file.state /\ wp' = file.wp /\ wb' = file.wb /\ spilt' = file.spilt
      /\ wbOut' = wbOut /\ zbOut' = zbOut /\ zb' = zb /\ sweep' = sweep /\ panic' = panic
  BY <1>1 DEF FileInv, LoadFile
<1>4. TypeOK'
  <2>1. zrwav' \in [Zones -> BOOLEAN]
    BY <1>2
  <2>2. /\ state' \in [Zones -> States] /\ wp' \in [Zones -> 0 .. Cap]
        /\ open' \in 0 .. NrZones /\ active' \in 0 .. NrZones /\ zrwa' \in 0 .. NrZones
        /\ wb' \in [Zones -> Nat] /\ spilt' \in [Zones -> Nat]
    BY <1>1, <1>3 DEF FileInv
  <2>3. /\ wbOut' \in [Zones -> Nat] /\ zbOut' \in [Zones -> Nat] /\ zb' \in [Zones -> Nat]
        /\ sweep' \in [zid : Zones, act : Actions, opt : BOOLEAN] \cup {NoSweep}
        /\ panic' \in BOOLEAN
    BY <1>3 DEF RestInv
  <2> QED BY <2>1, <2>2, <2>3 DEF TypeOK
<1>5. ResourcesCounted'
  BY <1>1, <1>3 DEF FileInv, ResourcesCounted, InState
<1>6. ZrwaCovered'
  BY <1>2, <1>4, CoveredWithoutZrwa, ZnsAssumption DEF TypeOK
<1>7. WpMatchesState'
  BY <1>2, <1>3 DEF FileInv, WpMatchesState
<1>8. BufferCovered'
  <2> SUFFICES ASSUME NEW z \in Zones
               PROVE  wb'[z] + wbOut'[z] + spilt'[z]
                        + (IF zrwav'[z] THEN 0 ELSE Unprogrammed(wp'[z])) >= WbSize
    BY DEF BufferCovered, Unprogrammed, Touched, EndsWordline
  <2>1. file.wb[z] + file.spilt[z] + Unprogrammed(file.wp[z]) >= WbSize
    BY DEF FileInv
  <2>2. wb'[z] \in Nat /\ spilt'[z] \in Nat /\ wp'[z] \in Nat /\ ~zrwav'[z] /\ wbOut'[z] = 0
    BY <1>2, <1>3, <1>4, ZnsAssumption DEF TypeOK, Idle
  <2>3. Unprogrammed(wp'[z]) \in Nat
    BY <2>2, BufferTypes
  <2> QED BY <1>3, <2>1, <2>2, <2>3
<1> QED BY <1>2, <1>4, <1>5, <1>6, <1>7, <1>8 DEF DeviceInv, ZoneInv

\* After the module was inserted again the device is as at the beginning.
LEMMA FreshZones ==
  ASSUME RestInv, Reinsert
  PROVE  DeviceInv' /\ RestInv'
<1>1. /\ state' = [z \in Zones |-> "EMPTY"] /\ wp' = [z \in Zones |-> 0]
      /\ zrwav' = [z \in Zones |-> FALSE]
      /\ open' = 0 /\ active' = 0 /\ zrwa' = 0
      /\ wb' = [z \in Zones |-> WbSize] /\ zb' = [z \in Zones |-> ZrwaBuf]
      /\ spilt' = [z \in Zones |-> 0]
      /\ wbOut' = wbOut /\ zbOut' = zbOut /\ sweep' = sweep /\ panic' = panic /\ Idle
  BY DEF Reinsert
<1>2. TypeOK'
  <2>1. zrwav' \in [Zones -> BOOLEAN]
    BY <1>1
  <2>2. /\ state' \in [Zones -> States] /\ wp' \in [Zones -> 0 .. Cap]
        /\ open' \in 0 .. NrZones /\ active' \in 0 .. NrZones /\ zrwa' \in 0 .. NrZones
        /\ wb' \in [Zones -> Nat] /\ zb' \in [Zones -> Nat] /\ spilt' \in [Zones -> Nat]
    BY <1>1, ZnsAssumption DEF States
  <2>3. /\ wbOut' \in [Zones -> Nat] /\ zbOut' \in [Zones -> Nat]
        /\ sweep' \in [zid : Zones, act : Actions, opt : BOOLEAN] \cup {NoSweep}
        /\ panic' \in BOOLEAN
    BY <1>1 DEF RestInv
  <2> QED BY <2>1, <2>2, <2>3 DEF TypeOK
<1>3. ResourcesCounted'
  <2>1. InState(Opened)' = {} /\ InState(Active)' = {}
    BY <1>1 DEF InState, Active, Opened
  <2>2. Cardinality(InState(Opened)') = 0 /\ Cardinality(InState(Active)') = 0
    BY <2>1, FS_EmptySet, Zenon
  <2> QED BY <1>1, <2>2 DEF ResourcesCounted
<1>4. ZrwaCovered'
  BY <1>1, <1>2, CoveredWithoutZrwa
<1>5. WpMatchesState'
  BY <1>1 DEF WpMatchesState, Active, Opened
<1>6. BufferCovered'
  <2> SUFFICES ASSUME NEW z \in Zones
               PROVE  wb'[z] + wbOut'[z] + spilt'[z]
                        + (IF zrwav'[z] THEN 0 ELSE Unprogrammed(wp'[z])) >= WbSize
    BY DEF BufferCovered, Unprogrammed, Touched, EndsWordline
  <2>1. Unprogrammed(0) = 0
    BY ZnsAssumption DEF Unprogrammed, WlBlocks
  <2>2. wb'[z] = WbSize /\ spilt'[z] = 0 /\ wp'[z] = 0 /\ wbOut'[z] = 0
    BY <1>1 DEF Idle
  <2> QED BY <1>1, <2>1, <2>2, ZnsAssumption
<1> QED BY <1>1, <1>2, <1>3, <1>4, <1>5, <1>6 DEF DeviceInv, ZoneInv, RestInv, TypeOK

\* A save writes a device at rest.
LEMMA SavedZones ==
  ASSUME DeviceInv, NEW cut \in Items \cup {End}, Save(cut)
  PROVE  FileInv(file')
<1>1. /\ file'.state = state /\ file'.wp = wp /\ file'.zrwav = zrwav
      /\ file'.open = open /\ file'.active = active /\ file'.zrwa = zrwa
      /\ file'.wb = wb /\ file'.spilt = spilt /\ file'.cut = cut /\ Idle
  BY DEF Save
<1>2. cut[1] \in 0 .. 6
  <2>1. CASE cut \in {Header, ActiveAt, OpenAt, ZrwaAt, Sentinel, End}
    BY <2>1 DEF Header, ActiveAt, OpenAt, ZrwaAt, Sentinel, End
  <2>2. CASE \E z \in Zones : cut \in {StateAt(z), WpAt(z), BufAt(z), ZidAt(z), LenAt(z)}
    BY <2>2 DEF StateAt, WpAt, BufAt, ZidAt, LenAt
  <2>3. CASE \E z, off : cut = DataAt(z, off)
    BY <2>3 DEF DataAt
  <2>4. \/ cut \in {Header, ActiveAt, OpenAt, ZrwaAt, Sentinel, End}
        \/ \E z \in Zones : cut \in {StateAt(z), WpAt(z), BufAt(z), ZidAt(z), LenAt(z)}
        \/ \E z, off : cut = DataAt(z, off)
    BY DEF Items, ZonesWithData
  <2> QED BY <2>1, <2>2, <2>3, <2>4
<1>3. ASSUME NEW z \in Zones
      PROVE  wb[z] + spilt[z] + Unprogrammed(wp[z]) >= WbSize
  <2>1. wb[z] \in Nat /\ spilt[z] \in Nat /\ wp[z] \in Nat /\ ~zrwav[z] /\ wbOut[z] = 0
    BY <1>1, ZnsAssumption DEF DeviceInv, ZoneInv, TypeOK, Idle
  <2>2. Unprogrammed(wp[z]) \in Nat
    BY <2>1, BufferTypes
  <2>3. wb[z] + wbOut[z] + spilt[z] + (IF zrwav[z] THEN 0 ELSE Unprogrammed(wp[z])) >= WbSize
    BY DEF DeviceInv, BufferCovered
  <2> QED BY <2>1, <2>2, <2>3
<1>4. /\ state \in [Zones -> States] /\ wp \in [Zones -> 0 .. Cap]
      /\ zrwav = [z \in Zones |-> FALSE]
      /\ open \in 0 .. NrZones /\ active \in 0 .. NrZones /\ zrwa \in 0 .. NrZones
      /\ wb \in [Zones -> Nat] /\ spilt \in [Zones -> Nat]
  BY DEF DeviceInv, ZoneInv, TypeOK
<1>5. /\ open = Cardinality({z \in Zones : state[z] \in Opened})
      /\ active = Cardinality({z \in Zones : state[z] \in Active})
      /\ \A z \in Zones : /\ state[z] = "EMPTY" => wp[z] = 0
                          /\ state[z] \in Active => wp[z] < Cap
  BY DEF DeviceInv, ZoneInv, ResourcesCounted, InState, WpMatchesState
<1> QED BY <1>1, <1>2, <1>3, <1>4, <1>5 DEF FileInv

\* No file is loaded that is not there, and a load leaves the rest alone.
LEMMA LoadKeepsRest ==
  ASSUME RestInv, Load
  PROVE  RestInv'
<1>1. UNCHANGED <<zb, wbOut, zbOut, sweep, panic>>
  BY DEF Load, LoadFile, LoadNoHeader, vars, bufVars
<1> QED BY <1>1 DEF RestInv

LEMMA SnapInvStep ==
  ASSUME SnapInv, [SnapNext]_<<vars, snapVars>>
  PROVE  SnapInv'
<1>1. CASE ~damaged /\ (HostCommand \/ Background)
  <2>1. file' = file /\ damaged' = damaged /\ RestInv' /\ DeviceInv'
    BY <1>1, FtlStep, DeviceStep DEF SnapInv, RestInv
  <2> QED BY <1>1, <2>1 DEF SnapInv, FileInv, Unprogrammed, Touched, EndsWordline
<1>2. CASE ~damaged /\ SaveAny
  <2>1. PICK cut \in Items \cup {End} : Save(cut)
    BY <1>2 DEF SaveAny
  <2>2. UNCHANGED vars /\ damaged' = damaged
    BY <2>1 DEF Save
  <2>3. ZoneInv' /\ BufferCovered'
    BY <1>2, <2>2, ZoneInvStep, BufferStep DEF SnapInv, DeviceInv
  <2>4. DeviceInv' /\ RestInv'
    BY <1>2, <2>2, <2>3 DEF SnapInv, DeviceInv, RestInv, vars, zoneVars, bufVars
  <2>5. FileInv(file')
    BY <1>2, <2>1, SavedZones DEF SnapInv
  <2>6. FileInv(file)'
    BY <2>5 DEF FileInv, Unprogrammed, Touched, EndsWordline
  <2> QED BY <2>4, <2>6 DEF SnapInv
<1>3. CASE Load
  <2>1. RestInv' /\ file' = file /\ file # NoFile /\ FileInv(file) /\ Idle
    BY <1>3, LoadKeepsRest DEF SnapInv, Load
  <2>2. FileInv(file)'
    BY <2>1 DEF FileInv, Unprogrammed, Touched, EndsWordline
  <2>3. ASSUME ~damaged' PROVE DeviceInv'
    <3>1. CASE LoadFile
      BY <2>1, <2>3, <3>1, LoadedZones DEF SnapInv
    <3>2. CASE LoadNoHeader
      <4>1. UNCHANGED vars /\ damaged' = damaged
        BY <2>3, <3>2 DEF LoadNoHeader
      <4>2. ZoneInv' /\ BufferCovered'
        BY <2>3, <4>1, ZoneInvStep, BufferStep DEF SnapInv, DeviceInv
      <4> QED BY <2>3, <4>1, <4>2 DEF SnapInv, DeviceInv, vars, zoneVars
    <3> QED BY <1>3, <3>1, <3>2 DEF Load
  <2> QED BY <2>1, <2>2, <2>3 DEF SnapInv
<1>4. CASE Reinsert
  <2>1. DeviceInv' /\ RestInv' /\ file' = file
    BY <1>4, FreshZones DEF SnapInv, Reinsert
  <2> QED BY <2>1 DEF SnapInv, FileInv, Unprogrammed, Touched, EndsWordline
<1>5. CASE UNCHANGED <<vars, snapVars>>
  <2>1. ~damaged => ZoneInv' /\ BufferCovered'
    BY <1>5, ZoneInvStep, BufferStep DEF SnapInv, DeviceInv
  <2> QED BY <1>5, <2>1 DEF SnapInv, DeviceInv, RestInv, vars, zoneVars, bufVars, snapVars,
                            FileInv, Unprogrammed, Touched, EndsWordline
<1> QED BY <1>1, <1>2, <1>3, <1>4, <1>5 DEF SnapNext

LEMMA SnapInvariant == SnapSpec => []SnapInv
<1>1. SnapInit => SnapInv
  <2> SUFFICES ASSUME SnapInit PROVE SnapInv
    OBVIOUS
  <2>1. ZoneInv /\ BufferCovered
    BY InitZoneInv, BufferStart DEF SnapInit
  <2>2. RestInv
    BY <2>1 DEF SnapInit, Init, RestInv, NoSweep, ZoneInv, TypeOK
  <2> QED BY <2>1, <2>2 DEF SnapInit, Init, SnapInv, DeviceInv
<1> QED BY <1>1, SnapInvStep, PTL DEF SnapSpec

(***************************************************************************)
(* Through saves, loads and insertions the resource counts stay exact,     *)
(* write pointers agree with the zone states and no buffer space is lost:  *)
(* a device that load_zns_device restores from a whole file is one that    *)
(* the zone commands could have led to.                                    *)
(***************************************************************************)
THEOREM SnapshotsConsistent == SnapSpec => []Consistent
<1>1. SnapInv => Consistent
  BY DEF SnapInv, DeviceInv, ZoneInv, Consistent
<1> QED BY <1>1, SnapInvariant, PTL

-----------------------------------------------------------------------------
(***************************************************************************)
(* The data.                                                               *)
(***************************************************************************)
\* The blocks of the zones lie in storage, one zone behind the other.
LEMMA BlockPlace ==
  ASSUME NEW z \in Zones, NEW off \in 0 .. Cap - 1
  PROVE  /\ z * Cap \in Nat
         /\ Block(z, off) \in Storage
         /\ \A y \in Zones : Block(z, off) \in ZoneBlocks(y) => y = z
<1>1. z \in Nat /\ Cap \in Nat \ {0} /\ NrZones \in Nat \ {0} /\ z <= NrZones - 1 /\ off \in Nat
      /\ off <= Cap - 1
  BY ZnsAssumption DEF Zones
<1>2. z * Cap \in Nat
  BY <1>1
<1>3. (NrZones - 1) * Cap = NrZones * Cap - Cap /\ NrZones * Cap \in Nat
  BY <1>1
<1>4. Block(z, off) \in Storage
  <2>1. Cap * z <= Cap * (NrZones - 1)
    BY <1>1, MultipleOrder
  <2>2. Cap * z = z * Cap /\ Cap * (NrZones - 1) = (NrZones - 1) * Cap
    BY <1>1
  <2>3. z * Cap + off \in Nat /\ z * Cap + off <= NrZones * Cap - 1
    BY <1>1, <1>2, <1>3, <2>1, <2>2
  <2> QED BY <1>3, <2>3 DEF Block, Storage
<1>5. ASSUME NEW y \in Zones, Block(z, off) \in ZoneBlocks(y)
      PROVE  y = z
  <2>1. y \in Nat /\ y * Cap \in Nat
    BY <1>1 DEF Zones
  <2>2. y * Cap <= z * Cap + off /\ z * Cap + off <= y * Cap + Cap - 1
    BY <1>1, <1>2, <1>5, <2>1 DEF Block, ZoneBlocks, Extent
  <2>3. /\ y < z => Cap * y + Cap <= Cap * z
        /\ z < y => Cap * z + Cap <= Cap * y
    BY <1>1, <2>1, MultipleOrder
  <2>4. Cap * y = y * Cap /\ Cap * z = z * Cap
    BY <1>1, <2>1
  <2> QED BY <1>1, <1>2, <2>1, <2>2, <2>3, <2>4
<1> QED BY <1>2, <1>4, <1>5

\* The blocks of an extent.
LEMMA ExtentBlocks ==
  ASSUME NEW z \in Zones, NEW start \in Nat, NEW n \in Nat
  PROVE  /\ \A off \in Nat : start <= off /\ off < start + n
                               => Block(z, off) \in Extent(z, start, n)
         /\ \A b \in Extent(z, start, n) : \E off \in Nat :
               start <= off /\ off < start + n /\ b = Block(z, off)
<1>1. z * Cap \in Nat
  BY ZnsAssumption DEF Zones
<1>2. ASSUME NEW b \in Extent(z, start, n)
      PROVE  \E off \in Nat : start <= off /\ off < start + n /\ b = Block(z, off)
  <2>1. b \in Int /\ z * Cap + start <= b /\ b <= z * Cap + start + n - 1
    BY <1>1 DEF Extent, Block
  <2>2. b - z * Cap \in Nat /\ b = z * Cap + (b - z * Cap)
        /\ start <= b - z * Cap /\ b - z * Cap < start + n
    BY <1>1, <2>1
  <2> QED BY <2>2 DEF Block
<1> QED BY <1>1, <1>2 DEF Extent, Block

\* Every outstanding copy is the last write of its blocks, which lie below the
\* write pointer; a sweep of resets began when no copy was outstanding.
CopyInv ==
  \A e \in copies : \A b \in e.blocks :
    /\ e.v = want[b]
    /\ \E z \in Zones, off \in 0 .. Cap - 1 : off < wp[z] /\ b = Block(z, off)
    /\ ~(Sweeping /\ sweep.act = "RESET")

FileData(f) ==
  \A z \in Zones, off \in 0 .. Cap - 1 :
    off < f.wp[z] => f.data[Block(z, off)] = f.want[Block(z, off)]

\* The inductive invariant of the data, on the device and on file.
DataInv ==
  /\ WrittenHeld
  /\ ZonesRestored
  /\ ~damaged => CopyInv
  /\ loaded /\ ~damaged => want = file.want /\ copies = {}
  /\ file # NoFile => FileData(file)

\* Steps that leave the data and the write pointers alone.
LEMMA DataUnchanged ==
  ASSUME WrittenHeld, CopyInv, UNCHANGED <<wp, data, want, copies, damaged>>,
         Sweeping' /\ sweep'.act = "RESET" => copies = {}
  PROVE  WrittenHeld' /\ CopyInv'
BY DEF WrittenHeld, CopyInv, Block

\* An accepted write moves the write pointer over the blocks it will copy.
LEMMA HostWriteData ==
  ASSUME Careless = {}, DeviceInv, WrittenHeld, CopyInv, ~damaged,
         NEW z \in Zones, NEW off \in 0 .. Cap - 1,
         NEW n \in 1 .. MaxLen, HostWrite(z, off, n)
  PROVE  WrittenHeld' /\ CopyInv' /\ loaded' = FALSE /\ file' = file /\ damaged' = damaged
<1>1. /\ wp \in [Zones -> 0 .. Cap] /\ n \in Nat \ {0} /\ off \in Nat /\ Cap \in Nat \ {0}
      /\ wp[z] \in 0 .. Cap
  BY ZnsAssumption DEF DeviceInv, ZoneInv, TypeOK
<1>2. PICK at \in Nat : ~Sweeping /\ DoWrite(z, at, n) /\ Queue(z, at, n) /\ MaySend(z, at, n)
  BY <1>1 DEF HostWrite, ZnsWrite, ZnsAppend
<1>3. WriteError(z, at, n) = "SUCCESS"
  BY <1>2 DEF MaySend
<1>4. at = wp[z] /\ (at < Cap => at + n <= Cap) /\ state[z] # "FULL"
  BY <1>3 DEF WriteError, SameZone
<1>5. at < Cap /\ at + n <= Cap
  <2>1. CASE at = Cap
    <3>0. /\ state[z] = "EMPTY" => wp[z] = 0
          /\ state[z] \in Active => wp[z] < Cap
      BY DEF DeviceInv, ZoneInv, WpMatchesState
    <3>1. state[z] \notin Active /\ state[z] # "EMPTY"
      BY <1>1, <1>4, <2>1, <3>0
    <3>2. state[z] \in States
      BY DEF DeviceInv, ZoneInv, TypeOK
    <3> QED BY <1>4, <3>1, <3>2 DEF States
  <2> QED BY <1>1, <1>4, <2>1
<1>6. wp' = [wp EXCEPT ![z] = @ + n] /\ sweep' = sweep /\ ~Sweeping'
  BY <1>2, <1>3 DEF DoWrite, OpenAndAdvance, Sweeping
<1> DEFINE range == Extent(z, at, n)
           e     == [blocks |-> range, v |-> stamp + 1]
<1>7. /\ copies' = copies \cup {e} /\ data' = data /\ file' = file /\ damaged' = damaged
      /\ loaded' = FALSE
      /\ want' = [b \in Storage |-> IF b \in range THEN stamp + 1 ELSE want[b]]
  BY <1>2, <1>3 DEF Queue
<1>8. /\ \A o \in Nat : at <= o /\ o < at + n => Block(z, o) \in range
      /\ \A b \in range : \E o \in Nat : at <= o /\ o < at + n /\ b = Block(z, o)
  BY <1>1, <1>2, ExtentBlocks
<1>9. ASSUME NEW y \in Zones, NEW o \in 0 .. Cap - 1, o < wp[y]
      PROVE  Block(y, o) \notin range
  <2>1. SUFFICES ASSUME Block(y, o) \in range PROVE FALSE
    OBVIOUS
  <2>2. PICK p \in Nat : at <= p /\ p < at + n /\ Block(y, o) = Block(z, p)
    BY <1>8, <2>1
  <2>3. p \in 0 .. Cap - 1
    BY <1>1, <1>5, <2>2
  <2>4. Block(z, p) \in ZoneBlocks(z) /\ z * Cap \in Nat
    BY <1>1, <2>3, BlockPlace DEF ZoneBlocks, Extent, Block
  <2>5. y = z
    BY <2>2, <2>4, BlockPlace
  <2>6. o = p
    BY <1>1, <2>2, <2>3, <2>4, <2>5 DEF Block
  <2> QED BY <1>1, <1>4, <1>9, <2>2, <2>5, <2>6
<1>10. WrittenHeld'
  <2> SUFFICES ASSUME NEW y \in Zones, NEW o \in 0 .. Cap - 1, o < wp'[y]
               PROVE  \/ data'[Block(y, o)] = want'[Block(y, o)]
                      \/ \E f \in copies' : Block(y, o) \in f.blocks /\ f.v = want'[Block(y, o)]
    BY DEF WrittenHeld, Block
  <2>1. Block(y, o) \in Storage
    BY BlockPlace
  <2>2. CASE o < wp[y]
    <3>1. want'[Block(y, o)] = want[Block(y, o)]
      BY <1>7, <1>9, <2>1, <2>2
    <3>2. \/ data[Block(y, o)] = want[Block(y, o)]
          \/ \E f \in copies : Block(y, o) \in f.blocks /\ f.v = want[Block(y, o)]
      BY <2>2 DEF WrittenHeld
    <3> QED BY <1>7, <3>1, <3>2
  <2>3. CASE ~(o < wp[y])
    <3>1. y = z /\ at <= o /\ o < at + n /\ o \in Nat
      BY <1>1, <1>4, <1>6, <2>3
    <3>2. Block(y, o) \in e.blocks /\ e.v = want'[Block(y, o)]
      BY <1>7, <1>8, <2>1, <3>1
    <3> QED BY <1>7, <3>2
  <2> QED BY <2>2, <2>3
<1>11. CopyInv'
  <2> SUFFICES ASSUME NEW f \in copies', NEW b \in f.blocks
               PROVE  /\ f.v = want'[b]
                      /\ \E y \in Zones, o \in 0 .. Cap - 1 : o < wp'[y] /\ b = Block(y, o)
    BY <1>6 DEF CopyInv, Block
  <2>1. CASE f \in copies
    <3>1. f.v = want[b]
      BY <2>1 DEF CopyInv
    <3>2. PICK y \in Zones, o \in 0 .. Cap - 1 : o < wp[y] /\ b = Block(y, o)
      BY <2>1 DEF CopyInv
    <3>3. b \notin range /\ b \in Storage
      BY <1>9, <3>2, BlockPlace
    <3>4. o < wp'[y]
      BY <1>1, <1>6, <3>2
    <3> QED BY <1>7, <3>1, <3>2, <3>3, <3>4
  <2>2. CASE f = e
    <3>1. b \in range
      BY <2>2
    <3>2. PICK p \in Nat : at <= p /\ p < at + n /\ b = Block(z, p)
      BY <1>8, <3>1
    <3>3. p \in 0 .. Cap - 1 /\ p < wp'[z]
      BY <1>1, <1>4, <1>5, <1>6, <3>2
    <3>4. b \in Storage
      BY <3>2, <3>3, BlockPlace
    <3>5. f.v = want'[b]
      BY <1>7, <2>2, <3>1, <3>4
    <3> QED BY <3>2, <3>3, <3>5
  <2> QED BY <1>7, <2>1, <2>2
<1> QED BY <1>7, <1>10, <1>11

\* A zone management command moves no write pointer forwards, and a reset
\* zeroes no zone but its own, into which nothing is to be copied.
LEMMA ManageKeepsData ==
  ASSUME DeviceInv, WrittenHeld, CopyInv, ~damaged,
         NEW z \in Zones, NEW act \in Actions \ {"FLUSH_ZRWA"},
         NEW opt, ZmgmtSend(z, act, opt, 0), ManageData(z, act),
         act = "RESET" => \A e \in copies : e.blocks \cap ZoneBlocks(z) = {},
         Sweeping' /\ sweep'.act = "RESET" => \A e \in copies : e.blocks = {}
  PROVE  WrittenHeld' /\ CopyInv'
<1>1. wp \in [Zones -> 0 .. Cap] /\ Cap \in Nat \ {0}
  BY ZnsAssumption DEF DeviceInv, ZoneInv, TypeOK
<1>2. copies' = copies /\ want' = want /\ damaged' = damaged
  BY DEF ManageData
<1>3. CASE act = "RESET"
  <2>1. /\ wp' = [wp EXCEPT ![z] = 0]
        /\ data' = [b \in Storage |-> IF b \in ZoneBlocks(z) THEN 0 ELSE data[b]]
    BY <1>3 DEF ZmgmtSend, ResetZone, ManageData
  <2>2. ASSUME NEW y \in Zones, NEW o \in 0 .. Cap - 1, o < wp'[y]
        PROVE  \/ data'[Block(y, o)] = want'[Block(y, o)]
               \/ \E f \in copies' : Block(y, o) \in f.blocks /\ f.v = want'[Block(y, o)]
    <3>1. y # z /\ o < wp[y]
      BY <1>1, <2>1, <2>2
    <3>2. \/ data[Block(y, o)] = want[Block(y, o)]
          \/ \E f \in copies : Block(y, o) \in f.blocks /\ f.v = want[Block(y, o)]
      BY <3>1 DEF WrittenHeld
    <3>3. Block(y, o) \notin ZoneBlocks(z) /\ Block(y, o) \in Storage
      BY <3>1, BlockPlace
    <3> QED BY <1>2, <2>1, <3>2, <3>3
  <2>3. ASSUME NEW f \in copies, NEW b \in f.blocks
        PROVE  \E y \in Zones, o \in 0 .. Cap - 1 : o < wp'[y] /\ b = Block(y, o)
    <3>1. PICK y \in Zones, o \in 0 .. Cap - 1 : o < wp[y] /\ b = Block(y, o)
      BY DEF CopyInv
    <3>2. y # z
      <4>1. z * Cap \in Nat
        BY BlockPlace
      <4>2. Block(z, o) \in ZoneBlocks(z)
        BY <1>1, <4>1 DEF ZoneBlocks, Extent, Block
      <4> QED BY <1>3, <3>1, <4>2
    <3> QED BY <1>1, <2>1, <3>1, <3>2
  <2> QED BY <1>2, <2>2, <2>3 DEF WrittenHeld, CopyInv, Block
<1>4. CASE act # "RESET"
  <2>1. wp' = wp /\ data' = data
    BY <1>4 DEF ZmgmtSend, Actions, CloseZone, FinishZone, OpenZone, OfflineZone,
                ManageData, zoneVars
  <2> QED BY <1>2, <2>1 DEF WrittenHeld, CopyInv, Block
<1> QED BY <1>3, <1>4

LEMMA ManagementData ==
  ASSUME Careless = {}, RestInv, DeviceInv, WrittenHeld, CopyInv, ~damaged,
         NEW act \in Actions \ {"FLUSH_ZRWA"}, Management(act)
  PROVE  WrittenHeld' /\ CopyInv' /\ loaded' = FALSE /\ file' = file /\ damaged' = damaged
<1>1. loaded' = FALSE /\ file' = file /\ damaged' = damaged
  BY DEF Management, ManageData
<1>2. CASE \E z \in Zones : MayManage({z}, act) /\ Manage(z, act, FALSE, 0) /\ ManageData(z, act)
  <2>1. PICK z \in Zones : MayManage({z}, act) /\ Manage(z, act, FALSE, 0) /\ ManageData(z, act)
    BY <1>2
  <2>2. ZmgmtSend(z, act, FALSE, 0) /\ ~Sweeping'
    BY <2>1 DEF Manage, Sweeping
  <2>3. act = "RESET" => \A e \in copies : e.blocks \cap ZoneBlocks(z) = {}
    BY <2>1 DEF MayManage
  <2> QED BY <1>1, <2>1, <2>2, <2>3, ManageKeepsData
\* The blocks of a copy lie in zones.
<1>3. ASSUME \A e \in copies, z \in Zones : e.blocks \cap ZoneBlocks(z) = {}
      PROVE  \A e \in copies : e.blocks = {}
  <2>1. ASSUME NEW e \in copies, NEW b \in e.blocks PROVE FALSE
    <3>1. PICK z \in Zones, off \in 0 .. Cap - 1 : b = Block(z, off)
      BY DEF CopyInv
    <3>2. z * Cap \in Nat
      BY BlockPlace
    <3>3. b \in ZoneBlocks(z)
      BY <3>1, <3>2, ZnsAssumption DEF ZoneBlocks, Extent, Block
    <3> QED BY <1>3, <3>3
  <2> QED BY <2>1
<1>4. CASE MayManage(Zones, act) /\ SelectAll(act, FALSE) /\ ManageData(0, act)
  <2>1. 0 \in Zones
    BY ZnsAssumption DEF Zones
  <2>2. ZmgmtSend(0, act, FALSE, 0) /\ sweep'.act \in {act, "NONE"}
    BY <1>4 DEF SelectAll, SweepZone, NoSweep
  <2>3. act = "RESET" => \A e \in copies, z \in Zones : e.blocks \cap ZoneBlocks(z) = {}
    BY <1>4 DEF MayManage
  <2>4. act = "RESET" => \A e \in copies : e.blocks = {}
    BY <1>3, <2>3
  <2>5. sweep'.act = "RESET" => act = "RESET"
    BY <2>2
  <2> QED BY <1>1, <1>4, <2>1, <2>2, <2>4, <2>5, ManageKeepsData
<1>5. CASE Sweeping /\ act = sweep.act /\ SelectNext /\ ManageData(sweep.zid, act)
  <2>1. sweep.zid \in Zones
    BY <1>5 DEF Sweeping, RestInv
  <2>2. ZmgmtSend(sweep.zid, act, sweep.opt, 0) /\ sweep'.act \in {act, "NONE"}
    BY <1>5 DEF SelectNext, SweepZone, NoSweep
  <2>3. act = "RESET" => \A e \in copies : e.blocks = {}
    BY <1>5 DEF CopyInv
  <2>4. sweep'.act = "RESET" => act = "RESET"
    BY <2>2
  <2> QED BY <1>1, <1>5, <2>1, <2>2, <2>3, <2>4, ManageKeepsData
<1> QED BY <1>2, <1>4, <1>5 DEF Management

\* A worker copies what is still to come, in any order.
LEMMA CopyData ==
  ASSUME DeviceInv, WrittenHeld, CopyInv, ~damaged, NEW e \in copies, Copy(e)
  PROVE  WrittenHeld' /\ CopyInv'
<1>1. /\ copies' = copies \ {e} /\ UNCHANGED <<wp, want, sweep, damaged>>
      /\ data' = [b \in Storage |-> IF b \in e.blocks THEN e.v ELSE data[b]]
  BY DEF Copy, vars, zoneVars
<1>2. ASSUME NEW z \in Zones, NEW off \in 0 .. Cap - 1, off < wp[z]
      PROVE  \/ data'[Block(z, off)] = want[Block(z, off)]
             \/ \E f \in copies' : Block(z, off) \in f.blocks /\ f.v = want[Block(z, off)]
  <2>1. Block(z, off) \in Storage
    BY BlockPlace
  <2>2. CASE Block(z, off) \in e.blocks
    BY <1>1, <2>1, <2>2 DEF CopyInv
  <2>3. CASE Block(z, off) \notin e.blocks
    <3>1. data'[Block(z, off)] = data[Block(z, off)]
      BY <1>1, <2>1, <2>3
    <3>2. \/ data[Block(z, off)] = want[Block(z, off)]
          \/ \E f \in copies : Block(z, off) \in f.blocks /\ f.v = want[Block(z, off)]
      BY <1>2 DEF WrittenHeld
    <3> QED BY <1>1, <2>3, <3>1, <3>2
  <2> QED BY <2>2, <2>3
<1>3. WrittenHeld'
  BY <1>1, <1>2 DEF WrittenHeld, Block
<1>4. CopyInv'
  BY <1>1 DEF CopyInv, Block, Sweeping
<1> QED BY <1>3, <1>4

\* A step that changes neither the file nor what a load is judged by.
LEMMA StillLoaded ==
  ASSUME DataInv, ~damaged, UNCHANGED <<file, damaged>>, WrittenHeld', CopyInv',
         loaded' = FALSE \/ UNCHANGED <<loaded, wp, data, want, copies>>
  PROVE  DataInv'
<1>1. (file # NoFile => FileData(file))'
  BY DEF DataInv, FileData, Block
<1>2. ZonesRestored'
  BY DEF DataInv, ZonesRestored, Block
<1> QED BY <1>1, <1>2 DEF DataInv

LEMMA FollowedData ==
  ASSUME Careless = {}, SnapInv, DataInv, ~damaged, HostCommand \/ Background
  PROVE  DataInv'
<1>0. RestInv /\ DeviceInv /\ WrittenHeld /\ CopyInv
  BY DEF SnapInv, DataInv
<1>1. ASSUME NEW z \in Zones, NEW off \in 0 .. Cap - 1, NEW n \in 1 .. MaxLen,
             HostWrite(z, off, n)
      PROVE  DataInv'
  BY <1>0, <1>1, HostWriteData, StillLoaded
<1>2. ASSUME NEW act \in Actions \ {"FLUSH_ZRWA"}, Management(act)
      PROVE  DataInv'
  BY <1>0, <1>2, ManagementData, StillLoaded
<1>3. ASSUME NEW z \in Zones, Release(z), UNCHANGED snapVars
      PROVE  DataInv'
  <2>1. UNCHANGED <<wp, sweep, data, want, copies, damaged, loaded, file>>
    BY <1>3 DEF Release, zoneVars, snapVars, dataVars
  <2>2. WrittenHeld' /\ CopyInv'
    BY <1>0, <2>1 DEF WrittenHeld, CopyInv, Block, Sweeping
  <2> QED BY <2>1, <2>2, StillLoaded
<1>4. ASSUME NEW e \in copies, Copy(e)
      PROVE  DataInv'
  <2>1. WrittenHeld' /\ CopyInv' /\ UNCHANGED <<file, damaged>>
    BY <1>0, <1>4, CopyData DEF Copy
  <2>2. ~loaded
    BY <1>4 DEF DataInv
  <2>3. loaded' = FALSE \/ loaded' # TRUE
    BY <1>4, <2>2 DEF Copy
  <2>4. ZonesRestored' /\ (file # NoFile => FileData(file))'
    BY <2>1, <1>4, <2>2 DEF Copy, ZonesRestored, DataInv, FileData, Block
  <2> QED BY <1>4, <2>1, <2>2, <2>4 DEF DataInv, Copy
<1> QED BY <1>1, <1>2, <1>3, <1>4 DEF HostCommand, Background

\* A save finds every copy done: what it writes below the write pointers is
\* what the host has written last.
LEMMA SavedData ==
  ASSUME DataInv, ~damaged, NEW cut, Save(cut)
  PROVE  DataInv'
<1>1. /\ copies = {} /\ UNCHANGED <<wp, sweep, data, want, copies, loaded, damaged>>
      /\ file'.wp = wp /\ file'.data = data /\ file'.want = want
  BY DEF Save, Idle, vars, zoneVars, dataVars
<1>2. FileData(file')
  BY <1>1 DEF DataInv, WrittenHeld, FileData
<1>3. WrittenHeld' /\ CopyInv'
  BY <1>1 DEF DataInv, WrittenHeld, CopyInv, Block
<1>4. ZonesRestored'
  BY <1>1 DEF DataInv, ZonesRestored, Block
<1>5. FileData(file)'
  BY <1>2 DEF FileData, Block
<1> QED BY <1>1, <1>3, <1>4, <1>5 DEF DataInv

\* The blocks below the write pointers on file, and no others, have chunks.
LEMMA ChunkBlocks ==
  ASSUME FileInv(file), NEW z \in Zones, NEW off \in 0 .. Cap - 1, NEW rest,
         NEW b, b = Block(z, off)
  PROVE  /\ RestoredData(rest)[b] \in {rest[b], file.data[b]}
         /\ ~(off < file.wp[z]) => RestoredData(rest)[b] = rest[b]
         /\ ~Before(file.cut, Sentinel) /\ off < file.wp[z]
              => RestoredData(rest)[b] = file.data[b]
<1> DEFINE Chunk(y) == /\ file.state[y] # "EMPTY" /\ b \in Extent(y, 0, file.wp[y])
                       /\ Saved(DataAt(y, b - Block(y, 0)))
<1>1. b \in Storage /\ z * Cap \in Nat /\ Cap \in Nat \ {0} /\ off \in Nat
  BY BlockPlace, ZnsAssumption
<1>2. RestoredData(rest)[b] = IF \E y \in Zones : Chunk(y) THEN file.data[b] ELSE rest[b]
  BY <1>1 DEF RestoredData
<1>3. \A y \in Zones : file.wp[y] \in 0 .. Cap
  BY DEF FileInv
<1>4. ASSUME NEW y \in Zones, Chunk(y) PROVE y = z /\ off < file.wp[z]
  <2>1. b \in ZoneBlocks(y)
    <3>1. y * Cap \in Nat
      BY <1>1 DEF Zones
    <3> QED BY <1>1, <1>3, <1>4, <3>1 DEF ZoneBlocks, Extent, Block
  <2>2. y = z
    BY <2>1, BlockPlace
  <2> QED BY <1>1, <1>3, <1>4, <2>2 DEF Extent, Block
<1>5. ASSUME ~Before(file.cut, Sentinel), off < file.wp[z] PROVE Chunk(z)
  <2>1. Saved(DataAt(z, b - Block(z, 0)))
    BY <1>5, WholeFile DEF FileInv, DataAt
  <2>2. b \in Extent(z, 0, file.wp[z])
    BY <1>1, <1>3, <1>5 DEF Extent, Block
  <2>3. file.state[z] # "EMPTY"
    BY <1>1, <1>3, <1>5 DEF FileInv
  <2> QED BY <2>1, <2>2, <2>3
<1> HIDE DEF Chunk
<1> QED BY <1>2, <1>4, <1>5

LEMMA LoadedData ==
  ASSUME SnapInv, DataInv, Load
  PROVE  DataInv'
<1>1. file # NoFile /\ file' = file /\ copies' = copies /\ copies = {} /\ FileInv(file)
      /\ FileData(file)
  BY DEF Load, Idle, SnapInv, DataInv
<1>2. FileData(file)' /\ CopyInv'
  BY <1>1 DEF FileData, Block, CopyInv
<1>3. CASE LoadFile
  <2>1. /\ want' = file.want /\ data' = RestoredData(Zeros)
        /\ damaged' = Before(file.cut, Sentinel)
    BY <1>3 DEF LoadFile
  <2>2. damaged' \/ wp' = file.wp
    <3>1. ASSUME ~damaged' PROVE \A z \in Zones : Saved(WpAt(z))
      BY <1>1, <2>1, <3>1, WholeFile DEF FileInv, WpAt
    <3>2. wp' = [z \in Zones |-> IF Saved(WpAt(z)) THEN file.wp[z] ELSE wp[z]]
      BY <1>3 DEF LoadFile, RestoreZones
    <3>3. file.wp = [z \in Zones |-> file.wp[z]]
      BY <1>1 DEF FileInv
    <3> HIDE DEF Saved, WpAt
    <3> QED BY <3>1, <3>2, <3>3, Zenon
  <2>3. ASSUME NEW z \in Zones, NEW off \in 0 .. Cap - 1
        PROVE  LET b == Block(z, off) IN
               /\ data'[b] \in {0, file.want[b]}
               /\ ~damaged' => data'[b] = IF off < file.wp[z] THEN file.want[b] ELSE 0
    <3> DEFINE b == Block(z, off)
    <3>1. b \in Storage /\ Zeros[b] = 0
      BY BlockPlace DEF Zeros
    <3>2. off < file.wp[z] => file.data[b] = file.want[b]
      BY <1>1 DEF FileData
    <3>3. /\ data'[b] \in {0, file.data[b]}
          /\ ~(off < file.wp[z]) => data'[b] = 0
          /\ ~damaged' /\ off < file.wp[z] => data'[b] = file.data[b]
      BY <1>1, <2>1, <3>1, ChunkBlocks
    <3> HIDE DEF b
    <3>4. data'[b] \in {0, file.want[b]}
      BY <3>2, <3>3
    <3>5. ~damaged' => data'[b] = IF off < file.wp[z] THEN file.want[b] ELSE 0
      BY <3>2, <3>3
    <3> QED BY <3>4, <3>5 DEF b
  <2>4. ZonesRestored'
    BY <1>1, <2>2, <2>3 DEF ZonesRestored, Block
  <2>5. WrittenHeld'
    BY <1>1, <2>1, <2>2, <2>3 DEF WrittenHeld, Block
  <2> QED BY <1>1, <1>2, <2>1, <2>4, <2>5 DEF DataInv
<1>4. CASE LoadNoHeader
  <2>1. CASE UNCHANGED <<vars, data, want, damaged, stuck>> /\ loaded' = FALSE
    <3>1. WrittenHeld'
      BY <1>1, <2>1 DEF DataInv, WrittenHeld, Block, vars, zoneVars
    <3> QED BY <1>1, <1>2, <2>1, <3>1 DEF DataInv, ZonesRestored
  <2>2. CASE damaged' = TRUE /\ data' = Zeros
    <3>1. ZonesRestored'
      <4>1. ASSUME NEW z \in Zones, NEW off \in 0 .. Cap - 1
            PROVE  data'[Block(z, off)] = 0
        BY <2>2, BlockPlace DEF Zeros
      <4> QED BY <2>2, <4>1 DEF ZonesRestored, Block
    <3> QED BY <1>2, <2>2, <3>1 DEF DataInv, WrittenHeld
  <2> QED BY <1>4, <2>1, <2>2 DEF LoadNoHeader
<1> QED BY <1>3, <1>4 DEF Load

LEMMA DataInvariant ==
  ASSUME Careless = {}
  PROVE  SnapSpec => []DataInv
<1>1. SnapInit => DataInv
  BY DEF SnapInit, Init, DataInv, WrittenHeld, ZonesRestored, CopyInv
<1>2. SnapInv /\ DataInv /\ [SnapNext]_<<vars, snapVars>> => DataInv'
  <2> SUFFICES ASSUME SnapInv, DataInv, [SnapNext]_<<vars, snapVars>> PROVE DataInv'
    OBVIOUS
  <2>1. CASE ~damaged /\ (HostCommand \/ Background)
    BY <2>1, FollowedData
  <2>2. CASE ~damaged /\ SaveAny
    BY <2>2, SavedData DEF SaveAny
  <2>3. CASE Load
    BY <2>3, LoadedData
  <2>4. CASE Reinsert
    <3>1. /\ wp' = [z \in Zones |-> 0] /\ loaded' = FALSE /\ file' = file /\ copies = {}
          /\ copies' = copies
      BY <2>4 DEF Reinsert, Idle, dataVars
    <3>2. WrittenHeld' /\ CopyInv' /\ FileData(file)' = FileData(file)
      BY <3>1 DEF WrittenHeld, CopyInv, FileData, Block
    <3> QED BY <3>1, <3>2 DEF DataInv, ZonesRestored
  <2>5. CASE UNCHANGED <<vars, snapVars>>
    BY <2>5 DEF vars, zoneVars, snapVars, dataVars, DataInv, WrittenHeld, ZonesRestored,
                CopyInv, FileData, Block, Sweeping
  <2> QED BY <2>1, <2>2, <2>3, <2>4, <2>5 DEF SnapNext
<1> QED BY <1>1, <1>2, SnapInvariant, PTL DEF SnapSpec

(***************************************************************************)
(* What a careful host has written last can be read, or its copy is still  *)
(* to come: copies in any order, resets, loads and insertions take nothing *)
(* away.  With a host that is not (Careless), blocks lose their data.      *)
(***************************************************************************)
THEOREM SnapshotsHoldWrites ==
  ASSUME Careless = {}
  PROVE  SnapSpec => []WrittenHeld
<1>1. DataInv => WrittenHeld
  BY DEF DataInv
<1> QED BY <1>1, DataInvariant, PTL

(***************************************************************************)
(* Wherever a file was cut off, a load brings back no block that the host  *)
(* had not written so before the save, and from a whole file exactly what  *)
(* was below the write pointers.                                           *)
(***************************************************************************)
THEOREM SnapshotsRestoreZones ==
  ASSUME Careless = {}
  PROVE  SnapSpec => []ZonesRestored
<1>1. DataInv => ZonesRestored
  BY DEF DataInv
<1> QED BY <1>1, DataInvariant, PTL

=============================================================================
