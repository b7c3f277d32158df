--------------------------- MODULE MCConvSnapshot ---------------------------
(***************************************************************************)
(* TLC instance of ConvSnapshot: at most MaxWrites page writes and         *)
(* MaxLoads loads in a behaviour.                                          *)
(***************************************************************************)
EXTENDS ConvSnapshot, TLC

CONSTANTS MaxWrites, MaxLoads

ASSUME BoundsAssumption == MaxWrites \in Nat /\ MaxLoads \in Nat

VARIABLES writes, loads

MCInit == SnapInit /\ writes = 0 /\ loads = 0

MCNext ==
  \/ /\ writes < MaxWrites
     /\ \E l \in Lpns : Live(HostWrite(l)) \/ Live(CleanerWrite(l))
     /\ writes' = writes + 1
     /\ UNCHANGED loads
  \/ Live(VictimFinish /\ UNCHANGED snapVars) /\ UNCHANGED <<writes, loads>>
  \/ Live(Save \/ LoadFails) /\ UNCHANGED <<writes, loads>>
  \/ /\ loads < MaxLoads
     /\ \E fresh \in BOOLEAN : Live(Load(fresh))
     /\ loads' = loads + 1
     /\ UNCHANGED writes

MCSpec == MCInit /\ [][MCNext]_<<vars, queue, snapVars, writes, loads>>

Symmetry == Permutations(Lpns)

=============================================================================
