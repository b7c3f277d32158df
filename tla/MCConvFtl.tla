----------------------------- MODULE MCConvFtl -----------------------------
(***************************************************************************)
(* TLC instance of ConvFtl with its victim queue: at most MaxWrites page   *)
(* writes.  Stale rmap entries remember the whole history of the device,   *)
(* so that without the bound the state space is out of reach even for five *)
(* tiny lines.                                                             *)
(***************************************************************************)
EXTENDS VictimQueue, TLC

CONSTANT MaxWrites   \* bound on the number of page writes of a behaviour

ASSUME MaxWritesAssumption == MaxWrites \in Nat

VARIABLE writes      \* page writes so far

MCInit == VictimInit /\ writes = 0

MCNext ==
  \/ /\ writes < MaxWrites
     /\ \E l \in Lpns, w \in Writers : HostOrCleanerWrite(l, w)
     /\ writes' = writes + 1
  \/ VictimFinish /\ UNCHANGED writes
  \/ /\ writes = MaxWrites /\ pc = "idle"   \* the bound, not a deadlock
     /\ UNCHANGED <<vars, queue, writes>>

MCSpec == MCInit /\ [][MCNext]_<<vars, queue, writes>>

Symmetry == Permutations(Lpns)

=============================================================================
