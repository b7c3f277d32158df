---------------------------- MODULE MCZnsSnapshot ----------------------------
(***************************************************************************)
(* TLC instance of ZnsSnapshot: at most MaxCommands commands before a save *)
(* and MaxSince between a save and what follows it, and at most MaxCopies  *)
(* copies outstanding.                                                     *)
(***************************************************************************)
EXTENDS ZnsSnapshot

CONSTANTS MaxCommands, MaxSince, MaxCopies

ASSUME BoundsAssumption ==
  MaxCommands \in Nat /\ MaxSince \in Nat /\ MaxCopies \in Nat

VARIABLE left   \* commands left

MCInit == SnapInit /\ left = MaxCommands

MCNext ==
  /\ ~stuck
  /\ \/ /\ left > 0 /\ ~damaged
        /\ HostCommand
        /\ left' = left - 1
        /\ Cardinality(copies') <= MaxCopies
     \/ ~damaged /\ Background /\ UNCHANGED left
     \/ ~damaged /\ file = NoFile /\ SaveAny /\ left' = MaxSince
     \/ Load /\ UNCHANGED left
     \/ Reinsert /\ UNCHANGED left

MCSpec == MCInit /\ [][MCNext]_<<vars, snapVars, left>>

=============================================================================
