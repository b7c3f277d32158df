------------------------------ MODULE MCKvFtl ------------------------------
(***************************************************************************)
(* TLC instance of KvFtl: all keys but k collide in the last slot, and k   *)
(* in the slot they overflow into.                                         *)
(***************************************************************************)
EXTENDS KvFtl, TLC

CONSTANTS k, Colliding

MCKeys == Colliding \cup {k}
MCHash == [x \in MCKeys |-> IF x = k THEN 0 ELSE NrSlots - 1]
MCIterKeys == {{k}}

Symmetry == Permutations(Colliding)

=============================================================================
