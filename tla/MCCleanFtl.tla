----------------------------- MODULE MCCleanFtl -----------------------------
(***************************************************************************)
(* TLC instance of CleanFtl: which logical pages may be mapped.  All small *)
(* sets, and two runs around the length of a few turns, so that chunks     *)
(* wait for a die and preempt one another.                                 *)
(***************************************************************************)
EXTENDS CleanFtl

CONSTANTS
  NrSmall,     \* any of the first NrSmall pages may be mapped
  Lengths      \* lengths of the two runs

ASSUME MCCleanAssumption == NrSmall \in Nat /\ Lengths \subseteq Nat \ {0}

TwoRuns == {(a .. a + n - 1) \cup (b .. b + m - 1) :
              <<a, n, b, m>> \in {q \in (0 .. 1) \X Lengths \X (0 .. Total) \X Lengths :
                                    q[3] - (q[1] + q[2]) \in 1 .. 2}}

AnySets == SUBSET (0 .. NrSmall - 1) \cup TwoRuns

\* No run ends before the last page of the first stripe.
StripedSets == {m \in AnySets : \A l \in m : l + 1 \notin m => l >= NrParts - 1}

=============================================================================
