------------------------------ MODULE WorkQueue ------------------------------
(***************************************************************************)
(* What the work queue between dispatcher and I/O worker promises to the   *)
(* host, whatever the lists, the clock and the two threads do: a request   *)
(* is queued or refused when it is submitted; the data of a queued request *)
(* is moved once, after that the request is answered once, and both happen *)
(* in the end.  IoWorker implements it.                                    *)
(***************************************************************************)
EXTENDS Naturals

CONSTANT Requests

VARIABLES
  queued, refused,   \* requests in the work queue, or for which it had no room
  copies, posted     \* how often a request was copied and answered

vars == <<queued, refused, copies, posted>>

Init ==
  /\ queued = {} /\ refused = {}
  /\ copies = [r \in Requests |-> 0]
  /\ posted = [r \in Requests |-> 0]

\* __enqueue_io_req: with an entry, and without one.
Enqueue(r) ==
  /\ r \notin queued \cup refused
  /\ queued' = queued \cup {r}
  /\ UNCHANGED <<refused, copies, posted>>

Refuse(r) ==
  /\ r \notin queued \cup refused
  /\ refused' = refused \cup {r}
  /\ UNCHANGED <<queued, copies, posted>>

\* nvmev_io_worker: the data first, ...
Copy(r) ==
  /\ r \in queued
  /\ copies[r] = 0
  /\ copies' = [copies EXCEPT ![r] = 1]
  /\ UNCHANGED <<queued, refused, posted>>

\* ... then the completion.
Post(r) ==
  /\ copies[r] = 1
  /\ posted[r] = 0
  /\ posted' = [posted EXCEPT ![r] = 1]
  /\ UNCHANGED <<queued, refused, copies>>

Next == \E r \in Requests : Enqueue(r) \/ Refuse(r) \/ Copy(r) \/ Post(r)

\* The worker thread never blocks: what it can do for a request it does.
Spec ==
  /\ Init /\ [][Next]_vars
  /\ \A r \in Requests : WF_vars(Copy(r)) /\ WF_vars(Post(r))

=============================================================================
