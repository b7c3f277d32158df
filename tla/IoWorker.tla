------------------------------ MODULE IoWorker ------------------------------
(***************************************************************************)
(* The work queue between the dispatcher thread and one I/O worker thread  *)
(* (io.c).  The queue is an array of N entries threaded onto two lists by  *)
(* next and prev: the I/O list (io_seq .. io_seq_end, sorted by target     *)
(* time) and the free list (free_seq .. free_seq_end).  No lock protects   *)
(* it: the dispatcher allocates, inserts and reclaims while the worker     *)
(* walks the I/O list along next.                                          *)
(*                                                                         *)
(* Every action reads and writes what one thread can do without the other  *)
(* noticing.  Linking an entry is one action, because the worker reads     *)
(* only io_seq and next and the code publishes the entry with its last     *)
(* store; reclaiming is one action, because is_completed, is_copied and    *)
(* latest_nsecs only grow while the prefix is being read.                  *)
(*                                                                         *)
(* A request is its number in submission order.  A write also schedules an *)
(* internal operation that gives its unit of write buffer back.            *)
(***************************************************************************)
EXTENDS Integers, FiniteSets

CONSTANTS
  N,               \* NR_MAX_PARALLEL_IO
  NReqs,           \* number of requests the host submits
  Writes,          \* the requests that are writes
  BufferSize,      \* write buffer, in units of one write
  MaxTime,         \* bound on the clock and on every target time
  WorkerMayStall   \* may the free list come round to where the worker stands?

Entries  == 0 .. N - 1
Requests == 1 .. NReqs
Time     == 0 .. MaxTime
NIL      == -1            \* the index -1
EntryOrNil == Entries \cup {NIL}

ASSUME IoWorkerAssumption ==
  /\ N \in Nat \ {0, 1}
  /\ NReqs \in Nat
  /\ Writes \subseteq Requests
  /\ BufferSize \in Nat \ {0}
  /\ MaxTime \in Nat
  /\ WorkerMayStall \in BOOLEAN

VARIABLES
  \* struct nvmev_io_work: sq_entry, nsecs_target, is_completed, is_copied, is_internal
  req, target, completed, copied, internal,
  next, prev,              \* its links
  io_seq, io_seq_end, free_seq, free_seq_end,
  latest,                  \* worker->latest_nsecs
  now,                     \* local_clock() + delta
  buf,                     \* write_buffer->remaining
  \* The dispatcher: requests taken off the submission queue, program
  \* counter, the entry being set up, whether it is an internal operation,
  \* the target times of the request and of its internal operation, and
  \* curr of __insert_req_sorted
  sq, dpc, entry, isint, due, idue, dcurr,
  \* The worker: program counter and curr of nvmev_io_worker
  wpc, curr,
  \* What the host sees: copies and completions per request, and the
  \* operations for which no entry could be allocated
  copies, posted, dropped

workVars == <<req, target, completed, copied, internal>>
listVars == <<next, prev, io_seq, io_seq_end, free_seq, free_seq_end>>
dispVars == <<sq, dpc, entry, isint, due, idue, dcurr>>
workerVars == <<wpc, curr, latest>>
hostVars == <<copies, posted>>
vars == <<workVars, listVars, dispVars, workerVars, hostVars, now, buf, dropped>>

DispPCs == {"idle", "alloc", "init", "init2", "scan", "link", "reclaim"}
WorkerPCs == {"top", "visit", "copy", "test", "mark", "next"}

-----------------------------------------------------------------------------
(***************************************************************************)
(* NVMEV_IO_WORKER_INIT: every entry is zeroed and on the free list.       *)
(***************************************************************************)
Init ==
  /\ req = [e \in Entries |-> 0]
  /\ target = [e \in Entries |-> 0]
  /\ completed = [e \in Entries |-> FALSE]
  /\ copied = [e \in Entries |-> FALSE]
  /\ internal = [e \in Entries |-> FALSE]
  /\ next = [e \in Entries |-> IF e = N - 1 THEN NIL ELSE e + 1]
  /\ prev = [e \in Entries |-> e - 1]
  /\ io_seq = NIL
  /\ io_seq_end = NIL
  /\ free_seq = 0
  /\ free_seq_end = N - 1
  /\ latest = 0
  /\ now = 0
  /\ buf = BufferSize
  /\ sq = 0
  /\ dpc = "idle"
  /\ entry = NIL
  /\ isint = FALSE
  /\ due = 0
  /\ idue = 0
  /\ dcurr = NIL
  /\ wpc = "top"
  /\ curr = NIL
  /\ copies = [r \in Requests |-> 0]
  /\ posted = [r \in Requests |-> 0]
  /\ dropped = {}

-----------------------------------------------------------------------------
(***************************************************************************)
(* The dispatcher.                                                         *)
(***************************************************************************)
\* nvmev_proc_io_sq takes the next request and proc_io_cmd computes its
\* target time.  A write that finds no room in the write buffer is refused
\* and tried again later; the internal operation of a write that is
\* accepted ends no earlier than the write itself.
Fetch ==
  /\ dpc = "idle"
  /\ sq < NReqs
  /\ sq + 1 \in Writes => buf > 0
  /\ sq' = sq + 1
  /\ isint' = (sq + 1 \in Writes)
  /\ buf' = IF sq + 1 \in Writes THEN buf - 1 ELSE buf
  /\ \E t \in now .. MaxTime :
       /\ due' = t
       /\ idue' \in IF sq + 1 \in Writes THEN t .. MaxTime ELSE {t}
  /\ dpc' = "alloc"
  /\ UNCHANGED <<workVars, listVars, workerVars, hostVars, entry, dcurr, now, dropped>>

\* After an internal operation comes the request itself; after the request
\* the completed entries are reclaimed.
NextOperation ==
  /\ dpc' = IF isint THEN "alloc" ELSE "reclaim"
  /\ isint' = FALSE

\* __allocate_work_queue_entry fails on the last free entry, and both
\* callers then return without a word.
AllocFails ==
  /\ dpc = "alloc"
  /\ next[free_seq] = NIL
  /\ dropped' = dropped \cup {<<sq, isint>>}
  /\ NextOperation
  /\ UNCHANGED <<workVars, listVars, workerVars, hostVars, sq, entry, due, idue,
                 dcurr, now, buf>>

\* __allocate_work_queue_entry, and the stores of __enqueue_io_req or
\* schedule_internal_operation up to is_completed = false.  An internal
\* operation leaves sq_entry as it was.
Alloc ==
  /\ dpc = "alloc"
  /\ next[free_seq] # NIL
  /\ WorkerMayStall \/ curr # free_seq
  /\ entry' = free_seq
  /\ free_seq' = next[free_seq]
  /\ req' = IF isint THEN req ELSE [req EXCEPT ![free_seq] = sq]
  /\ target' = [target EXCEPT ![free_seq] = IF isint THEN idue ELSE due]
  /\ completed' = [completed EXCEPT ![free_seq] = FALSE]
  /\ dpc' = "init"
  /\ UNCHANGED <<copied, internal, next, prev, io_seq, io_seq_end, free_seq_end,
                 workerVars, hostVars, sq, isint, due, idue, dcurr, now, buf, dropped>>

\* Mutant of InitEntry: is_copied keeps the value of the entry's last use.
InitEntryNotCleared ==
  /\ dpc = "init"
  /\ next' = [next EXCEPT ![entry] = NIL]
  /\ prev' = [prev EXCEPT ![entry] = NIL]
  /\ dpc' = "init2"
  /\ UNCHANGED <<workVars, io_seq, io_seq_end, free_seq, free_seq_end, workerVars,
                 hostVars, sq, entry, isint, due, idue, dcurr, now, buf, dropped>>

\* is_copied, prev and next.
InitEntry ==
  /\ dpc = "init"
  /\ copied' = [copied EXCEPT ![entry] = isint]
  /\ next' = [next EXCEPT ![entry] = NIL]
  /\ prev' = [prev EXCEPT ![entry] = NIL]
  /\ dpc' = "init2"
  /\ UNCHANGED <<req, target, completed, internal, io_seq, io_seq_end, free_seq,
                 free_seq_end, workerVars, hostVars, sq, entry, isint, due, idue,
                 dcurr, now, buf, dropped>>

\* Mutant of InitInternal: is_internal is never cleared again.
InitInternalSticky ==
  /\ dpc = "init2"
  /\ internal' = [internal EXCEPT ![entry] = @ \/ isint]
  /\ dcurr' = IF io_seq = NIL THEN NIL ELSE io_seq_end
  /\ dpc' = IF io_seq = NIL THEN "link" ELSE "scan"
  /\ UNCHANGED <<req, target, completed, copied, listVars, workerVars, hostVars,
                 sq, entry, isint, due, idue, now, buf, dropped>>

\* is_internal, then __insert_req_sorted begins at the tail of the list.
InitInternal ==
  /\ dpc = "init2"
  /\ internal' = [internal EXCEPT ![entry] = isint]
  /\ dcurr' = IF io_seq = NIL THEN NIL ELSE io_seq_end
  /\ dpc' = IF io_seq = NIL THEN "link" ELSE "scan"
  /\ UNCHANGED <<req, target, completed, copied, listVars, workerVars, hostVars,
                 sq, entry, isint, due, idue, now, buf, dropped>>

\* Mutant of GoesBefore: the comparison is turned round.
GoesBeforeReversed(e, c) == target[c] > latest /\ target[c] < target[e]

\* The loop condition of __insert_req_sorted: entry e goes before c.
GoesBefore(e, c) == target[c] > latest /\ target[c] > target[e]

Scan ==
  /\ dpc = "scan"
  /\ IF dcurr # NIL /\ GoesBefore(entry, dcurr)
     THEN dcurr' = prev[dcurr] /\ UNCHANGED dpc
     ELSE dpc' = "link" /\ UNCHANGED dcurr
  /\ UNCHANGED <<workVars, listVars, workerVars, hostVars, sq, entry, isint, due,
                 idue, now, buf, dropped>>

\* The four cases of __insert_req_sorted.
LinkFirst ==
  /\ io_seq = NIL
  /\ io_seq' = entry
  /\ io_seq_end' = entry
  /\ UNCHANGED <<next, prev>>

LinkHead ==
  /\ io_seq # NIL /\ dcurr = NIL
  /\ prev' = [prev EXCEPT ![io_seq] = entry]
  /\ next' = [next EXCEPT ![entry] = io_seq]
  /\ io_seq' = entry
  /\ UNCHANGED io_seq_end

LinkTail ==
  /\ dcurr # NIL /\ next[dcurr] = NIL
  /\ prev' = [prev EXCEPT ![entry] = dcurr]
  /\ next' = [next EXCEPT ![dcurr] = entry]
  /\ io_seq_end' = entry
  /\ UNCHANGED io_seq

\* Mutant of LinkBetween: the entry behind keeps its old prev.
LinkBetweenNoPrev ==
  /\ dcurr # NIL /\ next[dcurr] # NIL
  /\ prev' = [prev EXCEPT ![entry] = dcurr]
  /\ next' = [next EXCEPT ![entry] = next[dcurr], ![dcurr] = entry]
  /\ UNCHANGED <<io_seq, io_seq_end>>

LinkBetween ==
  /\ dcurr # NIL /\ next[dcurr] # NIL
  /\ prev' = [prev EXCEPT ![entry] = dcurr, ![next[dcurr]] = entry]
  /\ next' = [next EXCEPT ![entry] = next[dcurr], ![dcurr] = entry]
  /\ UNCHANGED <<io_seq, io_seq_end>>

Link ==
  /\ dpc = "link"
  /\ LinkFirst \/ LinkHead \/ LinkTail \/ LinkBetween
  /\ NextOperation
  /\ UNCHANGED <<workVars, free_seq, free_seq_end, workerVars, hostVars, sq, entry,
                 due, idue, dcurr, now, buf, dropped>>

\* The entry k links after e along next, NIL once the list has ended.
Step(e) ==
  LET walk[k \in 0 .. N] ==
        IF k = 0 THEN e
        ELSE IF walk[k - 1] = NIL THEN NIL ELSE next[walk[k - 1]]
  IN  walk

\* The entries of the list that begins at e.
Chain(e) == {Step(e)[k] : k \in 0 .. N} \ {NIL}

Reclaimable(e) == completed[e] /\ copied[e] /\ target[e] <= latest

\* Length of the longest prefix of the I/O list that can be reclaimed.
PrefixLen ==
  CHOOSE n \in 0 .. N :
    /\ \A k \in 0 .. n - 1 : Step(io_seq)[k] # NIL /\ Reclaimable(Step(io_seq)[k])
    /\ Step(io_seq)[n] = NIL \/ ~Reclaimable(Step(io_seq)[n])

\* __reclaim_completed_reqs moves the prefix to the end of the free list.
Reclaim ==
  /\ dpc = "reclaim"
  /\ IF PrefixLen = 0
     THEN UNCHANGED listVars
     ELSE LET last == Step(io_seq)[PrefixLen - 1]
              rest == next[last]
          IN  /\ next' = [next EXCEPT ![last] = NIL, ![free_seq_end] = io_seq]
              /\ prev' = [e \in Entries |-> CASE e = io_seq -> free_seq_end
                                              [] e = rest -> NIL
                                              [] OTHER -> prev[e]]
              /\ io_seq' = rest
              /\ free_seq_end' = last
              /\ UNCHANGED <<io_seq_end, free_seq>>
  /\ dpc' = "idle"
  /\ entry' = NIL
  /\ dcurr' = NIL
  /\ due' = 0
  /\ idue' = 0
  /\ UNCHANGED <<workVars, workerVars, hostVars, sq, isint, now, buf, dropped>>

Dispatcher ==
  Fetch \/ AllocFails \/ Alloc \/ InitEntry \/ InitInternal \/ Scan \/ Link \/ Reclaim

-----------------------------------------------------------------------------
(***************************************************************************)
(* The worker: nvmev_io_worker.                                            *)
(***************************************************************************)
StartPass ==
  /\ wpc = "top"
  /\ curr' = io_seq
  /\ wpc' = IF io_seq = NIL THEN "top" ELSE "visit"
  /\ UNCHANGED <<workVars, listVars, dispVars, hostVars, latest, now, buf, dropped>>

\* latest_nsecs is set for every entry, completed ones too.
Visit ==
  /\ wpc = "visit"
  /\ latest' = now
  /\ wpc' = IF completed[curr] THEN "next" ELSE IF copied[curr] THEN "test" ELSE "copy"
  /\ UNCHANGED <<workVars, listVars, dispVars, hostVars, curr, now, buf, dropped>>

\* __do_perform_io, and is_copied = true.
Copy ==
  /\ wpc = "copy"
  /\ copies' = IF internal[curr] THEN copies
               ELSE [copies EXCEPT ![req[curr]] = @ + 1]
  /\ copied' = [copied EXCEPT ![curr] = TRUE]
  /\ wpc' = "test"
  /\ UNCHANGED <<req, target, completed, internal, listVars, dispVars, posted, curr,
                 latest, now, buf, dropped>>

\* Mutant of Complete: an internal operation keeps its buffer unit.
CompleteNoRelease ==
  /\ posted' = IF internal[curr] THEN posted ELSE [posted EXCEPT ![req[curr]] = @ + 1]
  /\ UNCHANGED buf

\* buffer_release of an internal operation, __fill_cq_result of a request.
Complete ==
  /\ IF internal[curr]
     THEN buf' = buf + 1 /\ UNCHANGED posted
     ELSE /\ posted' = [posted EXCEPT ![req[curr]] = @ + 1]
          /\ UNCHANGED buf

Test ==
  /\ wpc = "test"
  /\ IF target[curr] <= latest
     THEN Complete /\ wpc' = "mark"
     ELSE wpc' = "next" /\ UNCHANGED <<buf, posted>>
  /\ UNCHANGED <<workVars, listVars, dispVars, copies, curr, latest, now, dropped>>

\* Mutant of Mark: the completed entry is not marked.
MarkNothing ==
  /\ wpc = "mark"
  /\ wpc' = "next"
  /\ UNCHANGED <<workVars, listVars, dispVars, hostVars, curr, latest, now, buf, dropped>>

Mark ==
  /\ wpc = "mark"
  /\ completed' = [completed EXCEPT ![curr] = TRUE]
  /\ wpc' = "next"
  /\ UNCHANGED <<req, target, copied, internal, listVars, dispVars, hostVars, curr,
                 latest, now, buf, dropped>>

NextEntry ==
  /\ wpc = "next"
  /\ curr' = next[curr]
  /\ wpc' = IF next[curr] = NIL THEN "top" ELSE "visit"
  /\ UNCHANGED <<workVars, listVars, dispVars, hostVars, latest, now, buf, dropped>>

Worker == StartPass \/ Visit \/ Copy \/ Test \/ Mark \/ NextEntry

Tick ==
  /\ now < MaxTime
  /\ now' = now + 1
  /\ UNCHANGED <<workVars, listVars, dispVars, workerVars, hostVars, buf, dropped>>

Next == Dispatcher \/ Worker \/ Tick

Spec == Init /\ [][Next]_vars

\* Dispatcher and worker are kernel threads that never block, and time passes.
FairSpec == Spec /\ WF_vars(Dispatcher) /\ WF_vars(Worker) /\ WF_vars(Tick)

-----------------------------------------------------------------------------
(***************************************************************************)
(* Properties.                                                             *)
(***************************************************************************)
TypeOK ==
  /\ req \in [Entries -> 0 .. NReqs]
  /\ target \in [Entries -> Time]
  /\ completed \in [Entries -> BOOLEAN]
  /\ copied \in [Entries -> BOOLEAN]
  /\ internal \in [Entries -> BOOLEAN]
  /\ next \in [Entries -> EntryOrNil]
  /\ prev \in [Entries -> EntryOrNil]
  /\ io_seq \in EntryOrNil /\ io_seq_end \in EntryOrNil
  /\ free_seq \in Entries /\ free_seq_end \in Entries
  /\ latest \in Time /\ now \in Time
  /\ buf \in 0 .. BufferSize
  /\ sq \in 0 .. NReqs /\ dpc \in DispPCs /\ entry \in EntryOrNil
  /\ isint \in BOOLEAN /\ due \in Time /\ idue \in Time /\ dcurr \in EntryOrNil
  /\ wpc \in WorkerPCs /\ curr \in EntryOrNil
  /\ copies \in [Requests -> Nat] /\ posted \in [Requests -> Nat]
  /\ dropped \subseteq Requests \X BOOLEAN

\* The entry the dispatcher has taken off the free list and not linked yet.
Pending == IF dpc \in {"init", "init2", "scan", "link"} THEN {entry} ELSE {}

(***************************************************************************)
(* Whatever the dispatcher is doing, every entry is on exactly one of the  *)
(* two lists or in its hands, and the I/O list reads the same backwards    *)
(* along prev (which only insertion follows) as forwards along next.       *)
(***************************************************************************)
ListsPartition ==
  /\ Chain(io_seq) \cup Chain(free_seq) \cup Pending = Entries
  /\ Chain(io_seq) \cap Chain(free_seq) = {}
  /\ Pending \cap (Chain(io_seq) \cup Chain(free_seq)) = {}
  /\ free_seq_end \in Chain(free_seq) /\ next[free_seq_end] = NIL
  /\ io_seq # NIL => /\ prev[io_seq] = NIL
                     /\ io_seq_end \in Chain(io_seq) /\ next[io_seq_end] = NIL
  /\ \A e \in Chain(io_seq) : next[e] # NIL => prev[next[e]] = e

(***************************************************************************)
(* "Requests are placed in work_queue sorted by their target time", as far *)
(* as the insertion keeps it: an entry may stand behind a later one only   *)
(* if that one was due when the worker last looked at the clock.           *)
(***************************************************************************)
PendingSorted ==
  \A e \in Chain(io_seq) : \A f \in Chain(next[e]) :
    target[e] <= target[f] \/ target[e] <= latest

(***************************************************************************)
(* Write buffer: what is not free belongs to a write whose internal        *)
(* operation is still to come, or it leaked because that operation found   *)
(* the work queue full.                                                    *)
(***************************************************************************)
BufferAccounted ==
  BufferSize - buf =
      Cardinality({e \in Chain(io_seq) : /\ internal[e] /\ ~completed[e]
                                         /\ ~(wpc = "mark" /\ curr = e)})
    + Cardinality({r \in Requests : <<r, TRUE>> \in dropped})
    + (IF isint THEN 1 ELSE 0)

\* Every request is taken off the submission queue in the end, if no
\* internal operation is ever dropped: buffer units come back.
EveryRequestFetched ==
  <>(sq = NReqs) \/ <>(\E r \in Requests : <<r, TRUE>> \in dropped)

-----------------------------------------------------------------------------
(***************************************************************************)
(* The work queue does what WorkQueue promises.  A request is queued once  *)
(* __insert_req_sorted has linked it, and refused when it got no entry.    *)
(***************************************************************************)
Linked == {r \in 1 .. sq : /\ <<r, FALSE>> \notin dropped
                           /\ r = sq => dpc \in {"reclaim", "idle"}}

Queue == INSTANCE WorkQueue WITH
           queued <- Linked,
           refused <- {r \in Requests : <<r, FALSE>> \in dropped}

\* No request is lost, copied or answered twice, or answered before its data
\* has been moved ("IO worker shall see the updated w at once"), whatever
\* dispatcher and worker do to the lists at the same time; and every request
\* that was linked is answered in the end.
ImplementsQueue == Queue!Spec

=============================================================================
