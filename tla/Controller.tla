----------------------------- MODULE Controller -----------------------------
(***************************************************************************)
(* The controller as the host sees it: registers (nvmev_proc_bars), the    *)
(* admin queue and the commands that create and delete an I/O queue pair   *)
(* (admin.c), doorbells (nvmev_proc_dbs), and the posting of completions   *)
(* and interrupts by the I/O worker (io.c).                                *)
(*                                                                         *)
(* Three threads of control: the host's driver, the dispatcher and the     *)
(* worker that serves the pair (queue i belongs to worker (i - 1) % nr).   *)
(* The work queue between dispatcher and worker, which IoWorker models, is *)
(* a set here, and the worker may answer its members in any order.         *)
(*                                                                         *)
(* The host is external.  It sets the admin queue up once, has no more     *)
(* than QSize - 1 commands outstanding, creates and deletes completion and *)
(* submission queue together, and deletes a completion queue only when the *)
(* worker is not in the middle of its interrupt.                           *)
(***************************************************************************)
EXTENDS Integers, Sequences, FiniteSets

CONSTANTS
  Tags,      \* command identifiers of I/O commands
  QSize,     \* queue_size of the submission and of the completion queue
  AqDepth,   \* sq_depth and cq_depth of the admin queue
  NULL

ASSUME ControllerAssumption ==
  /\ QSize \in Nat /\ AqDepth \in Nat /\ AqDepth > 1
  /\ IsFiniteSet(Tags) /\ Cardinality(Tags) < QSize

QueueCmds == {"num_queues", "create_cq", "create_sq", "delete_sq", "delete_cq"}

\* Identify, log pages, the other features, async events and unknown opcodes
\* are answered and change nothing.
AdminCmds == QueueCmds \cup {"other"}

\* asq and acq are 64-bit registers, which the host may write in two halves;
\* the values that the registers have in the end.
Set == [aqa |-> 1, asq |-> 2, acq |-> 2, cc |-> 1]
Regs == DOMAIN Set
\* The completion doorbells feed statistics only and are left out.
Doorbells == {"asq", "sq"}

VARIABLES
  bar, old_bar, rdy,     \* registers, their last seen values, csts.rdy
  admin_q,               \* NULL or [head, phase]: cq_head and phase
  dbs, old_dbs,
  asqe, acqe, sqe, cqe,  \* the four rings, in the host's memory
  nr_sq,                 \* number of submission queues: 0 or 1
  sq,                    \* sqes[1] is not NULL
  cq,                    \* cqes[1]: NULL or [head, phase, ready]
  work,                  \* commands in the work queue
  disp,                  \* the dispatcher: [pc, seq, num]
  worker,                \* the worker's pc
  irq,                   \* interrupt vectors raised and not yet handled
  hadm, hio,             \* the host's [tail, head, phase] of either queue
  hout, busy,            \* commands that it has not seen answered
  hq,                    \* "boot", "none", "cq", "both", "closing": its I/O queues
  handling,              \* vectors whose handler runs
  \* History: completions written and not yet taken by the host, in order
  aposted, posted

devVars  == <<old_bar, rdy, admin_q, old_dbs, nr_sq, sq, cq>>
ringVars == <<asqe, acqe, sqe, cqe>>
hostVars == <<hadm, hio, hout, busy, hq, handling>>
histVars == <<aposted, posted>>
vars == <<bar, devVars, dbs, ringVars, work, disp, worker, irq, hostVars, histVars>>

Slots(n)   == 0 .. n - 1
EmptyCqes(n) == [s \in Slots(n) |-> [cid |-> NULL, phase |-> 0]]
At(pc)     == [pc |-> pc, seq |-> 0, num |-> 0]
Idle       == At("idle")
HostSide   == [tail |-> 0, head |-> 0, phase |-> 1]

\* No queue is NULL.
ASSUME NullAssumption ==
  /\ NULL \notin [head : Slots(AqDepth), phase : {0, 1}]
  /\ NULL \notin [head : Slots(QSize), phase : {0, 1}, ready : BOOLEAN]

Init ==
  /\ bar = [r \in Regs |-> 0] /\ old_bar = bar /\ rdy = FALSE
  /\ admin_q = NULL
  /\ dbs = [d \in Doorbells |-> 0] /\ old_dbs = dbs
  /\ asqe = [s \in Slots(AqDepth) |-> NULL] /\ acqe = EmptyCqes(AqDepth)
  /\ sqe = [s \in Slots(QSize) |-> NULL] /\ cqe = EmptyCqes(QSize)
  /\ nr_sq = 0 /\ sq = FALSE /\ cq = NULL
  /\ work = {}
  /\ disp = Idle
  /\ worker = "pass"
  /\ irq = {}
  /\ hadm = HostSide /\ hio = HostSide
  /\ hout = {} /\ busy = {} /\ hq = "boot" /\ handling = {}
  /\ aposted = << >> /\ posted = << >>

\* Mutant of Advance: the phase stays as it is when the ring wraps.
AdvanceKeepPhase(q, n) == [q EXCEPT !.head = (@ + 1) % n]

\* Mutant of Advance: the ring wraps one slot too late.
AdvanceLate(q, n) ==
  IF q.head = n THEN [q EXCEPT !.head = 0, !.phase = 1 - @]
  ELSE [q EXCEPT !.head = @ + 1]

\* A completion queue of n slots, one slot further.
Advance(q, n) ==
  IF q.head + 1 = n THEN [q EXCEPT !.head = 0, !.phase = 1 - @]
  ELSE [q EXCEPT !.head = @ + 1]

-----------------------------------------------------------------------------
(***************************************************************************)
(* The dispatcher: nvmev_proc_bars, then the doorbells.  A pass over the   *)
(* registers tests one after the other, while the host's stores become     *)
(* visible, and ends with the first one that has changed.                  *)
(***************************************************************************)
Changed(r) == old_bar[r] # bar[r]
Seen(r) == old_bar' = [old_bar EXCEPT ![r] = bar[r]]

\* The test of r at pc finds it changed, or the pass goes on.
Found(pc, r) == disp = At(pc) /\ Changed(r) /\ disp' = Idle
NotFound(pc, r, next) ==
  /\ disp = At(pc) /\ ~Changed(r) /\ disp' = At(next)
  /\ UNCHANGED <<old_bar, rdy, admin_q, dbs, old_dbs>>

\* aqa: the admin queue is allocated, or set back to its start.
BarAqa ==
  /\ Found("idle", "aqa") /\ Seen("aqa")
  /\ admin_q' = [head |-> 0, phase |-> 1]
  /\ dbs' = [dbs EXCEPT !["asq"] = 0] /\ old_dbs' = [old_dbs EXCEPT !["asq"] = 0]
  /\ UNCHANGED rdy

\* asq, acq: nothing is done before there is an admin queue.
BarAsq ==
  /\ Found("bar_asq", "asq")
  /\ \/ admin_q = NULL /\ UNCHANGED <<old_bar, dbs, old_dbs>>
     \/ /\ admin_q # NULL /\ Seen("asq")
        /\ dbs' = [dbs EXCEPT !["asq"] = 0] /\ old_dbs' = [old_dbs EXCEPT !["asq"] = 0]
  /\ UNCHANGED <<admin_q, rdy>>

BarAcq ==
  /\ Found("bar_acq", "acq")
  /\ \/ admin_q = NULL /\ UNCHANGED <<old_bar, admin_q>>
     \/ /\ admin_q # NULL /\ Seen("acq")
        /\ admin_q' = [admin_q EXCEPT !.head = 0]
  /\ UNCHANGED <<dbs, old_dbs, rdy>>

\* cc.en: without an admin queue the kernel warns, and rdy stays as it is.
BarCc ==
  /\ Found("bar_cc", "cc") /\ Seen("cc")
  /\ rdy' = (admin_q # NULL)
  /\ UNCHANGED <<admin_q, dbs, old_dbs>>

\* A pass finds nothing once it has seen all that the host writes.
ProcBars ==
  /\ old_bar # Set
  /\ \/ BarAqa \/ NotFound("idle", "aqa", "bar_asq")
     \/ BarAsq \/ NotFound("bar_asq", "asq", "bar_acq")
     \/ BarAcq \/ NotFound("bar_acq", "acq", "bar_cc")
     \/ BarCc \/ NotFound("bar_cc", "cc", "idle")
  /\ UNCHANGED <<bar, ringVars, nr_sq, sq, cq, work, worker, irq, hostVars, histVars>>

\* What a command does to the I/O queues: the feature "number of queues" sets
\* how many the dispatcher polls, and creating a queue sets its doorbell to 0.
AdminEffect(c) ==
  /\ nr_sq' = IF c = "num_queues" THEN 1 ELSE nr_sq
  /\ sq' = (c = "create_sq" \/ (sq /\ c # "delete_sq"))
  /\ cq' = CASE c = "create_cq" -> [head |-> 0, phase |-> 1, ready |-> FALSE]
             [] c = "delete_cq" -> NULL
             [] OTHER -> cq
  /\ LET Reset(f) == IF c = "create_sq" THEN [f EXCEPT !["sq"] = 0] ELSE f
     IN  dbs' = Reset(dbs) /\ old_dbs' = Reset(old_dbs)

\* nvmev_proc_dbs sees a doorbell of a queue of n slots that exists.
SeeDoorbell(d, n) ==
  /\ disp = Idle
  /\ dbs[d] # old_dbs[d]
  /\ d = "sq" => nr_sq >= 1 /\ sq
  /\ disp' = [pc |-> d, seq |-> 0, num |-> (dbs[d] - old_dbs[d]) % n]
  /\ UNCHANGED <<bar, devVars, dbs, ringVars, work, worker, irq, hostVars, histVars>>

\* The pages of the admin rings are known, from the whole of both addresses.
RingsKnown == \A r \in {"asq", "acq"} : old_bar[r] = Set[r]

\* nvmev_proc_admin_sq without them follows a NULL or a half address: the
\* kernel stops, or reads and writes somewhere.  This is followed no further.
AdminAstray ==
  /\ disp.pc = "asq" /\ disp.seq < disp.num
  /\ ~RingsKnown
  /\ disp' = At("astray")
  /\ UNCHANGED <<bar, devVars, dbs, ringVars, work, worker, irq, hostVars, histVars>>

\* nvmev_proc_admin_sq: one command after the other up to the doorbell that
\* was read, each with its completion.  A slot that has been read is not read
\* again, and is emptied.
AdminReq ==
  LET s == (old_dbs["asq"] + disp.seq) % AqDepth
      c == asqe[s]
  IN
  /\ disp.pc = "asq" /\ disp.seq < disp.num
  /\ RingsKnown
  /\ AdminEffect(c)
  /\ asqe' = [asqe EXCEPT ![s] = NULL]
  /\ acqe' = [acqe EXCEPT ![admin_q.head] = [cid |-> c, phase |-> admin_q.phase]]
  /\ aposted' = Append(aposted, c)
  /\ admin_q' = Advance(admin_q, AqDepth)
  /\ disp' = [disp EXCEPT !.seq = @ + 1]
  /\ UNCHANGED <<bar, old_bar, rdy, sqe, cqe, work, worker, irq, hostVars, posted>>

\* Then the interrupt.
EndAdmin ==
  /\ disp.pc = "asq" /\ disp.seq = disp.num
  /\ old_dbs' = [old_dbs EXCEPT !["asq"] = (@ + disp.num) % AqDepth]
  /\ irq' = irq \cup {0}
  /\ disp' = Idle
  /\ UNCHANGED <<bar, old_bar, rdy, admin_q, nr_sq, sq, cq, dbs, ringVars, work, worker, hostVars, histVars>>

\* nvmev_proc_io_sq: a command that the FTL accepts goes to the work queue.
Accept ==
  LET s == (old_dbs["sq"] + disp.seq) % QSize IN
  /\ disp.pc = "sq" /\ disp.seq < disp.num
  /\ work' = work \cup {sqe[s]}
  /\ sqe' = [sqe EXCEPT ![s] = NULL]
  /\ disp' = [disp EXCEPT !.seq = @ + 1]
  /\ UNCHANGED <<bar, devVars, dbs, asqe, acqe, cqe, worker, irq, hostVars, histVars>>

\* Mutant of EndFetch: the doorbell counts as processed to its end.
EndFetchAll ==
  /\ disp.pc = "sq"
  /\ old_dbs' = [old_dbs EXCEPT !["sq"] = (@ + disp.num) % QSize]
  /\ disp' = Idle
  /\ UNCHANGED <<bar, old_bar, rdy, admin_q, nr_sq, sq, cq, dbs, ringVars, work, worker, irq, hostVars, histVars>>

\* All commands were accepted, or the FTL has refused one for want of write
\* buffer: it is offered again in the next pass.
EndFetch ==
  /\ disp.pc = "sq"
  /\ old_dbs' = [old_dbs EXCEPT !["sq"] = (@ + disp.seq) % QSize]
  /\ disp' = Idle
  /\ UNCHANGED <<bar, old_bar, rdy, admin_q, nr_sq, sq, cq, dbs, ringVars, work, worker, irq, hostVars, histVars>>

Dispatcher ==
  \/ ProcBars
  \/ SeeDoorbell("asq", AqDepth) \/ AdminReq \/ AdminAstray \/ EndAdmin
  \/ SeeDoorbell("sq", QSize) \/ Accept \/ EndFetch

-----------------------------------------------------------------------------
(***************************************************************************)
(* The worker.                                                             *)
(***************************************************************************)
\* __fill_cq_result, first half: the host can see the entry from here on.
Fill(t) ==
  /\ worker = "pass" /\ t \in work
  /\ cqe' = [cqe EXCEPT ![cq.head] = [cid |-> t, phase |-> cq.phase]]
  /\ posted' = Append(posted, t)
  /\ worker' = "filled"
  /\ work' = work \ {t}
  /\ UNCHANGED <<bar, devVars, dbs, asqe, acqe, sqe, disp, irq, hostVars, aposted>>

\* Second half: cq_head, the phase and interrupt_ready.
Filled ==
  /\ worker = "filled"
  /\ cq' = [Advance(cq, QSize) EXCEPT !.ready = TRUE]
  /\ worker' = "pass"
  /\ UNCHANGED <<bar, old_bar, rdy, admin_q, old_dbs, nr_sq, sq, dbs, ringVars, work, disp, irq, hostVars, histVars>>

\* The end of a pass over the work queue: interrupt_ready is tested and
\* cleared, and then the interrupt is raised.
TestIrq ==
  /\ worker = "pass"
  /\ cq # NULL /\ cq.ready
  /\ cq' = [cq EXCEPT !.ready = FALSE]
  /\ worker' = "signal"
  /\ UNCHANGED <<bar, old_bar, rdy, admin_q, old_dbs, nr_sq, sq, dbs, ringVars, work, disp, irq, hostVars, histVars>>

SignalIrq ==
  /\ worker = "signal"
  /\ irq' = irq \cup {1}
  /\ worker' = "pass"
  /\ UNCHANGED <<bar, devVars, dbs, ringVars, work, disp, hostVars, histVars>>

Worker == (\E t \in Tags : Fill(t)) \/ Filled \/ TestIrq \/ SignalIrq

-----------------------------------------------------------------------------
(***************************************************************************)
(* The host's driver (external).                                           *)
(***************************************************************************)
\* The addresses and the depth of the admin queue in any order, as the stores
\* may become visible; cc.en after them.
WriteReg(r) ==
  /\ bar[r] < Set[r]
  /\ r = "cc" => \A s \in Regs \ {"cc"} : bar[s] = Set[s]
  /\ bar' = [bar EXCEPT ![r] = @ + 1]
  /\ UNCHANGED <<devVars, dbs, ringVars, work, disp, worker, irq, hostVars, histVars>>

\* The driver issues one queue command at a time.  It deletes the submission
\* queue when all its commands have been answered, though it may not have
\* taken the answers yet.
MayIssue(c) ==
  /\ c \notin hout
  /\ c \in QueueCmds => hout \cap QueueCmds = {}
  /\ c = "num_queues" => hq = "boot"
  /\ c = "create_cq" => hq = "none"
  /\ c = "create_sq" => hq = "cq"
  /\ c = "delete_sq" => /\ hq = "both"
                        /\ work = {} /\ worker # "filled"
                        /\ disp.pc # "sq" /\ dbs["sq"] = old_dbs["sq"]
  /\ c = "delete_cq" => hq = "closing" /\ busy = {} /\ 1 \notin handling /\ worker = "pass"

SubmitAdmin(c) ==
  /\ rdy /\ Cardinality(hout) < AqDepth - 1
  /\ MayIssue(c)
  /\ asqe' = [asqe EXCEPT ![hadm.tail] = c]
  /\ hadm' = [hadm EXCEPT !.tail = (@ + 1) % AqDepth]
  /\ dbs' = [dbs EXCEPT !["asq"] = (hadm.tail + 1) % AqDepth]
  /\ hout' = hout \cup {c}
  /\ IF c = "create_cq" THEN cqe' = EmptyCqes(QSize) /\ hio' = HostSide ELSE UNCHANGED <<cqe, hio>>
  /\ UNCHANGED <<bar, devVars, acqe, sqe, work, disp, worker, irq, busy, hq, handling, histVars>>

SubmitIo(t) ==
  /\ hq = "both" /\ "delete_sq" \notin hout
  /\ t \notin busy
  /\ sqe' = [sqe EXCEPT ![hio.tail] = t]
  /\ hio' = [hio EXCEPT !.tail = (@ + 1) % QSize]
  /\ dbs' = [dbs EXCEPT !["sq"] = (hio.tail + 1) % QSize]
  /\ busy' = busy \cup {t}
  /\ UNCHANGED <<bar, devVars, asqe, acqe, cqe, work, disp, worker, irq, hadm, hout, hq, handling, histVars>>

TakeIrq(v) ==
  /\ v \in irq /\ v \notin handling
  /\ irq' = irq \ {v}
  /\ handling' = handling \cup {v}
  /\ UNCHANGED <<bar, devVars, dbs, ringVars, work, disp, worker, hadm, hio, hout, busy, hq, histVars>>

\* The handlers take entries as long as their phase is the expected one.
\* An entry that has been taken is not looked at again but for its phase.
ReapAdmin ==
  /\ 0 \in handling
  /\ LET e == acqe[hadm.head] IN
     IF e.phase # hadm.phase
     THEN handling' = handling \ {0} /\ UNCHANGED <<hadm, hout, hq, acqe, aposted>>
     ELSE /\ hadm' = Advance(hadm, AqDepth)
          /\ hout' = hout \ {e.cid}
          /\ acqe' = [acqe EXCEPT ![hadm.head].cid = NULL]
          /\ hq' = CASE e.cid \in {"num_queues", "delete_cq"} -> "none"
                     [] e.cid = "create_cq" -> "cq"
                     [] e.cid = "create_sq" -> "both"
                     [] e.cid = "delete_sq" -> "closing"
                     [] OTHER -> hq
          /\ aposted' = Tail(aposted)
          /\ UNCHANGED handling
  /\ UNCHANGED <<bar, devVars, dbs, asqe, sqe, cqe, work, disp, worker, irq, hio, busy, posted>>

ReapIo ==
  /\ 1 \in handling
  /\ LET e == cqe[hio.head] IN
     IF e.phase # hio.phase \/ hq = "none"
     THEN /\ handling' = handling \ {1}
          /\ UNCHANGED <<hio, busy, cqe, posted>>
     ELSE /\ hio' = Advance(hio, QSize)
          /\ busy' = busy \ {e.cid}
          /\ cqe' = [cqe EXCEPT ![hio.head].cid = NULL]
          /\ posted' = Tail(posted)
          /\ UNCHANGED handling
  /\ UNCHANGED <<bar, devVars, dbs, asqe, acqe, sqe, work, disp, worker, irq, hadm, hout, hq, aposted>>

HostIrq == (\E v \in {0, 1} : TakeIrq(v)) \/ ReapAdmin \/ ReapIo

Host ==
  \/ \E r \in Regs : WriteReg(r)
  \/ \E c \in AdminCmds : SubmitAdmin(c)
  \/ \E t \in Tags : SubmitIo(t)
  \/ HostIrq

-----------------------------------------------------------------------------
Next == Dispatcher \/ Worker \/ Host

Spec == Init /\ [][Next]_vars

-----------------------------------------------------------------------------
(***************************************************************************)
(* Properties.                                                             *)
(***************************************************************************)
CqeType(cids) == [cid : cids \cup {NULL}, phase : {0, 1}]
SideType(n) == [tail : Slots(n), head : Slots(n), phase : {0, 1}]

\* Types of registers, queues and rings.
TypeOK ==
  /\ bar \in [Regs -> 0 .. 2] /\ old_bar \in [Regs -> 0 .. 2] /\ rdy \in BOOLEAN
  /\ admin_q \in {NULL} \cup [head : Slots(AqDepth), phase : {0, 1}]
  /\ \A d \in {dbs, old_dbs} :
       d["asq"] \in Slots(AqDepth) /\ d["sq"] \in Slots(QSize)
  /\ asqe \in [Slots(AqDepth) -> AdminCmds \cup {NULL}]
  /\ acqe \in [Slots(AqDepth) -> CqeType(AdminCmds)]
  /\ sqe \in [Slots(QSize) -> Tags \cup {NULL}]
  /\ cqe \in [Slots(QSize) -> CqeType(Tags)]
  /\ nr_sq \in {0, 1} /\ sq \in BOOLEAN
  /\ cq \in {NULL} \cup [head : Slots(QSize), phase : {0, 1}, ready : BOOLEAN]
  /\ work \subseteq Tags /\ busy \subseteq Tags /\ hout \subseteq AdminCmds
  /\ irq \subseteq {0, 1} /\ handling \subseteq {0, 1}
  /\ hadm \in SideType(AqDepth) /\ hio \in SideType(QSize)

\* The changes of the registers are processed in an order that preserves the
\* host's: cc, which it writes last, after the addresses of the admin queue.
\* Otherwise the next passes set back a doorbell that the host has rung, or
\* an admin command is looked for at no address.
OrderPreserved == old_bar["cc"] = Set["cc"] => old_bar = Set

\* The slots of a completion ring from the host's head on hold the
\* completions it has not taken, in the order of posting and with the phase
\* that it expects; the slot behind them has the other phase.
Holds(ring, n, side, seq) ==
  \A i \in 0 .. Len(seq) :
    LET e      == ring[(side.head + i) % n]
        expect == IF side.head + i < n THEN side.phase ELSE 1 - side.phase
    IN  IF i < Len(seq) THEN e.phase = expect /\ e.cid = seq[i + 1]
        ELSE e.phase # expect

\* The host takes every completion once, in order, and never an old entry
\* for a new one, around the ends of both rings and across queues that are
\* deleted and created again.
RingsAgree ==
  /\ Holds(acqe, AqDepth, hadm, aposted)
  /\ Holds(cqe, QSize, hio, posted)

\* The dispatcher has no doorbell to follow, the worker no command to answer
\* and no interrupt to raise, and the host no interrupt to handle.
Quiet ==
  /\ disp = Idle
  /\ dbs["asq"] = old_dbs["asq"]
  /\ nr_sq >= 1 /\ sq => dbs["sq"] = old_dbs["sq"]
  /\ worker = "pass" /\ work = {}
  /\ cq # NULL => ~cq.ready
  /\ irq = {} /\ handling = {}

\* No doorbell and no interrupt is lost: when neither the dispatcher, the
\* worker nor an interrupt handler has anything to do, every command has been
\* answered and the host has taken the answer.  All that can be lost is an
\* admin doorbell that a register noticed late has set back, until the host
\* rings it again.
NothingLost == Quiet => busy = {} /\ (dbs["asq"] = hadm.tail => hout = {})

=============================================================================
