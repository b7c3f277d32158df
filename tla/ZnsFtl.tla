------------------------------- MODULE ZnsFtl -------------------------------
(***************************************************************************)
(* The zoned FTL: zone descriptors, the three zone resources, the write    *)
(* buffer of every zone, zone writes and appends (zns_read_write.c), the   *)
(* zone random write area (ZRWA) and zone management (zns_mgmt_send.c).    *)
(*                                                                         *)
(* A write pointer is the offset wp - zslba in logical blocks.  Commands   *)
(* run one after the other in the dispatcher; the internal operations that *)
(* give buffer space back run later in an I/O worker (Release).            *)
(*                                                                         *)
(* No code moves a zone to READ_ONLY or OFFLINE, so that those states have *)
(* no place here and an offline command always answers                     *)
(* INVALID_TRANSITION.  zns_read and zns_zmgmt_recv change no zone state.  *)
(***************************************************************************)
EXTENDS Integers, FiniteSets

CONSTANTS
  NrZones,      \* zp.nr_zones
  Cap,          \* zone_capacity, which is also the zone size, in blocks
  SecsPerPg,    \* spp->secs_per_pg
  PgsPerOneshot,\* spp->pgs_per_oneshotpg
  WbSize,       \* zone_wb_size, in blocks
  Zrwa, Zrwafg, \* zp.lbas_per_zrwa, zp.lbas_per_zrwafg
  ZrwaBuf,      \* zrwa_buffer_size, in blocks
  MaxLen        \* bound on the length of a write (MDTS)

ASSUME ZnsAssumption ==
  /\ NrZones \in Nat \ {0}
  /\ SecsPerPg \in Nat \ {0}
  /\ PgsPerOneshot \in Nat \ {0}
  /\ Cap \in Nat \ {0}
  /\ Cap % SecsPerPg = 0
  /\ WbSize \in Nat
  /\ Zrwa \in Nat \ {0}
  /\ Zrwafg \in 1 .. Zrwa
  /\ ZrwaBuf \in Nat
  /\ MaxLen \in 1 .. Cap

Zones  == 0 .. NrZones - 1
Opened == {"OPENED_IMPL", "OPENED_EXPL"}
Active == Opened \cup {"CLOSED"}
States == Active \cup {"EMPTY", "FULL"}
Actions == {"CLOSE", "FINISH", "OPEN", "RESET", "OFFLINE", "FLUSH_ZRWA"}

VARIABLES
  state, wp, zrwav,     \* zone_descs[]: state, wp - zslba, ZRWA valid
  open, active, zrwa,   \* res_infos[].acquired_cnt; total_cnt is nr_zones for all
  wb,                   \* zone_write_buffer[].remaining
  zb,                   \* zwra_buffer[].remaining
  wbOut, zbOut,         \* blocks that scheduled internal operations will release
  spilt,                \* blocks of the write buffer that no operation will release
  sweep,                \* the select_all loop: next zone, action and option
  panic                 \* NVMEV_ASSERT(0) was reached

zoneVars == <<state, wp, zrwav>>
resVars  == <<open, active, zrwa>>
bufVars  == <<wb, zb, wbOut, zbOut, spilt>>
vars == <<zoneVars, resVars, bufVars, sweep, panic>>

NoSweep == [zid |-> NrZones, act |-> "NONE", opt |-> FALSE]
Sweeping == sweep # NoSweep

B(cond) == IF cond THEN 1 ELSE 0

-----------------------------------------------------------------------------
\* __init_descriptor and __init_resource
Init ==
  /\ state = [z \in Zones |-> "EMPTY"]
  /\ wp = [z \in Zones |-> 0]
  /\ zrwav = [z \in Zones |-> FALSE]
  /\ open = 0 /\ active = 0 /\ zrwa = 0
  /\ wb = [z \in Zones |-> WbSize]
  /\ zb = [z \in Zones |-> ZrwaBuf]
  /\ wbOut = [z \in Zones |-> 0]
  /\ zbOut = [z \in Zones |-> 0]
  /\ spilt = [z \in Zones |-> 0]
  /\ sweep = NoSweep
  /\ panic = FALSE

\* is_zone_resource_full
Exhausted(acquired) == acquired = NrZones

-----------------------------------------------------------------------------
(***************************************************************************)
(* Buffer geometry: a wordline (one-shot page) is programmed, and its      *)
(* space released, by the write that reaches its last page.                *)
(***************************************************************************)
LastPg == Cap \div SecsPerPg - 1
WlBlocks == PgsPerOneshot * SecsPerPg
UnalignedSpace == Cap % WlBlocks

EndsWordline(pg) == (pg + 1) % PgsPerOneshot = 0

\* Mutant of ReleasedBy: the wordline that the end of the zone cuts short is
\* not looked for.
ReleasedByNoTail(off, n) ==
  LET pgs == off \div SecsPerPg .. (off + n - 1) \div SecsPerPg
  IN  WlBlocks * Cardinality({p \in pgs : EndsWordline(p)})

\* What the internal operations of a write of n blocks at off release.  The
\* loop counts pages, so that each of several writes into the last page of a
\* wordline programs that wordline and releases the whole of it.
ReleasedBy(off, n) ==
  LET pgs == off \div SecsPerPg .. (off + n - 1) \div SecsPerPg
  IN  IF LastPg \in pgs /\ UnalignedSpace > 0
      THEN WlBlocks * Cardinality({p \in pgs \ {LastPg} : EndsWordline(p)}) + UnalignedSpace
      ELSE WlBlocks * Cardinality({p \in pgs : EndsWordline(p)})

\* What those of an implicit ZRWA flush release: whole wordlines only.
ReleasedByFlush(off, n) ==
  LET pgs == off \div SecsPerPg .. off \div SecsPerPg + n \div SecsPerPg - 1
  IN  WlBlocks * Cardinality({p \in pgs : EndsWordline(p)})

\* A write pointer w inside the last page of a wordline.
Touched(w) ==
  LET pg == w \div SecsPerPg
  IN  w % SecsPerPg # 0 /\ (EndsWordline(pg) \/ pg = LastPg)

\* Blocks below write pointer w in a wordline that was not programmed yet.
Unprogrammed(w) == IF w = Cap \/ Touched(w) THEN 0 ELSE w % WlBlocks

-----------------------------------------------------------------------------
(***************************************************************************)
(* __zns_write: a write at off of zone z, or an append.  A write that does *)
(* not fit into the buffer is tried again later, and a write that fails    *)
(* one of the checks keeps what it has taken from the buffer.              *)
(***************************************************************************)
\* __check_boundary_error: the first and the last block lie in one zone.  An
\* append to a zone whose wp is at its end begins in the zone behind it.
SameZone(off, n) == off < Cap => off + n <= Cap

WriteError(z, off, n) ==
  IF ~SameZone(off, n) THEN "BOUNDARY"
  ELSE IF off # wp[z] THEN "INVALID_WRITE"
  ELSE IF state[z] = "EMPTY" /\ Exhausted(active) THEN "NO_ACTIVE"
  ELSE IF state[z] \in {"EMPTY", "CLOSED"} /\ Exhausted(open) THEN "NO_OPEN"
  ELSE IF state[z] = "FULL" THEN "OFFLINE"    \* its case has no break
  ELSE "SUCCESS"

\* Mutant of OpenAndAdvance: a zone that becomes full stays active.
OpenAndAdvanceKeepActive(z, n, acquired) ==
  LET fills == wp[z] + n = Cap IN
  /\ wp' = [wp EXCEPT ![z] = @ + n]
  /\ state' = [state EXCEPT ![z] = IF fills THEN "FULL"
                                   ELSE IF @ \in Opened THEN @ ELSE "OPENED_IMPL"]
  /\ open' = open + B(state[z] \notin Opened) - B(fills)
  /\ active' = active + acquired

\* Mutant of OpenAndAdvance: the end of the zone is one block further.
OpenAndAdvanceLate(z, n, acquired) ==
  LET fills == wp[z] + n = Cap + 1 IN
  /\ wp' = [wp EXCEPT ![z] = @ + n]
  /\ state' = [state EXCEPT ![z] = IF fills THEN "FULL"
                                   ELSE IF @ \in Opened THEN @ ELSE "OPENED_IMPL"]
  /\ open' = open + B(state[z] \notin Opened) - B(fills)
  /\ active' = active + acquired - B(fills)

\* The zone is opened if need be, and __increase_write_ptr moves wp on and
\* closes a zone that is full.
OpenAndAdvance(z, n, acquired) ==
  LET fills == wp[z] + n = Cap IN
  /\ wp' = [wp EXCEPT ![z] = @ + n]
  /\ state' = [state EXCEPT ![z] = IF fills THEN "FULL"
                                   ELSE IF @ \in Opened THEN @ ELSE "OPENED_IMPL"]
  /\ open' = open + B(state[z] \notin Opened) - B(fills)
  /\ active' = active + acquired - B(fills)

DoWrite(z, off, n) ==
  LET err == WriteError(z, off, n) IN
  /\ ~zrwav[z]
  /\ wb[z] >= n
  /\ wb' = [wb EXCEPT ![z] = @ - n]
  /\ IF err = "SUCCESS"
     THEN /\ OpenAndAdvance(z, n, B(state[z] = "EMPTY"))
          /\ wbOut' = [wbOut EXCEPT ![z] = @ + ReleasedBy(off, n)]
          /\ UNCHANGED spilt
     ELSE /\ spilt' = [spilt EXCEPT ![z] = @ + n]
          /\ UNCHANGED <<state, wp, open, active, wbOut>>
  /\ UNCHANGED <<zrwav, zrwa, zb, zbOut, sweep, panic>>

ZnsWrite(z, off, n) == ~Sweeping /\ DoWrite(z, off, n)

\* A zone append goes to the write pointer, wherever that is.
ZnsAppend(z, n) == ~Sweeping /\ DoWrite(z, wp[z], n)

-----------------------------------------------------------------------------
(***************************************************************************)
(* __zns_write_zrwa: a write into the random write area, which reaches     *)
(* from wp over twice lbas_per_zrwa blocks.  Blocks beyond the first half  *)
(* flush the area implicitly.  A zone that was closed takes zrwa_size from *)
(* its ZRWA buffer again, or the kernel stops.                             *)
(***************************************************************************)
ZrwaWriteError(z, off, n) ==
  IF ~SameZone(off, n) THEN "BOUNDARY"
  ELSE IF off < wp[z] \/ off + n - 1 > wp[z] + 2 * Zrwa - 1 THEN "INVALID_WRITE"
  ELSE IF state[z] \in {"EMPTY", "CLOSED"} /\ Exhausted(open) THEN "NO_OPEN"
  ELSE IF state[z] = "FULL" THEN "FULL"
  ELSE "SUCCESS"

RoundUp(n, unit) == ((n + unit - 1) \div unit) * unit

\* nr_lbas_flush
ImplicitFlush(z, elba) ==
  IF elba >= wp[z] + Zrwa THEN RoundUp(elba - (wp[z] + Zrwa) + 1, Zrwafg)
  ELSE IF elba = Cap - 1 THEN elba - wp[z] + 1
  ELSE 0

ZnsWriteZrwa(z, off, n) ==
  LET err   == ZrwaWriteError(z, off, n)
      flush == ImplicitFlush(z, off + n - 1)
      taken == IF state[z] \in Opened THEN 0 ELSE Zrwa
  IN
  /\ ~Sweeping
  /\ zrwav[z]
  /\ \/ /\ err # "SUCCESS"
        /\ UNCHANGED <<state, wp, open, active, zb, zbOut, panic>>
     \/ /\ err = "SUCCESS" /\ zb[z] < taken
        /\ panic' = TRUE
        /\ UNCHANGED <<state, wp, open, active, zb, zbOut>>
     \* buffer_allocate fails: the zone is open already when the write is retried
     \/ /\ err = "SUCCESS" /\ zb[z] >= taken /\ zb[z] - taken < flush /\ taken > 0
        /\ OpenAndAdvance(z, 0, 0)
        /\ zb' = [zb EXCEPT ![z] = @ - taken]
        /\ UNCHANGED <<zbOut, panic>>
     \/ /\ err = "SUCCESS" /\ zb[z] - taken >= flush
        /\ OpenAndAdvance(z, flush, 0)
        /\ zb' = [zb EXCEPT ![z] = @ - taken - flush]
        /\ zbOut' = [zbOut EXCEPT ![z] = @ + ReleasedByFlush(wp[z], flush)]
        /\ UNCHANGED panic
  /\ UNCHANGED <<zrwav, zrwa, wb, wbOut, spilt, sweep>>

\* The internal operation of a wordline: buffer_release by the I/O worker.
Release(z) ==
  /\ \/ /\ wbOut[z] > 0
        /\ wb' = [wb EXCEPT ![z] = @ + wbOut[z]]
        /\ wbOut' = [wbOut EXCEPT ![z] = 0]
        /\ UNCHANGED <<zb, zbOut>>
     \/ /\ zbOut[z] > 0
        /\ zb' = [zb EXCEPT ![z] = @ + zbOut[z]]
        /\ zbOut' = [zbOut EXCEPT ![z] = 0]
        /\ UNCHANGED <<wb, wbOut>>
  /\ UNCHANGED <<zoneVars, resVars, spilt, sweep, panic>>

-----------------------------------------------------------------------------
(***************************************************************************)
(* Zone management send: one operator per __zmgmt_send_... function.       *)
(***************************************************************************)
CloseZone(z) ==
  /\ state' = [state EXCEPT ![z] = IF @ \in Opened THEN "CLOSED" ELSE @]
  /\ open' = open - B(state[z] \in Opened)
  /\ UNCHANGED <<wp, zrwav, active, zrwa, bufVars>>

\* Mutant of FinishZone: the open resource is not given back.
FinishZoneKeepOpen(z) ==
  /\ state' = [state EXCEPT ![z] = "FULL"]
  /\ active' = active - B(state[z] \in Active)
  /\ zrwa' = zrwa - B(state[z] \in Active /\ zrwav[z])
  /\ UNCHANGED <<wp, zrwav, open, bufVars>>

FinishZone(z) ==
  /\ state' = [state EXCEPT ![z] = "FULL"]
  /\ open' = open - B(state[z] \in Opened)
  /\ active' = active - B(state[z] \in Active)
  /\ zrwa' = zrwa - B(state[z] \in Active /\ zrwav[z])
  /\ UNCHANGED <<wp, zrwav, bufVars>>

\* Mutant of OpenError: a full zone can be opened.
OpenErrorNoFull(z, opt) ==
  IF state[z] = "EMPTY" /\ Exhausted(active) THEN "NO_ACTIVE"
  ELSE IF state[z] \in {"EMPTY", "CLOSED"} /\ Exhausted(open) THEN "NO_OPEN"
  ELSE IF state[z] = "EMPTY" /\ opt /\ Exhausted(zrwa) THEN "ZRWA_UNAVAIL"
  ELSE "SUCCESS"

OpenError(z, opt) ==
  IF state[z] = "EMPTY" /\ Exhausted(active) THEN "NO_ACTIVE"
  ELSE IF state[z] \in {"EMPTY", "CLOSED"} /\ Exhausted(open) THEN "NO_OPEN"
  ELSE IF state[z] = "EMPTY" /\ opt /\ Exhausted(zrwa) THEN "ZRWA_UNAVAIL"
  ELSE IF state[z] = "FULL" THEN "INVALID_TRANSITION"
  ELSE "SUCCESS"

\* opt asks for a ZRWA, which only an empty zone can get.
OpenZone(z, opt) ==
  LET err == OpenError(z, opt)
      ok  == err = "SUCCESS"
      withZrwa == ok /\ state[z] = "EMPTY" /\ opt
  IN
  /\ state' = [state EXCEPT ![z] = IF ok THEN "OPENED_EXPL" ELSE @]
  /\ zrwav' = [zrwav EXCEPT ![z] = @ \/ withZrwa]
  /\ open' = open + B(ok /\ state[z] \notin Opened)
  /\ active' = active + B(ok /\ state[z] = "EMPTY")
  /\ zrwa' = zrwa + B(withZrwa)
  /\ UNCHANGED <<wp, bufVars>>

\* The write buffer of the zone is not refilled: the blocks of a wordline
\* that was not complete are never released.
ResetZone(z) ==
  /\ state' = [state EXCEPT ![z] = "EMPTY"]
  /\ open' = open - B(state[z] \in Opened)
  /\ active' = active - B(state[z] \in Active)
  /\ zrwa' = zrwa - B(state[z] \in Active /\ zrwav[z])
  /\ wp' = [wp EXCEPT ![z] = 0]
  /\ zrwav' = [zrwav EXCEPT ![z] = FALSE]
  /\ zb' = [zb EXCEPT ![z] = ZrwaBuf]
  /\ spilt' = [spilt EXCEPT ![z] = IF zrwav[z] THEN @ ELSE @ + Unprogrammed(wp[z])]
  /\ UNCHANGED <<wb, wbOut, zbOut>>

OfflineZone(z) ==
  UNCHANGED <<zoneVars, resVars, bufVars>>

FlushError(z, off) ==
  LET end == IF wp[z] + Zrwa <= Cap THEN wp[z] + Zrwa - 1 ELSE Cap - 1
  IN  IF ~zrwav[z] \/ ~(wp[z] <= off /\ off <= end) THEN "INVALID_OPERATION"
      ELSE IF (off - wp[z] + 1) % Zrwafg # 0 THEN "INVALID_FIELD"
      ELSE IF state[z] \notin Active THEN "INVALID_OPERATION"
      ELSE "SUCCESS"

\* Mutant of FlushZrwa: a closed zone gives an open resource back too.
FlushZrwaClosed(z, off) ==
  LET err   == FlushError(z, off)
      fills == err = "SUCCESS" /\ off + 1 = Cap
  IN
  /\ wp' = [wp EXCEPT ![z] = IF err = "SUCCESS" THEN off + 1 ELSE @]
  /\ state' = [state EXCEPT ![z] = IF fills THEN "FULL" ELSE @]
  /\ open' = open - B(fills)
  /\ active' = active - B(fills)
  /\ zrwa' = zrwa - B(fills)
  /\ UNCHANGED <<zrwav, bufVars>>

\* __zmgmt_send_flush_explicit_zrwa: the area is committed up to off.
FlushZrwa(z, off) ==
  LET err   == FlushError(z, off)
      fills == err = "SUCCESS" /\ off + 1 = Cap
  IN
  /\ wp' = [wp EXCEPT ![z] = IF err = "SUCCESS" THEN off + 1 ELSE @]
  /\ state' = [state EXCEPT ![z] = IF fills THEN "FULL" ELSE @]
  /\ open' = open - B(fills /\ state[z] # "CLOSED")
  /\ active' = active - B(fills)
  /\ zrwa' = zrwa - B(fills)
  /\ UNCHANGED <<zrwav, bufVars>>

ZmgmtSend(z, act, opt, off) ==
  CASE act = "CLOSE" -> CloseZone(z)
    [] act = "FINISH" -> FinishZone(z)
    [] act = "OPEN" -> OpenZone(z, opt)
    [] act = "RESET" -> ResetZone(z)
    [] act = "OFFLINE" -> OfflineZone(z)
    [] act = "FLUSH_ZRWA" -> FlushZrwa(z, off)

\* zns_zmgmt_send for one zone ...
Manage(z, act, opt, off) ==
  /\ ~Sweeping
  /\ ZmgmtSend(z, act, opt, off)
  /\ UNCHANGED <<sweep, panic>>

\* ... and with select_all, one zone after the other, whose statuses are
\* thrown away.
SweepZone(zid, act, opt) ==
  /\ ZmgmtSend(zid, act, opt, 0)
  /\ sweep' = IF zid + 1 = NrZones THEN NoSweep
              ELSE [zid |-> zid + 1, act |-> act, opt |-> opt]
  /\ UNCHANGED panic

SelectAll(act, opt) == ~Sweeping /\ SweepZone(0, act, opt)

SelectNext == Sweeping /\ SweepZone(sweep.zid, sweep.act, sweep.opt)

-----------------------------------------------------------------------------
\* The ZRWA option means something only to an open command.
Options(act) == IF act = "OPEN" THEN BOOLEAN ELSE {FALSE}

Command(z) ==
  \/ \E off \in 0 .. Cap - 1, n \in 1 .. MaxLen : ZnsWrite(z, off, n) \/ ZnsWriteZrwa(z, off, n)
  \/ \E n \in 1 .. MaxLen : ZnsAppend(z, n)
  \/ \E act \in Actions \ {"FLUSH_ZRWA"} : \E opt \in Options(act) : Manage(z, act, opt, 0)
  \/ \E off \in 0 .. Cap - 1 : Manage(z, "FLUSH_ZRWA", FALSE, off)

Next ==
  \/ ~panic /\ \E z \in Zones : Command(z)
  \/ ~panic /\ \E act \in Actions : \E opt \in Options(act) : SelectAll(act, opt)
  \/ ~panic /\ SelectNext
  \/ \E z \in Zones : Release(z)

Spec == Init /\ [][Next]_vars

-----------------------------------------------------------------------------
(***************************************************************************)
(* Properties.                                                             *)
(***************************************************************************)
\* The counts are unsigned and ASSERT is empty: they never go below zero.
TypeOK ==
  /\ state \in [Zones -> States]
  /\ wp \in [Zones -> 0 .. Cap]
  /\ zrwav \in [Zones -> BOOLEAN]
  /\ open \in 0 .. NrZones /\ active \in 0 .. NrZones /\ zrwa \in 0 .. NrZones
  /\ wb \in [Zones -> Nat] /\ zb \in [Zones -> Nat]
  /\ wbOut \in [Zones -> Nat] /\ zbOut \in [Zones -> Nat] /\ spilt \in [Zones -> Nat]
  /\ sweep \in [zid : Zones, act : Actions, opt : BOOLEAN] \cup {NoSweep}
  /\ panic \in BOOLEAN

InState(S) == {z \in Zones : state[z] \in S}

\* res_infos[] count exactly the open and the active zones.
ResourcesCounted ==
  /\ open = Cardinality(InState(Opened))
  /\ active = Cardinality(InState(Active))

\* The zones that hold a ZRWA.
ZrwaZones == {z \in InState(Active) : zrwav[z]}

\* Every zone with a ZRWA is counted, so that giving one back never wraps.
ZrwaCovered == zrwa >= Cardinality(ZrwaZones)

\* The write pointer and the state of a zone agree.
WpMatchesState ==
  \A z \in Zones :
    /\ state[z] = "EMPTY" => wp[z] = 0 /\ ~zrwav[z]
    /\ state[z] \in Active => wp[z] < Cap

\* There is one open and one active resource per zone: no command that asks
\* for one is ever refused for want of it.
NeverExhausted ==
  \A z \in Zones : /\ state[z] = "EMPTY" => ~Exhausted(active)
                   /\ state[z] \notin Opened => ~Exhausted(open)

\* No write keeps buffer space for good: what a zone's writes have taken is
\* free again, or about to be released, or waits in a wordline that is not
\* programmed yet; all that may be missing was lost by a failed write or by a
\* reset (spilt).  A zone whose space leaks would stall its writes for ever.
BufferCovered ==
  \A z \in Zones :
    wb[z] + wbOut[z] + spilt[z] + (IF zrwav[z] THEN 0 ELSE Unprogrammed(wp[z])) >= WbSize

\* A write pointer moves only forwards, except that a reset takes it back to
\* the start of the zone, and only a reset makes a full zone writable.
WpMonotone ==
  [][\A z \in Zones :
       \/ wp'[z] >= wp[z] /\ (state[z] = "FULL" => state'[z] = "FULL")
       \/ wp'[z] = 0 /\ state'[z] = "EMPTY"]_vars

=============================================================================
