----------------------------- MODULE ZnsSnapshot -----------------------------
(***************************************************************************)
(* The data of a zoned device and its snapshots (zns_save_load.c).  The    *)
(* dispatcher decides about a command, an I/O worker copies the data later *)
(* (Copy); a reset zeroes the zone at once, in the dispatcher.             *)
(* save_zns_device writes the zone descriptors, the resources, what is     *)
(* left of the buffers and the written part of every zone into a file;     *)
(* load_zns_device replaces device and storage by what a file holds.       *)
(*                                                                         *)
(* The build that links this code (MI) has write buffers and no ZRWA       *)
(* buffer.  Neither command stops the dispatcher or the worker: the model  *)
(* lets a device be saved, loaded or inserted again only when nothing is   *)
(* under way, and follows a device no further on which a load left parts   *)
(* of a file out (damaged), but for another load or insertion.             *)
(***************************************************************************)
EXTENDS ZnsFtl

CONSTANT Careless   \* what a host may do that a careful one does not

ASSUME SnapshotAssumption ==
  /\ ZrwaBuf = 0 /\ WbSize > 0
  /\ Careless \subseteq {"rejected", "reset"}

VARIABLES
  data,      \* storage_mapped: which write a block holds, 0 for zeros
  want,      \* the last accepted write of every block
  stamp,     \* writes so far
  copies,    \* the ranges of blocks that writes have yet to copy
  file,      \* the dump file
  loaded,    \* no command was handled since load_zns_device returned 0
  damaged,   \* ... and parts of the device were missing in the file
  stuck      \* load_zns_device does not return, or the kernel has stopped

dataVars == <<data, want, stamp, copies>>
snapVars == <<dataVars, file, loaded, damaged, stuck>>

NoFile == [cut |-> << >>]

Block(z, off) == z * Cap + off
Extent(z, off, n) == Block(z, off) .. Block(z, off) + n - 1
ZoneBlocks(z) == Extent(z, 0, Cap)
Storage == 0 .. NrZones * Cap - 1

SnapInit ==
  /\ Init
  /\ data = [b \in Storage |-> 0]
  /\ want = [b \in Storage |-> 0]
  /\ stamp = 0
  /\ copies = {}
  /\ file = NoFile
  /\ loaded = FALSE
  /\ damaged = FALSE
  /\ stuck = FALSE

-----------------------------------------------------------------------------
\* The write of n blocks at off is queued, whatever its status.
Queue(z, off, n) ==
  LET range == Extent(z, off, n) IN
  /\ stamp' = stamp + 1
  /\ copies' = copies \cup {[blocks |-> range, v |-> stamp + 1]}
  /\ want' = IF WriteError(z, off, n) = "SUCCESS"
             THEN [b \in Storage |-> IF b \in range THEN stamp + 1 ELSE want[b]]
             ELSE want
  /\ loaded' = FALSE
  /\ UNCHANGED <<data, file, damaged, stuck>>

\* A careful host sends no write that is bound to fail.
MaySend(z, off, n) == WriteError(z, off, n) = "SUCCESS" \/ "rejected" \in Careless

\* Mutant of HostWrite: the copy of an append goes to the start of the zone.
HostWriteNotMoved(z, off, n) ==
  \/ MaySend(z, off, n) /\ ZnsWrite(z, off, n) /\ Queue(z, off, n)
  \/ /\ MaySend(z, wp[z], n) /\ ZnsAppend(z, n)
     /\ copies' = copies \cup {[blocks |-> Extent(z, 0, n), v |-> stamp + 1]}
     /\ stamp' = stamp + 1
     /\ want' = [b \in Storage |-> IF b \in Extent(z, wp[z], n) THEN stamp + 1 ELSE want[b]]
     /\ loaded' = FALSE
     /\ UNCHANGED <<data, file, damaged, stuck>>

\* An append writes wp into the command before it is queued.
HostWrite(z, off, n) ==
  \/ MaySend(z, off, n) /\ ZnsWrite(z, off, n) /\ Queue(z, off, n)
  \/ MaySend(z, wp[z], n) /\ ZnsAppend(z, n) /\ Queue(z, wp[z], n)

\* __do_perform_io in an I/O worker.  A range that reaches beyond the last
\* zone changes memory that is not modelled.
Copy(e) ==
  /\ e \in copies
  /\ copies' = copies \ {e}
  /\ data' = [b \in Storage |-> IF b \in e.blocks THEN e.v ELSE data[b]]
  /\ UNCHANGED <<vars, want, stamp, file, loaded, damaged, stuck>>

\* A careful host resets a zone when its writes to it have completed.
MayManage(zones, act) ==
  \/ act # "RESET" \/ "reset" \in Careless
  \/ \A e \in copies, z \in zones : e.blocks \cap ZoneBlocks(z) = {}

\* __reset_zone zeroes the zone; the other commands leave the data alone.
ManageData(z, act) ==
  /\ data' = IF act = "RESET"
             THEN [b \in Storage |-> IF b \in ZoneBlocks(z) THEN 0 ELSE data[b]]
             ELSE data
  /\ loaded' = FALSE
  /\ UNCHANGED <<want, stamp, copies, file, damaged, stuck>>

Management(act) ==
  \/ \E z \in Zones : MayManage({z}, act) /\ Manage(z, act, FALSE, 0) /\ ManageData(z, act)
  \/ MayManage(Zones, act) /\ SelectAll(act, FALSE) /\ ManageData(0, act)
  \/ Sweeping /\ act = sweep.act /\ SelectNext /\ ManageData(sweep.zid, act)

-----------------------------------------------------------------------------
(***************************************************************************)
(* A file is a sequence of items; an item has its place in the file.       *)
(***************************************************************************)
Header   == <<0, 0, 0>>
StateAt(z)   == <<1, z, 0>>
WpAt(z)      == <<1, z, 1>>
ActiveAt == <<2, 0, 0>>
OpenAt   == <<2, 0, 1>>
ZrwaAt   == <<2, 0, 2>>
BufAt(z)     == <<3, z, 0>>
ZidAt(z)     == <<4, z, 0>>
LenAt(z)     == <<4, z, 1>>
DataAt(z, off) == <<4, z, 2 + off>>
Sentinel == <<5, 0, 0>>
End      == <<6, 0, 0>>

Before(p, q) ==
  \/ p[1] < q[1]
  \/ p[1] = q[1] /\ p[2] < q[2]
  \/ p[1] = q[1] /\ p[2] = q[2] /\ p[3] < q[3]

\* The zones for which a chunk (zid, byte_len, data) is written.
ZonesWithData == {z \in Zones : state[z] # "EMPTY" /\ wp[z] > 0}

Items ==
  {Header, ActiveAt, OpenAt, ZrwaAt, Sentinel}
    \cup {StateAt(z) : z \in Zones} \cup {WpAt(z) : z \in Zones} \cup {BufAt(z) : z \in Zones}
    \cup {ZidAt(z) : z \in ZonesWithData} \cup {LenAt(z) : z \in ZonesWithData}
    \cup UNION {{DataAt(z, off) : off \in 0 .. wp[z] - 1} : z \in ZonesWithData}

Idle == ~Sweeping /\ copies = {} /\ \A z \in Zones : wbOut[z] = 0 /\ zbOut[z] = 0

\* save_zns_device.  Once the disk is full every write fails, so that the file
\* ends before the item cut; whether the results are looked at or not, the
\* function returns 0.  A cut within an item counts as one before it.
Save(cut) ==
  /\ Idle
  /\ cut \in Items \cup {End}
  /\ file' = [cut |-> cut, state |-> state, wp |-> wp, zrwav |-> zrwav,
              open |-> open, active |-> active, zrwa |-> zrwa,
              wb |-> wb, spilt |-> spilt, data |-> data, want |-> want]
  /\ UNCHANGED <<vars, dataVars, loaded, damaged, stuck>>

Saved(p) == Before(p, file.cut)

\* Mutant of RestoreZones: the resources stay those of the running device.
RestoreZonesKeepRes ==
  /\ state' = [z \in Zones |-> IF Saved(StateAt(z)) THEN file.state[z] ELSE state[z]]
  /\ zrwav' = [z \in Zones |-> IF Saved(StateAt(z)) THEN file.zrwav[z] ELSE zrwav[z]]
  /\ wp' = [z \in Zones |-> IF Saved(WpAt(z)) THEN file.wp[z] ELSE wp[z]]
  /\ wb' = [z \in Zones |-> IF Saved(BufAt(z)) THEN file.wb[z] ELSE 0]
  /\ spilt' = [z \in Zones |-> IF Saved(BufAt(z)) THEN file.spilt[z] ELSE spilt[z]]
  /\ UNCHANGED resVars

\* The descriptors, the resources and the remaining sizes.  A read at the end
\* of the file leaves a table as it is, and rem as 0; spilt goes with wb.
RestoreZones ==
  /\ state' = [z \in Zones |-> IF Saved(StateAt(z)) THEN file.state[z] ELSE state[z]]
  /\ zrwav' = [z \in Zones |-> IF Saved(StateAt(z)) THEN file.zrwav[z] ELSE zrwav[z]]
  /\ wp' = [z \in Zones |-> IF Saved(WpAt(z)) THEN file.wp[z] ELSE wp[z]]
  /\ active' = IF Saved(ActiveAt) THEN file.active ELSE active
  /\ open' = IF Saved(OpenAt) THEN file.open ELSE open
  /\ zrwa' = IF Saved(ZrwaAt) THEN file.zrwa ELSE zrwa
  /\ wb' = [z \in Zones |-> IF Saved(BufAt(z)) THEN file.wb[z] ELSE 0]
  /\ spilt' = [z \in Zones |-> IF Saved(BufAt(z)) THEN file.spilt[z] ELSE spilt[z]]

\* The data of a block that has a chunk; every other block keeps rest.
RestoredData(rest) ==
  [b \in Storage |->
     IF \E z \in Zones : /\ file.state[z] # "EMPTY"
                         /\ b \in Extent(z, 0, file.wp[z])
                         /\ Saved(DataAt(z, b - Block(z, 0)))
     THEN file.data[b] ELSE rest[b]]

Zeros == [b \in Storage |-> 0]

\* byte_len was read and the data behind it ends early: the loop reads 0 bytes
\* at the end of the file again and again.
EndsInData == file.cut[1] = 4 /\ file.cut[3] >= 2

\* Mutant of LoadFile: storage is not zeroed before.
LoadFileOver ==
  /\ Saved(Header)
  /\ RestoreZones
  /\ data' = RestoredData(data)
  /\ want' = file.want
  /\ loaded' = ~EndsInData
  /\ stuck' = EndsInData
  /\ damaged' = Before(file.cut, Sentinel)
  /\ UNCHANGED <<zb, wbOut, zbOut, sweep, panic>>

\* Storage is zeroed, and everything that the file holds is read; a file that
\* ends before a zid or a byte_len is taken for one with a sentinel.
LoadFile ==
  /\ Saved(Header)
  /\ RestoreZones
  /\ data' = RestoredData(Zeros)
  /\ want' = file.want
  /\ loaded' = ~EndsInData
  /\ stuck' = EndsInData
  /\ damaged' = Before(file.cut, Sentinel)
  /\ UNCHANGED <<zb, wbOut, zbOut, sweep, panic>>

\* The file has no header, and hdr is what the stack holds: it is refused, or
\* accepted with any zone_wb_en, or zwra_buffer, which is NULL, is written to.
LoadNoHeader ==
  /\ ~Saved(Header)
  /\ \/ UNCHANGED <<vars, data, want, damaged, stuck>> /\ loaded' = FALSE
     \/ /\ data' = Zeros
        /\ wb' \in {wb, [z \in Zones |-> 0]}
        /\ damaged' = TRUE
        /\ loaded' \in BOOLEAN
        /\ stuck' = ~loaded'
        /\ UNCHANGED <<zoneVars, resVars, zb, wbOut, zbOut, spilt, sweep, panic, want>>

\* load_zns_device.  Without a file it returns before it has changed anything.
Load ==
  /\ Idle
  /\ file # NoFile
  /\ LoadFile \/ LoadNoHeader
  /\ UNCHANGED <<stamp, copies, file>>

\* The module is removed and inserted again; the storage is memory that it
\* has reserved and does not clear.
Reinsert ==
  /\ Idle
  /\ state' = [z \in Zones |-> "EMPTY"]
  /\ wp' = [z \in Zones |-> 0]
  /\ zrwav' = [z \in Zones |-> FALSE]
  /\ open' = 0 /\ active' = 0 /\ zrwa' = 0
  /\ wb' = [z \in Zones |-> WbSize]
  /\ zb' = [z \in Zones |-> ZrwaBuf]
  /\ spilt' = [z \in Zones |-> 0]
  /\ loaded' = FALSE
  /\ damaged' = FALSE
  /\ UNCHANGED <<wbOut, zbOut, sweep, panic, dataVars, file, stuck>>

HostCommand ==
  \/ \E z \in Zones, off \in 0 .. Cap - 1, n \in 1 .. MaxLen : HostWrite(z, off, n)
  \/ \E act \in Actions \ {"FLUSH_ZRWA"} : Management(act)

Background ==
  \/ \E z \in Zones : Release(z) /\ UNCHANGED snapVars
  \/ \E e \in copies : Copy(e)

SaveAny == \E cut \in Items \cup {End} : Save(cut)

SnapNext ==
  \/ ~stuck /\ ~damaged /\ (HostCommand \/ Background \/ SaveAny)
  \/ ~stuck /\ (Load \/ Reinsert)

SnapSpec == SnapInit /\ [][SnapNext]_<<vars, snapVars>>

-----------------------------------------------------------------------------
(***************************************************************************)
(* Properties.                                                             *)
(***************************************************************************)
\* What a load brings back from a file that holds all of the device is a
\* device that the commands could have led to: counters, states, write
\* pointers and buffers agree.
Consistent == ~damaged => ResourcesCounted /\ WpMatchesState /\ BufferCovered

\* What a careful host has written last can be read: every block below the
\* write pointer holds its last write, or the copy of that write is still to
\* come; copies, resets, loads and insertions do not take it away.
WrittenHeld ==
  ~damaged => \A z \in Zones, off \in 0 .. Cap - 1 :
                LET b == Block(z, off) IN
                off < wp[z] => \/ data[b] = want[b]
                               \/ \E e \in copies : b \in e.blocks /\ e.v = want[b]

\* After a load a block holds what the host had written to it before the save,
\* or zeros; and if no part of the device is missing in the file, it holds
\* what was written exactly when it lies below the write pointer.
ZonesRestored ==
  loaded => \A z \in Zones, off \in 0 .. Cap - 1 :
              LET b == Block(z, off) IN
              /\ data[b] \in {0, file.want[b]}
              /\ ~damaged => data[b] = IF off < wp[z] THEN file.want[b] ELSE 0

=============================================================================
