---------------------------- MODULE ConvSnapshot ----------------------------
(***************************************************************************)
(* Snapshots of a conventional device (save_load.c): save_device writes    *)
(* the tables of the FTL and the data of the pages into a file,            *)
(* load_device replaces tables and storage by what a file holds.           *)
(*                                                                         *)
(* Neither of them stops the dispatcher.  The model is of careful use: the *)
(* device is quiescent, no request is under way and the worker has copied  *)
(* all data, when it is saved or loaded.                                   *)
(***************************************************************************)
EXTENDS VictimQueue

VARIABLES
  storage,   \* the content of every logical page in storage_mapped; 0 is zeros
  file,      \* the dump file
  loaded,    \* nothing was written since the last load
  dead       \* load_device has freed the tables and found no file

snapVars == <<storage, file, loaded, dead>>

NoFile == [tables |-> << >>, data |-> << >>, seen |-> << >>]

\* What save_device writes, in the order in which it writes it.  The write
\* credits are not part of it.
Tables ==
  [status |-> status, wp |-> wp, gc_wp |-> gc_wp, maptbl |-> maptbl, rmap |-> rmap,
   page_counter |-> page_counter, vpc |-> vpc, ipc |-> ipc, pos |-> queue.pos,
   victim |-> queue.d, free |-> free, full |-> full]

SnapInit ==
  /\ VictimInit
  /\ storage = [l \in Lpns |-> 0]
  /\ file = NoFile
  /\ loaded = FALSE
  /\ dead = FALSE

-----------------------------------------------------------------------------
\* A host write changes the content of its page; the cleaner moves it only.
HostWrite(l) ==
  /\ HostOrCleanerWrite(l, "host")
  /\ storage' = [storage EXCEPT ![l] = IF @ = 1 THEN 2 ELSE 1]
  /\ loaded' = FALSE
  /\ UNCHANGED <<file, dead>>

CleanerWrite(l) == HostOrCleanerWrite(l, "cleaner") /\ UNCHANGED snapVars

Quiescent == pc = "idle" /\ writer = "host"

\* Mutant of PagesWithData: the data of the write pointer's line is left out.
PagesWithDataClosed == {p \in Pages : rmap[p] # UNMAPPED /\ p[1] # wp.line}

\* The pages whose rmap entry is valid.  An entry may be stale: then the
\* data of its logical page is written more than once.
PagesWithData == {p \in Pages : rmap[p] # UNMAPPED}

Save ==
  /\ Quiescent
  /\ LET lpns == {rmap[p] : p \in PagesWithData}
     IN  file' = [tables |-> Tables, data |-> [l \in lpns |-> storage[l]], seen |-> storage]
  /\ UNCHANGED <<vars, queue, storage, loaded, dead>>

\* The state of every flash page, read channel by channel into the blocks.
RestoreFlash(t) == status' = t.status

\* Mutant of RestoreQueue: the lines come back without their positions.
RestoreQueueNoPos(t) ==
  /\ queue' = [d |-> t.victim, pos |-> [i \in Lines |-> 0]]
  /\ victim' = {t.victim[j] : j \in DOMAIN t.victim}

\* pqueue_change_data stores the lines again in the order of the saved heap;
\* their positions come with the lines.
RestoreQueue(t) ==
  /\ queue' = [d |-> t.victim, pos |-> t.pos]
  /\ victim' = {t.victim[j] : j \in DOMAIN t.victim}

\* The tables of a file replace those of the device.
Restore(t) ==
  /\ RestoreFlash(t)
  /\ RestoreQueue(t)
  /\ wp' = t.wp /\ gc_wp' = t.gc_wp
  /\ maptbl' = t.maptbl /\ rmap' = t.rmap
  /\ page_counter' = t.page_counter
  /\ vpc' = t.vpc /\ ipc' = t.ipc
  /\ free' = t.free /\ full' = t.full

\* load_device: storage is zeroed and the tables are freed, then the file is
\* read.  The write credits stay as they are: those of the running device,
\* or the initial ones of a module that has just been inserted (fresh).
Load(fresh) ==
  /\ Quiescent
  /\ file # NoFile
  /\ Restore(file.tables)
  /\ storage' = [l \in Lpns |-> IF l \in DOMAIN file.data THEN file.data[l] ELSE 0]
  /\ credits' = IF fresh THEN PgsPerLine ELSE credits
  /\ refill' = IF fresh THEN PgsPerLine ELSE refill
  /\ loaded' = TRUE
  /\ UNCHANGED <<gcVars, reqVars, pc, file, dead>>

\* There is no file: load_device returns with the tables gone.
LoadFails ==
  /\ Quiescent
  /\ file = NoFile
  /\ storage' = [l \in Lpns |-> 0]
  /\ dead' = TRUE
  /\ UNCHANGED <<vars, queue, file, loaded>>

Live(A) == ~dead /\ A

Snapshot == Save \/ LoadFails \/ \E fresh \in BOOLEAN : Load(fresh)

SnapNext ==
  \/ \E l \in Lpns : Live(HostWrite(l)) \/ Live(CleanerWrite(l))
  \/ Live(VictimFinish /\ UNCHANGED snapVars)
  \/ Live(Snapshot)

SnapSpec == SnapInit /\ [][SnapNext]_<<vars, queue, snapVars>>

-----------------------------------------------------------------------------
\* What a load brings back is a device that the writes could have led to,
\* and stays one under later writes and collections: map, counts, lists,
\* write pointers and the heap of victims agree.
Consistent == ~dead => Core /\ VictimHeap

\* After a load the host reads from every page what it read at the save:
\* every written page has an rmap entry, also pages that GC has moved, and
\* stale rmap entries bring back nothing.
DataRestored == loaded /\ ~dead => storage = file.seen

=============================================================================
