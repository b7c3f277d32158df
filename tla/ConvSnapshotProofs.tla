-------------------------- MODULE ConvSnapshotProofs --------------------------
(***************************************************************************)
(* Proofs about ConvSnapshot: a loaded device is one that the FTL could    *)
(* have led to, and the host reads from it what was saved.                 *)
(***************************************************************************)
EXTENDS ConvSnapshot, VictimQueueProofs

(***************************************************************************)
(* The invariant of the FTL, said of the tables t of a file: that it held  *)
(* between two requests when they were saved.                              *)
(***************************************************************************)
Saved(t) == INSTANCE ConvFtl WITH
  maptbl <- t.maptbl, rmap <- t.rmap, status <- t.status, vpc <- t.vpc, ipc <- t.ipc,
  free <- t.free, full <- t.full, victim <- Elements(t.victim), wp <- t.wp,
  gc_wp <- t.gc_wp, page_counter <- t.page_counter, credits <- PgsPerLine,
  refill <- PgsPerLine, gcline <- UNMAPPED, todo <- {}, cur <- UNMAPPED,
  writer <- "host", pc <- "idle"

GoodTables(t) ==
  /\ Saved(t)!Core
  /\ HeapOf([d |-> t.victim, pos |-> t.pos], Elements(t.victim), t.vpc)

\* The device is between two requests and has the tables t.
HasTables(t) ==
  /\ maptbl = t.maptbl /\ rmap = t.rmap /\ status = t.status
  /\ vpc = t.vpc /\ ipc = t.ipc /\ free = t.free /\ full = t.full
  /\ victim = Elements(t.victim) /\ queue = [d |-> t.victim, pos |-> t.pos]
  /\ wp = t.wp /\ gc_wp = t.gc_wp /\ page_counter = t.page_counter
  /\ pc = "idle" /\ gcline = UNMAPPED /\ todo = {}
  /\ cur \in Lpns \cup {UNMAPPED} /\ writer \in Writers
  /\ credits \in Int /\ refill \in Int

\* Two states with the same tables, both between two requests, agree about
\* the invariant.
LEMMA SameTables ==
  \A t : HasTables(t) => (GoodTables(t) <=> Core /\ HeapInv)
<1> SUFFICES ASSUME NEW t, HasTables(t)
             PROVE  GoodTables(t) <=> Core /\ HeapInv
  OBVIOUS
<1> USE DEF Saved!Lines, Lines, Saved!Dies, Dies, Saved!Pgs, Pgs, Saved!Slots, Slots,
            Saved!Pages, Pages, HasTables
<1>1. Saved(t)!TypeOK <=> TypeOK
  <2>1. PgsPerLine \in Int
    BY SlotsFinite
  <2> QED BY <2>1 DEF Saved!TypeOK, TypeOK, Saved!WritePointer, WritePointer,
     Saved!Counters, Counters, Saved!Writers, Writers, Saved!PCs, PCs
<1>2. Saved(t)!LinePlaces <=> LinePlaces
  BY DEF Saved!LinePlaces, LinePlaces, Saved!InFree, InFree, Saved!InUse, InUse
<1>3. Saved(t)!ListContents <=> ListContents
  BY DEF Saved!ListContents, ListContents, Saved!InFree, InFree
<1>4. Saved(t)!LineCounts <=> LineCounts
  <2>1. ASSUME NEW S PROVE Saved(t)!Cardinality(S) = Cardinality(S)
    BY DEF Saved!Cardinality, Cardinality
  <2>2. ASSUME NEW i, NEW st
        PROVE  Saved(t)!Cardinality(Saved(t)!PagesWith(i, st)) = Cardinality(PagesWith(i, st))
    <3>1. Saved(t)!PagesWith(i, st) = PagesWith(i, st)
      BY DEF Saved!PagesWith, PagesWith
    <3> QED BY <2>1, <3>1, Zenon
  <2> QED BY <2>2 DEF Saved!LineCounts, LineCounts
<1>5. Saved(t)!Frontiers <=> Frontiers
  BY DEF Saved!Frontiers, Frontiers, Saved!UserPassed, UserPassed, Saved!GcPassed, GcPassed,
     Saved!Passed, Passed
<1>6. Saved(t)!VictimProgress <=> VictimProgress
  BY DEF Saved!VictimProgress, VictimProgress
<1>7. Saved(t)!MapConsistent <=> MapConsistent
  BY DEF Saved!MapConsistent, MapConsistent, Saved!InFlight, InFlight, Saved!CopiedAway,
     CopiedAway
<1>8. GoodTables(t) <=> Saved(t)!Core /\ HeapInv
  BY DEF GoodTables, HeapInv
<1>9. Saved(t)!Core <=> Core
  BY <1>1, <1>2, <1>3, <1>4, <1>5, <1>6, <1>7 DEF Saved!Core, Core
<1> QED BY <1>8, <1>9

LEMMA SameTablesNext ==
  (\A t : HasTables(t) => (GoodTables(t) <=> Core /\ HeapInv))'
BY SameTables, PTL

-----------------------------------------------------------------------------
(***************************************************************************)
(* The content of the pages.                                               *)
(***************************************************************************)
\* A page with data is mapped, or its first copy is just being written.
DataMapped ==
  /\ storage = [l \in Lpns |-> storage[l]]
  /\ \A l \in Lpns : storage[l] # 0 => maptbl[l] # UNMAPPED \/ InFlight(l)

\* What a file holds: good tables, and the data of every page that is mapped
\* in them.
FileGood ==
  /\ GoodTables(file.tables)
  /\ file.seen = [l \in Lpns |-> file.seen[l]]
  /\ \A l \in Lpns : file.seen[l] # 0 => file.tables.maptbl[l] # UNMAPPED
  /\ LET lpns == {file.tables.rmap[p] : p \in {q \in Pages : file.tables.rmap[q] # UNMAPPED}}
     IN  file.data = [l \in lpns |-> file.seen[l]]

DataInv ==
  /\ DataMapped
  /\ file # NoFile => FileGood
  /\ DataRestored

SnapInv == Core /\ HeapInv /\ DataInv

LEMMA SnapInvInit == SnapInit => SnapInv
<1> SUFFICES ASSUME SnapInit PROVE SnapInv
  OBVIOUS
<1>1. Core /\ HeapInv
  BY CoreInit, HeapInit DEF SnapInit, VictimInit
<1>2. DataInv
  BY DEF SnapInit, DataInv, DataMapped, DataRestored
<1> QED BY <1>1, <1>2 DEF SnapInv

\* Every step of the FTL and its queue keeps the invariant of both.
LEMMA FtlKept ==
  ASSUME Core, HeapInv, VictimNext
  PROVE  Core' /\ HeapInv'
BY HeapStep

LEMMA SnapWrite ==
  ASSUME SnapInv, NEW l \in Lpns, HostWrite(l) \/ CleanerWrite(l)
  PROVE  SnapInv'
<1>1. PICK w \in Writers : HostOrCleanerWrite(l, w)
  BY DEF HostWrite, CleanerWrite, Writers
<1>2. Core' /\ HeapInv'
  BY <1>1, FtlKept DEF SnapInv, VictimNext
<1>3. pc = "idle" /\ pc' = "program" /\ cur' = l /\ UNCHANGED maptbl
  BY <1>1 DEF HostOrCleanerWrite, WritePage
<1>4. /\ storage' = [k \in Lpns |-> storage'[k]]
      /\ \A k \in Lpns : k # l => storage'[k] = storage[k]
      /\ UNCHANGED <<file, dead>> /\ (loaded' => loaded /\ UNCHANGED storage)
  BY DEF HostWrite, CleanerWrite, snapVars, SnapInv, DataInv, DataMapped
<1>5. DataMapped'
  BY <1>3, <1>4 DEF SnapInv, DataInv, DataMapped, InFlight
<1>6. DataInv'
  BY <1>4, <1>5 DEF SnapInv, DataInv, FileGood, DataRestored
<1> QED BY <1>2, <1>6 DEF SnapInv

\* No later step of a request unmaps a page.
LEMMA MapGrows ==
  ASSUME TypeOK, Next, pc # "idle", NEW l \in Lpns, maptbl[l] # UNMAPPED \/ InFlight(l)
  PROVE  maptbl'[l] # UNMAPPED
<1> USE DEF mapVars, lineVars, gcVars, reqVars
<1>0. UNMAPPED \notin Pages /\ NewPage(wp) \in Pages /\ NewPage(gc_wp) \in Pages
      /\ maptbl \in [Lpns -> Pages \cup {UNMAPPED}]
  BY LpnsAssumption, NewPageType DEF TypeOK, WritePointer
<1>1. CASE ProgramPage
  BY <1>0, <1>1 DEF ProgramPage, Map, InFlight
<1>2. ASSUME NEW s \in todo, GcCopy(s) PROVE maptbl'[l] # UNMAPPED
  BY <1>0, <1>2 DEF GcCopy, Map, InFlight
<1>3. CASE pc # "program" /\ UNCHANGED maptbl
  BY <1>3 DEF InFlight
<1> QED BY <1>1, <1>2, <1>3
        DEF Next, WritePage, UserStay, UserNextDie, UserNextLine, EndOfRequest, RefillOnly,
            SelectVictim, GcSkip, GcWithinLine, GcNextLine, GcAdvanced, GcDone

LEMMA SnapFinish ==
  ASSUME SnapInv, VictimFinish, UNCHANGED snapVars
  PROVE  SnapInv'
<1>1. VictimNext
  BY DEF VictimNext
<1>2. Core' /\ HeapInv'
  BY <1>1, FtlKept DEF SnapInv
<1>3. Next
  BY <1>1, VictimStep DEF SnapInv
<1>4. pc # "idle"
  BY DEF VictimFinish, ProgramPage, UserStay, RefillOnly, GcDone, UserNextDie, GcSkip,
         GcCopy, GcWithinLine, UserNextLine, GcNextLine, SelectVictim
<1>5. DataMapped'
  BY <1>3, <1>4, MapGrows DEF SnapInv, Core, DataInv, DataMapped, snapVars
<1>6. DataInv'
  BY <1>5 DEF SnapInv, DataInv, FileGood, DataRestored, snapVars
<1> QED BY <1>2, <1>6 DEF SnapInv

LEMMA SnapStutter ==
  ASSUME SnapInv, UNCHANGED <<vars, queue>>, UNCHANGED snapVars
  PROVE  SnapInv'
<1>1. Core' /\ HeapInv'
  BY HeapStep DEF SnapInv
<1>2. DataInv'
  BY DEF SnapInv, DataInv, DataMapped, DataRestored, InFlight, FileGood, vars, snapVars
<1> QED BY <1>1, <1>2 DEF SnapInv

\* load_device without a file: the host reads zeros from then on.
LEMMA SnapFails ==
  ASSUME SnapInv, LoadFails
  PROVE  SnapInv'
<1>1. Core' /\ HeapInv'
  BY HeapStep DEF SnapInv, LoadFails
<1>2. DataInv'
  BY DEF SnapInv, DataInv, DataMapped, DataRestored, FileGood, LoadFails
<1> QED BY <1>1, <1>2 DEF SnapInv

LEMMA SnapSave ==
  ASSUME SnapInv, Save
  PROVE  SnapInv'
<1>1. Core' /\ HeapInv'
  BY HeapStep DEF SnapInv, Save
<1>0. PICK t : t = Tables
  OBVIOUS
<1>2. /\ file'.tables = t /\ file'.seen = storage
      /\ file'.data = [l \in {rmap[p] : p \in PagesWithData} |-> storage[l]]
      /\ UNCHANGED <<storage, loaded, dead, maptbl, cur, pc>>
  BY <1>0 DEF Save, vars
<1>3. /\ t.maptbl = maptbl /\ t.rmap = rmap
      /\ t.status = status /\ t.vpc = vpc /\ t.ipc = ipc /\ t.free = free /\ t.full = full
      /\ t.victim = queue.d /\ t.pos = queue.pos
      /\ t.wp = wp /\ t.gc_wp = gc_wp /\ t.page_counter = page_counter
  BY <1>0 DEF Tables
<1>4. HasTables(t)
  <2>1. victim = Elements(queue.d) /\ queue = [d |-> queue.d, pos |-> queue.pos]
    BY DEF SnapInv, HeapInv, HeapOf, Queued
  <2>2. pc = "idle"
    BY DEF Save, Quiescent
  <2>3. /\ gcline = UNMAPPED /\ todo = {} /\ cur \in Lpns \cup {UNMAPPED}
        /\ writer \in Writers /\ credits \in Int /\ refill \in Int
    BY <2>2 DEF SnapInv, Core, TypeOK
  <2> QED BY <1>3, <2>1, <2>2, <2>3 DEF HasTables
<1>5. GoodTables(t)
  BY <1>4, SameTables DEF SnapInv
<1>6. \A l \in Lpns : storage[l] # 0 => maptbl[l] # UNMAPPED
  BY DEF SnapInv, DataInv, DataMapped, Save, Quiescent, InFlight
<1>7. storage = [l \in Lpns |-> storage[l]]
  BY DEF SnapInv, DataInv, DataMapped
<1>8. FileGood'
  BY <1>2, <1>3, <1>5, <1>6, <1>7 DEF FileGood, PagesWithData
<1>9. DataMapped' /\ DataRestored'
  BY <1>2 DEF SnapInv, DataInv, DataMapped, DataRestored, InFlight
<1> QED BY <1>1, <1>2, <1>8, <1>9 DEF SnapInv, DataInv

LEMMA SnapLoad ==
  ASSUME SnapInv, NEW fresh \in BOOLEAN, Load(fresh)
  PROVE  SnapInv'
<1> DEFINE t == file.tables
<1>1. FileGood /\ file' = file /\ pc = "idle" /\ UNCHANGED <<gcline, todo, cur, writer, pc>>
  BY DEF SnapInv, DataInv, Load, Quiescent, gcVars, reqVars
<1>2. HasTables(t)'
  <2>1. Restore(t)
    BY DEF Load
  <2>2. /\ gcline = UNMAPPED /\ todo = {} /\ cur \in Lpns \cup {UNMAPPED}
        /\ writer \in Writers /\ credits \in Int /\ refill \in Int
    BY <1>1 DEF SnapInv, Core, TypeOK
  <2>3. credits' \in Int /\ refill' \in Int
    BY <2>2, SlotsFinite DEF Load
  <2>4. t' = t
    BY <1>1
  <2> HIDE DEF t
  <2> QED BY <1>1, <2>1, <2>2, <2>3, <2>4
          DEF HasTables, Restore, RestoreFlash, RestoreQueue, Elements
<1>3. Core' /\ HeapInv'
  BY <1>1, <1>2, SameTablesNext DEF FileGood
<1>4. ASSUME NEW l \in Lpns PROVE storage'[l] = file.seen[l]
  <2> DEFINE lpns == {t.rmap[p] : p \in {q \in Pages : t.rmap[q] # UNMAPPED}}
  <2>1. storage'[l] = IF l \in DOMAIN file.data THEN file.data[l] ELSE 0
    BY DEF Load
  <2>2. file.data = [k \in lpns |-> file.seen[k]]
    BY <1>1 DEF FileGood
  <2>3. file.seen[l] # 0 => l \in lpns
    <3> SUFFICES ASSUME file.seen[l] # 0 PROVE l \in lpns
      OBVIOUS
    <3>1. t.maptbl[l] # UNMAPPED /\ maptbl' = t.maptbl /\ rmap' = t.rmap /\ pc' = "idle"
      BY <1>1 DEF FileGood, Load, Restore
    <3>2. maptbl'[l] \in Pages /\ rmap'[maptbl'[l]] = l
      BY <1>3, <3>1 DEF Core, TypeOK, MapConsistent, InFlight
    <3> QED BY <3>1, <3>2, LpnsAssumption
  <2> QED BY <2>1, <2>2, <2>3
<1>5. storage' = [l \in Lpns |-> storage'[l]]
  BY DEF Load
<1>6. DataRestored'
  BY <1>1, <1>4, <1>5 DEF FileGood, DataRestored
<1>7. DataMapped'
  BY <1>1, <1>4, <1>5 DEF FileGood, DataMapped, Load, Restore
<1> QED BY <1>1, <1>3, <1>6, <1>7 DEF SnapInv, DataInv, FileGood

LEMMA SnapStep ==
  SnapInv /\ [SnapNext]_<<vars, queue, snapVars>> => SnapInv'
<1> SUFFICES ASSUME SnapInv, [SnapNext]_<<vars, queue, snapVars>> PROVE SnapInv'
  OBVIOUS
<1>1. CASE LoadFails
  <2>1. SnapInv /\ LoadFails
    BY <1>1
  <2> QED BY <2>1, SnapFails
<1>2. CASE UNCHANGED <<vars, queue, snapVars>>
  BY <1>2, SnapStutter DEF snapVars
<1> QED BY <1>1, <1>2, SnapWrite, SnapFinish, SnapSave, SnapLoad
        DEF SnapNext, Live, Snapshot

LEMMA SnapHolds == SnapSpec => []SnapInv
BY SnapInvInit, SnapStep, PTL DEF SnapSpec

(***************************************************************************)
(* Saving and loading between requests never leaves a device whose map,    *)
(* counters, lists, write pointers and victim queue disagree, through any  *)
(* number of writes, collections, saves and loads.                         *)
(***************************************************************************)
THEOREM LoadsStayConsistent == SnapSpec => []Consistent
<1>1. Core /\ HeapInv => VictimHeap
  BY HeapFacts
<1>2. SnapInv => Consistent
  BY <1>1 DEF SnapInv, Consistent
<1> QED BY <1>2, SnapHolds, PTL

(***************************************************************************)
(* After a load the host reads from every page what it read at the save.   *)
(***************************************************************************)
THEOREM LoadsRestoreData == SnapSpec => []DataRestored
<1>1. SnapInv => DataRestored
  BY DEF SnapInv, DataInv
<1> QED BY <1>1, SnapHolds, PTL

=============================================================================
