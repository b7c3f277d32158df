# TLA+ models of NVMeVirt (dumping)

The repository is a Linux kernel module that emulates NVMe devices: a fork of
NVMeVirt with several devices per host, snapshots of a device, and a cleaner
that rewrites fragmented data. This directory holds TLA+ models of its core,
the TLC configurations that check them on small instances, and TLAPS proofs.
`PROJECT.json` lists components, runs, mutants, source map, findings, hazards
and theorems.

## 1. The system

One **dispatcher** thread per device polls doorbells and controller registers,
fetches commands, runs the FTL (which decides *when* a command completes) and
queues the command for an **I/O worker** thread, which copies the data and posts
the completion when its time has come. `/proc` writes create, delete, save, load
and clean devices from the writer's own thread.

| component | source | state | operations |
|---|---|---|---|
| conventional FTL | `conv_ftl.c` | `maptbl`, `rmap`, page status, line lists, write pointers, write credits | page write, GC, cleaner's page write |
| I/O work queue | `io.c` | entry array threaded on an I/O and a free list | enqueue, sorted insert, reclaim, worker pass |
| ZNS FTL | `zns_*.c` | zone descriptors, resource counts, zone and ZRWA buffers | write, append, ZRWA write, open/close/finish/reset/flush, release |
| conventional snapshot | `save_load.c` | file | save, load |
| ZNS snapshot | `zns_save_load.c` | file | save, load |
| key-value FTL | `kv_ftl.c`, `append_only.c`, `bitmap.c` | hash slots, chains, iterators, allocator | store, retrieve, delete, exist, batch, iterate |
| fragmentation cleaner | `main.c` (`clean_ftl`) | chunk lists per partition | split, rewrite |
| queue pairs | `main.c`, `io.c` | SQ/CQ rings, phase, interrupt flag | doorbells, post, interrupt |
| controller and admin | `pci.c`, `admin.c` | registers, queue tables | enable, create/delete queue |
| device management | `main.c` | device list, id counter | create, delete |
| timing | `ssd.c`, `channel_model.c`, `simple_ftl.c` | next-idle times, channel credits | advance, request |
| priority queue | `pqueue/pqueue.c` | heap | insert, remove, change priority |
| report, DMA, PCI space, sysfs text | `check_phfrag.c`, `dma.c`, `pci.c`, `main.c` | none of their own | reading, formatting, kernel services |

Interactions: doorbell -> dispatcher -> FTL -> work queue -> worker -> completion
queue -> interrupt. The FTL also queues *internal operations* which make the
worker give write-buffer space back. The victim queue of the conventional FTL is
the priority queue. Save, load and clean work on the FTL's tables from another
thread; clean stops the dispatcher, save and load do not.

What is hard here: a lock-free list shared by two threads; tables updated in many
small steps while a collection is half way; a flow control that must keep room for
GC for ever; unsigned counters released from several handlers; buffer space that
is returned later by another thread; snapshots of a moving target.

## 2. Modules

| module | what it is |
|---|---|
| `ConvFtl` | one partition of the conventional FTL, with GC and write credits |
| `VictimQueue` | `ConvFtl` with the heap of `pqueue.c` as its victim queue |
| `MCConvFtl` | TLC instance of the two (bound on writes, symmetry of logical pages) |
| `ConvFtlProofs` | theorems of `ConvFtl` |
| `VictimQueueProofs` | theorems of `VictimQueue`: the heap, and that it implements `ConvFtl` |
| `CleanFtl`, `MCCleanFtl`, `CleanFtlProofs` | the fragmentation cleaner, its TLC instance, its theorems |
| `WorkQueue` | what the work queue promises to the host |
| `IoWorker`, `IoWorkerProofs` | dispatcher and worker on one work queue; implements `WorkQueue` |
| `ZnsFtl`, `MCZnsFtl` | the zoned FTL and its TLC instance |
| `ConvSnapshot`, `MCConvSnapshot`, `ConvSnapshotProofs` | `VictimQueue` together with `save_device` and `load_device` |
| `ZnsSnapshot`, `MCZnsSnapshot` | `ZnsFtl` together with its data, `save_zns_device` and `load_zns_device` |
| `ZnsProofs` | theorems of `ZnsFtl` and of `ZnsSnapshot` |
| `KvFtl`, `MCKvFtl`, `KvFtlProofs` | the key-value FTL, its TLC instance, its theorems |
| `Controller`, `ControllerProofs` | registers, admin queue, queue pair, doorbells, interrupts |

### ConvFtl
State and names are those of `struct conv_ftl`. A page is `<<line, <<die, pg>>>>`;
the page number within a block is the pair of wordline (one-shot page) and offset,
and `die` numbers the luns in the order in which the write pointers visit them.
The FTL runs in one thread, so a single `pc` orders the steps of a request:
`WritePage` (invalidate the old copy) -> `ProgramPage` (map the new one) ->
`UserStay`/`UserNextDie`/`UserNextLine` (advance the pointer, consume a credit) ->
when credits are used up `RefillOnly` or `SelectVictim`, then per page of the victim
`GcSkip` or `GcCopy` followed by `GcWithinLine`/`GcNextLine`, and `GcDone`. The
intermediate states are visible to a thread that does not stop the dispatcher.
`pc = "oops"` is the NULL dereference after `get_next_free_line` found no line.
The priority queue is "a line of least `vpc`". The cleaner (`phfrag_cleaner`) is a
second writer, which may stay on a die and which only works on a fresh FTL.
Left out: latencies, reads, and the shared write buffer (a write that does not fit
is retried and touches nothing else).

### VictimQueue
Replaces "a line of least `vpc`" by the heap: `queue.d` is the array of `pqueue.c`,
`queue.pos` the field `pos` of the lines, by which `mark_page_invalid` decides whether a
line is in the queue. Each step conjoins a step of `ConvFtl` with what it does to the
heap, and the line that is collected is the first of the heap. That this is a line of
least `vpc`, and so a choice `ConvFtl` allows, is a theorem (section 4).
The loops of `bubble_up` and `percolate_down` are given without recursion: `Visited` is
the least set of nodes that holds the start and, with each node at which the loop goes on,
the next one; `Shifted` moves every element on that path by one node.

### CleanFtl
`Init` is `clean_ftl` up to its loop: the runs of mapped pages, cut into one chunk per
partition and filed by position and length. `SelectList`, `CallCleaner`, `LoopEnd` are
the loop, `Preempt`, `WritePage`, `ChunkWritten` are `phfrag_cleaner`. The draw against the
fragmentation degree is a choice (`Decisions`). `clean_ftl` reads its budget through
`spp` after the FTL it belongs to was freed: `StaleBudgets`, which the run takes to be
{2, 3} and the assumption to be positive; with 0 the loop would never end. A page past
the table, which only a chunk with a wrapped end can come to, stops the cleaner
(`"astray"`). A partition is its write pointer and its counters: where no end wraps, no
page is written twice, and there is nothing to invalidate or collect.

### WorkQueue and IoWorker
`IoWorker` has one action per step that the other thread can observe. The host submits
`NReqs` requests; those in `Writes` also schedule an internal operation that gives a
unit of write buffer back. One worker: the README's `cpus=7,8`; with more workers each
has its own queue. `WorkerMayStall` says whether a worker may stand on an entry for as
long as the free list needs to come round to it. The run excludes this; with `TRUE` a
request can be answered before it was copied, and the refinement fails.

`WorkQueue` knows neither lists nor threads nor time: a request is queued or refused,
then copied once, then answered once. Refinement mapping: `queued` is the set of
requests linked into the I/O list, `refused` those for which there was none, `copies`
and `posted` are histories of the copies and answers in `IoWorker`. `ImplementsQueue`
includes the fairness of the abstract queue: every queued request is answered.

### ZnsFtl
A write pointer is an offset in its zone. Every command is one action, except that
`select_all` visits zone after zone (`SweepZone`). `wbOut`/`zbOut` is the space that
queued internal operations will release; `Release` may come at any time later.
`spilt` is a history variable: space no operation will ever release. A write takes
space for its blocks and releases it by wordlines; the loop counts pages, of several blocks
each, so that a wordline may be released more than once (`ReleasedBy`, `Touched`).

### ConvSnapshot
Extends `VictimQueue` with the content of the logical pages, the dump file, `Save` and
`Load`. The device is quiescent when it is saved or loaded: neither function stops
the dispatcher, and what a snapshot of a moving device holds is left for later.
`Load(TRUE)` is a load after the module was inserted anew, with the initial write
credits; `Load(FALSE)` keeps those of the running device. Both are possible, for the
file has no credits. `LoadFails`: the tables are freed before the file is opened.

### ZnsSnapshot
Extends `ZnsFtl` with what the blocks hold (`data`: which write, 0 for zeros), the last
accepted write of each block (`want`), the copies that workers have yet to make
(`copies`: of accepted and of rejected writes), the dump file, `Save`, `Load` and
`Reinsert`. The file is a sequence of items (header, descriptors, resources, remaining
sizes, chunks, sentinel); a full disk may end it before any of them (`cut`), and the save
reports success all the same. A load takes what there is: a missing table leaves the
device as it was, a missing size is 0, the end of the file counts as the sentinel, and
within the data of a zone the load never returns (`stuck`). After a load of a file with
parts missing (`damaged`) the model follows the device no further than to another load or
insertion. `Careless` says what else than a careful host may do: send writes that are
rejected, or reset a zone before its writes have completed. Not modelled: a cut within an
item, an error that passes (a later write succeeds), and a device in use. ZRWA is left out
here, since the build that links this code configures it with size zero.

### KvFtl
The KV build only (`io.c:619`; the default of `Kbuild` is the conventional device).
A command runs from start to end in the one worker, so it is one action. `mem` says for
which key a cell of storage was written; `Search` is the walk along `next`. A store
that finds no free slot hangs in `find_next_slot` (`stop = "hang"`), one that finds no
storage ends in `BUG_ON` (`"bug"`), and one whose value begins in the storage and ends
behind it has been copied over the mapping table by then (`"overrun"`). Stores and
batched stores differ: a batched update does not take over the new length. `room` and
`spilt` are histories: the length that was allocated for an entry, and the cells that a
longer update in place has written behind it. The bitmap allocator, which no configuration
selects, is left out.

### Controller
Composes the host's driver (external), the dispatcher and the worker on one queue pair.
The work queue between the last two is a set here; `IoWorker` has its detail. The
dispatcher may look at doorbells in any order, where the code has a fixed loop. A pass over
the registers tests aqa, asq, acq and cc one after the other, one step each, and ends with
the first that has changed; stores of the host may become visible between two tests. An
admin command that is looked for before both rings are known is followed no further
(`"astray"`). The host takes part as the NVMe driver does: `cc.en` after the admin
registers, the number of queues before the first queue, at most `QSize - 1`
commands under way. Stores to the
admin registers become visible in any order, 64-bit ones in halves. `posted` and
`aposted` are histories of what was posted and not yet taken. Left out: completion
doorbells (they feed a statistic), abort (it posts nothing), shared completion queues,
shutdown and restart.

## 3. Runs

| run | checks | instance |
|---|---|---|
| `conv` | tables, lists, heap of victims, progress of a collection, frontiers, credit reserve, NAND discipline | 8 lines x 2 luns x 2 wordlines x 1 page, 4 lpns, 20 writes |
| `clean` | sharing out of the work, dense writing, termination with everything rewritten | 2 partitions of 2 dies, blocks of 4 pages, all sets of the first 5 pages and pairs of runs up to 13 pages |
| `clean_wrap` | pages that nobody has written get mapped (violation) | the first page mapped only |
| `io` | lists, order, buffer, every request fetched, refinement of `WorkQueue` | 4 entries, 4 requests of which 2 writes, clock 0..1 |
| `zns` | resource counts, states, write pointers, no space of a write buffer is lost | 2 zones of 3 pages of 2 blocks, wordline of 2 pages, ZRWA of 2 |
| `zns_snap` | device after a load, last writes below the write pointers, data of a load | 2 zones of 1 page of 2 blocks, 4 commands before a save and 1 after it, 2 late copies, file cut anywhere |
| `kv` | searches, outdated entries, values apart, iterators | 3 slots, 2 colliding keys and 1 in their way, lengths 1 and 2, 4 cells, 1 iterator |
| `kv_lost` | an entry cut off its chain (violation) | as `kv` |
| `snap` | tables, lists and heap across loads, the data read back | 5 lines of 3 pages, 2 lpns, 10 writes, 1 load |
| `snap_credits` | a free line for every write pointer, with loads (violation) | 5 lines of 2 pages, 1 lpn, 8 writes, 7 loads |
| `ctrl` | rings, lost doorbells and interrupts, types | rings of 3 for 2 tags, admin queue of 3 |
| `ctrl_boot` | ready before the admin queue is known (violation) | as `ctrl` |

**Bounds.** `MaxWrites` (ConvFtl): stale `rmap` entries remember the history, so that
the number of writes must be bounded; the free lines are used up before the bound,
so that the rest run against collections of victims with 0, 1 and more live pages.
Eight lines let the heap of victims grow to four, where a pop sifts through both levels;
the five lines of `snap` (the least the over-provisioning assumption allows) have the
other boundary, a pop of the only element. `clean`: `NrSmall` and `Lengths` choose the
mapped pages, around the length of a few turns, so that chunks wait, preempt one another
and end a line; `Wrap` stands for 2^64, larger than every page number; `StripedSets`
leaves out the sets of `clean_wrap`. `zns_snap`: `MaxCommands`, `MaxSince` and `MaxCopies`
bound what happens before a save, after it and under way. `N = 4` gives three
usable entries for six operations, so the queue fills, drops and wraps; `MaxTime = 1`
distinguishes "due" from "not due". Both ZNS runs have pages of two blocks (the builds have 8),
so that a write may end within a page; a zone of `zns` has a whole wordline and one
that the end of the zone cuts short. `MaxZb` and `MaxWb` cap the buffers of its zone 0: a
reset refills that of the ZRWA while releases are still under way, and a wordline may be
released twice. Zone 1 is there for the counts and for `select_all`: at most one page of it is
written, and its ZRWA takes no space.
In `kv` a table of three slots is full with three keys, chains wrap around its end, and
the allocator reaches its end after two or three inserts. In `snap` ten writes of two
logical pages fill the free lines, and collections run before the save and after the load;
saves are not bounded. In `ctrl` nothing is bounded: rings wrap with either phase,
and the pair is deleted and created again for ever.

**Fairness.** `conv` needs none, and deadlock is checked. `clean`: weak fairness of the one
thread, which never waits for anything. `io`: weak fairness of dispatcher, worker
(polling kernel threads) and of the clock. Deadlock checking is off
where the host may simply stop submitting (a bounded number of writes).
`ctrl` needs no fairness: `NothingLost` says of the states in which dispatcher, worker
and interrupt handlers have nothing to do that nothing is left to be done.

**Findings.** Each quotes a line of the repository, see `findings` in `PROJECT.json`:
- `clean_wrap`: an unsigned subtraction makes an empty chunk an almost endless one;
- `kv_lost`: an entry that exists is answered as not existing;
- `snap_credits`: two lines are kept free for the host and GC only as long as no load sets
  the credits anew;
- `ctrl_boot`: a pass over the registers takes cc for the last to change.

## 4. Proofs

All for every value of the constants that satisfies the module's named assumptions;
where a theorem has a hypothesis of its own, it is named below.

**ConvFtl** (`ConvFtlProofs`): `TypeCorrect`, `MappingConsistent`, `LinesAccounted`,
`FrontiersExact`, `VictimScanned`, `FlashDiscipline`. The inductive
invariant is `Core`: types, places of lines, contents of lists, counts, write frontiers,
progress of the collection and the two tables together. None of them is inductive
alone: that programming a page overwrites nothing needs the frontier; the frontier
needs free lines to be erased; that needs the counts (a block is erased only after its
last page was visited), and so on. One lemma per action. `NeverOutOfLines` and `CreditsCovered` add the credit
balance (`CreditReserve`) and `CopyUnderWay`. The heart is `VictimExists`: with two or
fewer free lines some line has an invalid page, by counting mapped logical pages against
over-provisioned lines (`OverProvisioningAssumption`, the 7% of `conv_init_namespace`).

**VictimQueue** (`VictimQueueProofs`): `QueueIsHeap` (heap order, and `pos` of each line is
where it is), `CheapestFirst` (the first line has the least `vpc`), and
`QueueImplementsChoice`: every behaviour with the heap is a behaviour of `ConvFtl`, so that
the theorems above hold with the heap, too. The argument for `pqueue.c` is the textbook
one: while an element moves, the heap order is broken at one node only. Inductions along
a path (a parent is no worse than its child, hence the root than every node) use a least
counterexample (`LeastNatural`), as no prover here can instantiate the induction theorems.

**ConvSnapshot** (`ConvSnapshotProofs`): `LoadsStayConsistent` and `LoadsRestoreData`. `SnapInv`
joins `Core`, the heap and what the file holds. The tables in the file are an instance
`Saved(t)` of `ConvFtl` that satisfies `Core` (`GoodTables`): a save makes it true, and
after a load it gives `Core` back. The credits are the exception, as the run
`snap_credits` shows; they are not in `Core`.

**ZnsFtl** (`ZnsProofs`): `ResourcesExact`, `ZonesTyped`, `WritePointersAgree`,
`ResourcesSuffice`, `WpForward`, from `ZoneInv` (types, the two counts, ZRWA coverage, state
against write pointer), and `BuffersCovered`. A command changes one zone, so `LocalStep` and
`HeldStep` turn counting into a case split on that zone. `BuffersCovered` holds for every size
of pages and wordlines: it says that at least what the writes have taken comes back.
It may be more (section 5): where a write pointer stands inside the last page of a wordline, nothing of this wordline is outstanding (`Touched`).

**ZnsSnapshot** (`ZnsProofs`): `SnapshotsConsistent`, without hypothesis, and, for a careful host
(`Careless = {}`), `SnapshotsHoldWrites` and `SnapshotsRestoreZones`. Their invariant says
which write a block and each copy under way hold, in the device and in the file. What
becomes of the data without the hypothesis is in section 5.

**Controller** (`ControllerProofs`): `ControllerInvariant`, and from it `ControllerTypes`,
`CompletionsInOrder`. The invariant has one part per mechanism:
registers (what the dispatcher has seen of the host's stores at each test of a pass: a
command is taken only once both rings are known), admin queue, life cycle of
the pair, doorbells, and rings. For a ring it says which slots hold which entry with
which phase, between the host's head and the worker's; from this follows that the
host finds exactly the completions that are posted and not taken, across wraps and
deletions. It needs fewer commands than slots (`ControllerAssumption`); `NullAssumption`
says that no queue is `NULL`. `NothingIsLost` adds `SignalInv`: while an answer is not
taken, an interrupt for it is on its way, and at each stage one thread holds it (the
dispatcher at the end of its fetch, or the worker between filling the entry, setting
`interrupt_ready` and raising the interrupt; then the host, pending or in its handler); and
the pair is polled whenever it exists (`nr_sq`). `Quiet` excludes every one of these stages.
What it does not promise is an admin doorbell that a register noticed late has set back
(`dbs["asq"] = hadm.tail` is its antecedent): after the boot of `ctrl_boot` this can happen.

**IoWorker** (`IoWorkerProofs`): `ListsStayLists` and `InsertionSorts`, without hypothesis;
`QueueTypes`, `BufferUnitsAccounted` and `QueueImplemented` with `WorkerMayStall = FALSE`.
`CoreInv` says that there are two sequences, the I/O list and the free list, that `next` and
`prev` link them, and where in them the dispatcher stands (`Place`) in each step of an
insertion or a reclamation: half-linked states are states the worker sees. `Sorted` is
part of it, since an insertion from the tail stops at the right place only in a sorted
list. `WorkInv`, `DispInv`, `ReqInv` and `BufInv` then speak of the sets of entries only: where
the worker stands, which entry holds which request, which unit of buffer belongs to
which operation. `QueueImplemented` is the safety half of `ImplementsQueue`. The
hypothesis says that `Alloc` never takes the entry on which the worker stands; without it
a request may be answered before it was copied.

**KvFtl** (`KvFtlProofs`): `TableTypes`, `SearchesEnd`, `NothingOutdatedFound`,
`ValuesKeepApart`, `IteratorsExact`, without hypothesis. The inductive invariant `KvInv`
rests on two facts about the links. A link is made to a free slot only, and a free slot
links nowhere: hence there is a rank that grows along every link (`Chains`), and no search
walks in a ring. An entry that its key no longer owns lies outside a set of slots that
contains the start of the search and that no link leaves (`OutOfReach`); such a set grows by
the slot that is being filled only, so that what was cut off never comes back. `DataInv` places
what was allocated for the entries in the storage, each apart from the others and below the
allocator's offset, `IterInv` ties what an iterator has returned to its position.
That the recursive `Search` is a function at all, and where it ends, follows from the rank
with a least counterexample.

**CleanFtl** (`CleanFtlProofs`): `CleanerTypes`, without hypothesis; `WorkIsShared`,
`FlashIsDense`, `LinesLast` and `NothingInvented` with hypotheses on what is mapped when the
clean begins. The proofs see the two sets of lists as one table of queues (`Work`), in which
a step removes a chunk, changes it in place or moves it to the end of another queue.
`CleanerTypes` includes that the running chunk is where `pos` or `prem` says on its list.
`CleanInv` joins this with `ShareInv` (the chunks are
disjoint and cover the mapped pages not yet written, each partition every `NrParts`-th
page), and `DenseIn` (the pages a partition has written are those its pointer has passed,
with one counter per die). They need each other: a line is left for a page only because the
partition writes no page twice, which `ShareInv` gives. The hypotheses are these.
- `Striped`: no run of mapped pages ends before the last page of the first stripe. Without
  it the end of a chunk is computed below zero and wraps; `clean_wrap` is the run that shows
  `OnlyMapped` false then.
- `Roomy` (not in `NothingInvented`): the mapped pages of a partition are fewer than those of
  its lines without one. The over-provisioning of `conv_init_namespace` (7%) gives that for
  the shipped sizes. The proof counts them: what is written injects into what is mapped.

The constants of the run `clean` satisfy both, so TLC checks the theorems' statements on
states that meet the hypotheses.

Only model-checked: liveness (`EveryRequestFetched`, `CleanerEnds`, the fairness half of
`ImplementsQueue`), which is out of the prover's reach. Every invariant and action property
that a passing run checks is stated by a theorem.

## 5. Plan and what is not modelled

Modelling left, in this order:

1. Controller shutdown and restart (`nvmev_proc_bars` notices changed registers only), and
   completion queues shared by submission queues.
2. Snapshots and cleaning of a device whose dispatcher runs, or has commands queued. Both
   functions read tables that change under them; what a file then holds depends on the
   order of single stores, and no statement of the code says what it should be.
3. The write buffer shared by the partitions.

Proofs left: liveness, and a statement of `IoWorker` that holds with `WorkerMayStall = TRUE`.

Not modelled: device management (`create_device`, `delete_device`: sequential, mostly
kernel resources; note that identifiers come from a counter that a deletion lowers, so
that two devices may have one number, and that the error path of `create_device`
unlinks an element that was never linked); NAND and PCIe timing (latencies only decide
when an operation is due, and `IoWorker` takes every time for possible); the simple FTL
(no state beyond idle times); the bitmap allocator (no configuration selects it); reads,
report-zones, identify and log pages (they change no state). One read of
an undefined value has no consequence in the shipped builds: `lbas_per_zrwa` is computed
from a structure that is not yet filled (`zns_ftl.c:100`), but ZRWA is off. `num_list` is
set by the user before a clean, and 0 would divide by zero (`main.c:1012`).

Known, and without a run of their own:

- Each write that touches the last page of a wordline programs the wordline and releases all of
  it, since the loop compares page numbers (`zns_read_write.c:161-187`) and a page has several
  sectors: a zone's buffer can end up with more space than it was made with. `BufferCovered`
  bounds it from below only.
- A worker copies the data of a zone write that was rejected (`io.c:452-460`, `610-630`), and a
  reset does not wait for copies under way (`zns_mgmt_send.c:125`): either may leave data beyond
  the write pointer, which a snapshot leaves out, against `zns_save_load.c:156`. With
  `Careless = {"rejected"}` or `{"reset"}` the model has both.
- A save ignores the results of its writes (`zns_save_load.c:89-131`, `163-164`, `180`) or returns
  0 after an error (`171-174`). A load takes the end of a file for the sentinel (`298-301`, against
  the comment at `290`), so that a file that a full disk has cut off before a chunk is loaded with
  success and zeros; one cut within the data of a zone makes it loop for ever.
- A value that is longer than the space of its entry is written over the value behind it
  (`kv_ftl.c:487-497`, `622-638`): the cells are `spilt`, and what they held for another key is lost.
- The allocator's offset is tested after the copy, and only where a value begins (`kv_ftl.c:193`,
  `228`, `572`, `638`): the last one may be copied over the mapping table, which lies behind the
  storage (`995-997`). The model stops there (`"overrun"`).
- If aqa, asq, acq and cc all become visible between the first and the last test of one pass, cc
  is recorded as seen with a warning (`pci.c:229-253`), and `rdy` is never set.
- A zone that is finished early is FULL with its write pointer in the middle, against the
  comment at `zns_save_load.h:30`; only the part below the write pointer is saved, which is
  all the host has written.
- With a ZRWA, a write to the last block fills a zone where `zns_read_write.c:32` asserts
  that it cannot. No shipped build has a ZRWA of nonzero size.
- A request, or an internal operation that releases buffer space, is dropped when the free
  list is down to one entry (`io.c:281`): it is never answered, or the space never
  given back. `IoWorker` counts it as refused or dropped, and its properties tolerate it.
- An update in place with another length reads back with the length of the old value if it
  is batched (`kv_ftl.c:643-645`) or either length is over 1 KiB (`kv_ftl.c:492`).
- With a stale budget of 0 (`main.c:1197`, read from freed memory) a clean never ends.
- A worker that stands on an entry while the free list comes round to it may answer a
  request before it is copied (`WorkerMayStall`); it takes a very long preemption.
- Two stores of a new key by two workers (`kv_ftl.c:482`), the order of `status` and the
  results in a completion (`io.c:562`), a command read again from the ring (`io.c:41`),
  and commands still queued when a clean begins (`main.c:1151`) are not modelled.
- One-shot pages of more than one page are exercised by `snap` only (one lun, three
  pages); `conv` has two luns and two wordlines of one page.

Not planned: the DMA client, the PCI configuration space, sysfs text, the fragmentation
report (read-only), generated glue and protocol headers, and the exact latencies.
