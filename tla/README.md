# libhemem: page bookkeeping and migration, in TLA+

`libhemem.so` (`src/`) is a user-space tiered-memory manager. It intercepts
`mmap` and `munmap`, backs large anonymous regions with 2 MB pages of two
device files (DRAM, 16 GB, and NVM, 240 GB), and moves pages between the two
tiers on request, by DMA, in a thread of its own. `mig-test` is the program
that exercises it. This directory holds TLA+ modules that model its core, TLC
configurations that check them, and proofs that TLAPS checks.

File and line references below are to `src/`.

## 1. The system

### Components, their state and their operations

| component | code | state | operations |
|---|---|---|---|
| fifo lists | `fifo.c` | `first`, `last`, `numentries`, `list_lock` of a list; `next`, `prev`, `list` of an entry | `enqueue_fifo`, `dequeue_fifo`; `page_list_remove_page` and `next_page`, which the library offers and does not call |
| page manager | `pebs.c` | eight lists (free and mmap list of each tier, four request lists), eight counters `*_list_num`, `stats_lock` | `pebs_init`, `pebs_allocate_page`, the `get_*` readers |
| migration requests | `pebs.c:114-291` | - | `mig_dram_to_dram_request`, `migrate_down_request`, `migrate_up_request`, `mig_nvm_to_nvm_request` |
| migration thread | `pebs.c:293-436`, `pebs.c:57-87` | `page[]`, `next_page[]`, `offset[]` | `migration_request`: four loops over the request lists |
| moving pages | `hemem.c:504-909` | device contents, mappings, write protection, `in_dram`, `devdax_offset`, `migrating` | `hemem_wp_page`, `hemem_migrate_dram/nvm/up/down` |
| regions | `hemem.c:315-502` | hash table `pages`, `pages_lock` | `hemem_mmap`, `hemem_mmap_populate`, `hemem_munmap` |
| fault thread | `hemem.c:912-1120` | one message | `handle_fault`, `handle_missing_fault`, `handle_wp_fault` |
| copy threads | `hemem.c:54-142` | job, lock, barrier | `memcpy_thread`, `hemem_parallel_memcpy/memset` (only without `USE_DMA`) |
| interposition | `interpose.c` | `internal_call` (per thread), `is_init` | `mmap_filter`, `munmap_filter`, `hook` |
| CPU recorder | `res-record.c` | `first`, `running`, `before`, `after`, `record` | `record_util`, `record_run_request`, `record_stop_request` |
| timers | `timer.c` | - | `timeDiff`, `elapsed`, `clock_time_elapsed` |
| start and stop | `hemem.c:194-312`, `interpose.c:104-119` | - | `hemem_init`, `hemem_stop` |
| test program | `mig-test.c` | - | `main` |

The rest of the repository (uthash.h, test.c, shell scripts, plots, measured
results) has no state of the library. `PROJECT.json` lists each with its reason.

### How they interact

* Application threads call `mmap`/`munmap` (through the filter) and the request
  functions. They share all lists, counters and the hash table with the fault
  thread and the migration thread.
* A page struct travels over lists: free list -> mmap list (allocation) ->
  request list (request) -> batch of the migration thread -> mmap list. Each
  list has its own lock. A list and its counter are never updated together.
* The counters are updated under two different locks: `stats_lock` in `pebs.c`,
  `pages_lock` in `hemem.c`. They are read without a lock by the migration
  thread (`pebs.c:312`), the requests (`rand() % counter`) and the clients.
* A thread that touches a missing page sleeps in the kernel until the fault
  thread has mapped a page there and issued `UFFDIO_WAKE`.
* `mig-test` polls the counters to learn that its requests have been served.

### What is hard here, and what makes it correct

* *Ownership*: every page struct is on one list, or in one thread's hands.
* *Counter against list*: the migration thread reads a counter and then trusts
  the list; a NULL entry is dereferenced.
* *Flags against lists*: dozens of assertions rely on `in_dram` and `present`
  agreeing with the list a page comes from, across migrations that swap tiers.
* *Frames*: two virtual pages must never show the same frame; what the library
  records of a page must be what the kernel maps.
* *Progress*: faults are served, requests return, queued pages move, and the
  wait loops of the client end and mean what the client takes them to mean.

`PROJECT.json`, under `hazards`, names each such place with its line and either
the property that covers it or the reason none does yet.

## 2. The modules

| module | what it is |
|---|---|
| `PageManager` | the core: lists, counters, page structs, table, mappings, locks, and every thread |
| `MCPageManager` | model values and symmetry for TLC |
| `MigTest` | `main()` of `mig-test.c` as the client of `PageManager` |
| `MigTestProofs` | the test program, for every size of buffer, tiers and batches: it never dies, its waits mean what it takes them to, no frame is shown twice, its `munmap` is final |
| `PageManagerProofs` | type correctness, with the local invariant of every thread |
| `PageManagerListProofs` | the counters of the request lists are exact; no NULL page; every page struct has exactly one owner; flags agree with lists, no assertion on them fails, the tiers keep their sizes |
| `PageManagerTrackProofs` | no address is tracked twice; none of the assertions on pages fails; tracked pages are mapped where the table says; frames are distinct without requests |
| `FifoList` | the linked lists of `fifo.c`: pointers, counts, mutex, assertions |
| `Fifo` | what those lists promise: queues whose operations take effect at once |
| `FifoListProofs` | the invariant of the links; no assertion of `fifo.c` fails; the lists implement `Fifo` |
| `Migration` | `PageManager` with the contents of pages, write protection, `migrating`, and stores of the application |
| `MigrationProofs` | write protection and the faults on it; every step of `Migration` is one of `PageManager` |
| `AtomicMemory` | what the application expects of its memory |
| `ParallelCopy` | the copy threads, their job, lock and barrier |
| `AtomicCopy` | what the callers of a copy are promised |
| `ParallelCopyProofs` | the barrier keeps job and workers together; the threads implement `AtomicCopy` |
| `ResRecord` | the flags and samples of the CPU recorder |
| `Timer` | `timeDiff` and the interval functions |
| `RecorderProofs` | records are differences of samples; `timeDiff` is subtraction |

`MigTest` and `Migration` extend `PageManager`: they use its actions and add to
them. `FifoList` justifies the sequences of `PageManager` and `ParallelCopy` the
single step in which `Migration` copies a batch. `Fifo`, `AtomicMemory` and
`AtomicCopy` are abstract specifications, each instantiated with a refinement
mapping in the module that implements it.

### `PageManager`: state

| variable | code |
|---|---|
| `list` | the eight `fifo_list`s, as sequences, oldest entry first |
| `num` | the eight counters (`uint64_t`; a negative number `-n` stands for 2^64 - n) |
| `pg` | `va`, `devdax_offset` (in pages), `in_dram`, `present` of each `struct hemem_page` |
| `hashed` | the pages in the hash table `pages` |
| `vm` | what the kernel maps at each 2 MB slot of the address space: nothing, a registered but untouched region, or a frame of a device |
| `lock` | who holds `pages_lock` and `stats_lock` |
| `pc`, `call`, `cur` | per thread: where it is, arguments and loop variables of its call, its variable `page` |
| `upd`, `reg` | per thread: the counter updates left in its critical section, and the value it has loaded for the next one |
| `batch` | `page[]`, `next_page[]`, `offset[]`, `num` and `i` of `migration_request`; `to` is the loop it is in |
| `panic` | why the process died: a failed `assert`, a NULL dereference, a division by zero |

A page struct is named by the frame `pebs_init` gives it. The name stays when
the struct later describes another frame.

### `PageManager`: steps

A step is the longest piece of code that no other thread can look into: one
fifo operation (it runs under the list's lock), one system call, or one load or
one store of a counter. The Makefile builds with `-O0`, so `counter++` is a
load, an add and a store, and `assert` is on.

| actions | code |
|---|---|
| `Mmap`, `Allocate`, `Place`, `Map`, `Publish`, `AddPage` | `hemem_mmap`, `hemem_mmap_populate`, `pebs_allocate_page`, `add_page`. `Allocate` is one attempt (DRAM, then NVM) with its assertions; `Place` puts the page on the mmap list; `Map` is the device mapping; `Publish` writes `page->va` |
| `Touch`, `ReadFault`, `Wake`, and the five above | a first touch, `handle_fault`, `handle_missing_fault` (which counts nothing) |
| `Munmap`, `RemovePage`, `UncountPage`, `Unmap` | `hemem_munmap`: `find_page`, `remove_page`, counters, `libc_munmap` |
| `Request`, `Choose`, `Rotate`, `RotateBack`, `Take`, `Queue`, `RequestDone` | the four request functions, told apart by the list they fill |
| `Scan`, `TakePage`, `TakeNext`, `Protect`, `Copy`, `Remap`, `Restore`, `RestoreNext` | `migration_request`, `hemem_wp_page`, `hemem_migrate_*` |
| `LoadCounter`, `StoreCounter` | every counter update, with the lock of its file around it |
| `Panic` | the process dies with all its threads |

`Next` is a step of an application thread (starting a call, or going on with
one), of the fault thread, or of the migration thread. The client may call
anything legal at any time, bounded by `Ops` and `Kinds`: it maps slots that
are free, unmaps slots that are mapped and that nobody is working on, touches
slots that are mapped. Definitions commented "Mutant" are faulty variants of the
definition they precede, kept to show that the properties can fail; no action
uses them.

### What is abstracted

* The contents of frames, write protection and the flag `migrating`. They are in
  `Migration`.
* A fifo operation is one step. `FifoList` shows why that is sound.
* `rand() % counter` is any number below the counter; when the counter has
  wrapped below zero, any number up to `MaxRand`.
* A region is a range of whole 2 MB slots, and `offset` is counted in pages.
* `page->va` and the fields of a page are each read or written in one step.
* `num > NUM_BATCHS ? NUM_BATCHS : num` (`pebs.c:313`) reads the counter once.
  The code reads it up to three times; between the reads it can only grow, as
  the migration thread is the only one that decreases it.
* `find_page`, which takes no lock, is one step.
* `Remap` is one step: `libc_mmap`, `UFFDIO_REGISTER` and the two assignments to the
  page (`hemem.c:567-589` and its three copies). Between them the page's record is
  behind its mapping, so `TrackedPagesMatch` and the proofs about it speak of the
  states outside that window. No other thread can tell: of a page in the batch,
  `in_dram` and `devdax_offset` are read by nobody but a `munmap` that has taken the
  page out of the table (`UncountPage`), which looks at no mapping, so that its
  reading could as well have come before the remapping.
* `Mmap` is one step, and leaves the region `Reserved`. With `MAP_POPULATE` still
  among the flags (`hemem.c:426`) the kernel shows the frames of DRAM from offset 0
  on in it until `hemem_mmap_populate` lays its pages over them; nobody knows the
  address before `mmap` returns, which is after that. Likewise `Map` includes the
  `UFFDIO_REGISTER` that follows it (`hemem.c:375`).
* The error exits of system calls (`perror`, `assert(0)`), but for
  `UFFDIO_WRITEPROTECT` on an unmapped page, which the code can cause itself.

### `FifoList` and `Fifo`

`first`, `last`, `numentries`, `list_lock` are functions on lists, `next`, `prev`,
`list` functions on entries, as in `fifo.h`. `list_lock` holds the thread in the
critical section. Each operation is cut in two where its halves are least
consistent: `Enqueue` sets the links of the neighbours, `Link` sets `first`, the
field `list` and the count; `Dequeue` and `RemovePage` bypass the entry, `Unlink`
clears it and decrements the count. `failed` is set by a failed assertion. The
caller's obligations are guards: a thread enqueues an entry it holds (`held`),
and names to `page_list_remove_page` and `next_page` an entry that is met on the
way through that list (`Listed`). That such an entry's field `list` names the list,
as `fifo.c:97` asserts, is then a consequence and not a guard.

`Fifo` has a sequence for each list; the mapping reads it off the pointers,
`queue <- Chain(prev, last[l])`, and an operation takes effect at its first half.

### `Migration` and `AtomicMemory`

| added to `PageManager` | code |
|---|---|
| `content`, `protected`, `migrating` | what a frame holds, the kernel's write protection, the field of the page struct |
| `StartStore`, `FinishStore`, `StoreMisses`, `StoreIsHeld` | an instruction of the application that writes to a page: it takes effect, faults on a missing page, or faults on a protected one |
| `ReadWpFault`, `EndOfMove`, `WakeStores` | `handle_wp_fault`: `find_page`, the end of the loop on `migrating`; and the `UFFDIO_WAKE` after it, by which time the page may be marked and protected again |
| `MapZeroed`, `ClearNewPage`, `TrackPage` | a page is zeroed before it is mapped; `migrating` is cleared before `add_page` |
| `SetMigrating`, `ProtectPage`, `CopyBatch`, `RemapPage`, `ClearMigrating` | the five parts of `pebs_migrate_*` and `hemem_migrate_*`, around the actions of `PageManager` |

`AtomicMemory` knows only virtual pages: a store takes effect at one moment
between its start and its end, and nothing else changes a page. The mapping is
`mem <- [v |-> content[vm[v]]]`, or zero where no frame is mapped.

`find_page` in `handle_wp_fault` may fail the assertion at `hemem.c:919`; that is
one more way for the process to die. `migrating` of a new page is cleared after
its address is published (`hemem.c:381-384`), so a move that starts in between can
lose its mark; the model has this, and the only effect is that a held store
faults again.

### `ParallelCopy` and `AtomicCopy`

The client takes `pmemcpy.lock`, writes the job, and meets the copy threads twice
at the barrier. `Arrive` is `pthread_barrier_wait`: the last of
`MAX_COPY_THREADS + 1` threads releases the rest. A copy thread reads the job in
one step and writes its chunk in another. A call takes effect, in `AtomicCopy`,
when it sets its job. The library is built with `USE_DMA`, where these threads
are not compiled; the module is about the other build.

### `ResRecord` and `Timer`

`ResRecord` has the flags `first` and `running`, which a client sets with plain
stores in the middle of anything, and the samples of each core; `cal_record` is
one step for a core, since it reads `first` once for each of them. `Timer` has
operators only: `timeDiff` with its borrow, on seconds and microseconds.

## 3. What TLC checks

Passing runs:

| run | instance | properties | what it shows |
|---|---|---|---|
| `requests` | 2 threads, 2 + 2 frames, batch 1, demotions | `TypeOK`, `Ownership`, `QueueCountExact` | populates, requests (ordered and random) and migrations of two threads lose no page, own no page twice, and keep the counter of the request list exact |
| `kinds` | 1 thread, 2 + 2 frames, batch 2, demotions, promotions, moves within NVM | `NoNullPage`, `KindsMatchLists`, `FlagAssertionsHold`, `TiersConserved`, `TrackedPagesMatch` | any sequence of moves, in batches of one and two, keeps flags and lists in agreement, never takes a NULL page, and leaves every page mapped where the table says |
| `memory` | 2 threads, 1 + 1 frames, mmap, touch, munmap | `FramesDistinct`, `TrackedPagesMatch`, `FaultServed` | without migrations, mappings and table agree, frames are distinct, and every fault is served |
| `progress` | 1 thread, 2 + 2 frames, moves within DRAM | `QueuedPagesMigrate`, `RequestReturns` | a queued page is moved, a request returns |
| `mig_test` | 6 + 7 frames, buffer of 3 pages, batch 2 | `NeverDies`, `WaitMeansMoved`, `CountersSettled`, `AllPagesRequested`, `UnmapIsFinal`, `FramesDistinct`, `Returns` | the test program runs to its end, each of its wait loops means what the program needs, and after its `munmap` nothing of the buffer is queued, in a batch, tracked or mapped |
| `fifo` | 3 entries, 2 lists, 2 threads | `AssertionsHold`, `BothEndsAgree`, `ImplementsFifo` | the linked lists are queues: every sequence of the four operations, by two threads, on shared lists |
| `moves` | 2 threads (one of them only stores), 2 + 2 frames, batch 2, demotions | `ProtectedOnlyInMoves`, `FaultingPageTracked`, `ImplementsMemory`, `StoresComplete` | moving a page is invisible: stores that race with protection, copy and remapping are neither lost nor misplaced, and complete |
| `parallel_copy` | 2 clients, 2 copy threads, 3 pages of 4 cells | `JobIsStable`, `ImplementsAtomicCopy`, `CopiesComplete` | a copy in chunks by several threads is one copy, also when copies and clears of several clients follow each other |

Properties that hold "unless the process dies" say so (`Running`): the
instances are small enough for a tier to fill up, and then the process does
die (see below). `NeverDies` is stated only for `mig_test`, whose sizes rule
that out.

Runs that find a statement of the sources violated (details in `PROJECT.json`,
`findings`):

| run | statement | what happens |
|---|---|---|
| `shared_frame` | "finding a free page" (`hemem.c:334`) | `next_page[i]->devdax_offset = offset[i]` (`pebs.c:324`) writes back the offset just read from the same struct. The freed entry names the frame the moved page now occupies, and a later allocation maps it a second time |
| `nvm_while_dram_free` | "DRAM is full, fall back to NVM" (`pebs.c:454`) | `hemem_munmap` never puts pages back on a free list; DRAM that nothing maps is not used again |
| `lost_update` | `while (get_total_mmap());` after `munmap` (`mig-test.c:46-47`) | `nvm_mmap_list_num--` under `pages_lock` overlaps `nvm_mmap_list_num += num` under `stats_lock`; the total never returns to zero |
| `va_zero` | `assert(addr != 0)` (`hemem.c:894`) | the page is on the mmap list before its address is recorded; a request of a second thread hands it to the migration thread |

`kinds` has neither `munmap` nor faults, so of the assertions in `FlagAssertionsHold`
it does not put "page already tracked" to the test, and `TrackedPagesMatch` there
speaks only of pages that stay mapped; `memory` has both calls and no requests. The
theorems `PageAssertionsNeverFail` and `TrackedPagesAreMapped` cover the rest, the
latter for clients that do not both unmap and request. `mig_test` has one requester
that waits: what befalls other clients is not its subject.

Seen in the model while building it, without a run of their own: a page that
came in by a fault is never counted but is uncounted by `munmap`, so the mmap
counter wraps below zero (`hemem.c:929-998`); `next_page[i]` is NULL when the
target tier has no free page (`pebs.c:319`); an offset from NVM, kept by an
entry that moved to the DRAM free list, exceeds `DRAMSIZE` (`hemem.c:629`); a
page unmapped after it was queued makes `UFFDIO_WRITEPROTECT` fail
(`hemem.c:902`; `UnmapIsFinal` shows that `mig-test` waits long enough), or is laid over a new mapping of the same address
(`hemem.c:567`). Two overlapping random requests can also find the list empty
although its counter is not zero (`pebs.c:214`).

### Bounds

* Frames: 2 + 2 let a tier be empty, partly used and exhausted, and let a freed
  entry be allocated again. `kinds` needs two per tier for a batch of two. The two
  tiers have the same size there, so an offset that strays to the other device
  (above) does not end the run early and longer sequences of moves are explored.
  `shared_frame` needs three in DRAM for the stale entry to come up again.
* Threads: two application threads, because the hazards of the allocator and
  the requests are between two of them; with the migration and the fault thread
  that makes four. Where one thread is given, the property is about the order
  of calls or about the application against the migration thread.
* `NUM_BATCHS` is 1 in the repository; it is a parameter of its measurements,
  so 2 is checked as well. The theorems hold for every value.
* `MaxPagesNum` bounds `pages_num`. A longer request repeats the same loop.
* `MaxRand` bounds the rotation when the counter has wrapped; a rotation by
  the length of the list restores its order.
* `mig_test` scales 8 GB of buffer, 16 GB of DRAM and 240 GB of NVM to 3, 6 and 7
  pages. DRAM must be twice the buffer, because the pages that move up take fresh
  entries while the stale ones of the demotion are at the end of the free list;
  NVM must exceed DRAM, so that an offset that strays to the other device is out
  of its range.
* `fifo`: three entries are the fewest with an entry in the middle of a list, and
  with two lists an entry can move from one to the other while the first changes.
* `moves`: two pages make batches of one and two, and two threads let one store
  while the other populates, requests and stores. With two frames of DRAM no
  freed entry is allocated again, so the wrong offset at `pebs.c:324` (finding
  `shared_frame`) stays out of the way; with a third one two pages may share a
  frame, and memory is not even memory. One direction of moves is enough: all
  four share `pebs_migrate_*`'s order of steps. `KeepsItsPages`: the application
  does not unmap, as a page unmapped while queued kills the process (above).
* `parallel_copy`: two clients compete for the lock; the third page lets a copy
  read what another call has just written. `ChunksAssumption`: the length is a
  multiple of the number of threads; `hemem.c:95` would leave a remainder uncopied,
  and no property here would see it.
  `MAX_COPY_THREADS` is 1 in the repository, with 4 in a comment beside it
  (`hemem.h:39-40`); two are needed for a chunk to be late.

### Fairness

`FairSpec` gives weak fairness to the steps of each application thread inside a
call, to the fault thread and to the migration thread: the scheduler runs every
thread that can run (each of the library's threads is pinned to a core, and the
locks are held for a few instructions). Nothing is assumed about the calls an
application makes: it may stop making any. Within `MigTest`, `main()` itself is
fair, since it is a program that goes on. A mutex that is free again and again
could in theory be missed for ever under weak fairness; no property needed more.
`QueuedPagesMigrate` is checked with one kind of request. With several, a client
that keeps refilling an earlier loop of `migration_request` starves the later
ones, and no fairness of the scheduler prevents that.

`Migration` assumes the same of its threads: weak fairness for the steps of each
application thread (its library code and its started store), of the fault
thread and of the migration thread, which is what `StoresComplete` needs. While
the fault thread spins in `handle_wp_fault` it serves nobody else; the property
shows that the migration thread, which it waits for, never waits for it.
`ParallelCopy` assumes it of every client and copy thread, a barrier being a
wait that ends. A client can be passed over for the lock for ever, so
`CopiesComplete` speaks of the client that has it.

`CHECK_DEADLOCK FALSE` is set for the runs of `MCPageManager` and `Migration`: the
process may die, and then nothing moves. `mig_test` (the migration thread always
has a step), `fifo` and `parallel_copy` check deadlock.

## 4. What is proved

For every value of the constants: every set of threads, every number of frames,
every batch size, every set of calls and kinds of request, of entries, of lists
and of cores.

| theorem | statement | module |
|---|---|---|
| `TypeCorrect` | `Spec => []TypeOK` | `PageManagerProofs` |
| `Invariant` | `Spec => []IInv` | `PageManagerListProofs` |
| `QueueCountsAreExact` | `Spec => []QueueCountExact` | `PageManagerListProofs` |
| `NeverNullPage` | `Spec => []NoNullPage` | `PageManagerListProofs` |
| `EveryPageHasOneOwner` | `Spec => []Ownership` | `PageManagerListProofs` |
| `KindInvariant` | `Spec => [](IInv /\ OwnInv /\ KindInv)` | `PageManagerListProofs` |
| `FlagsMatchLists` | `Spec => []KindsMatchLists` | `PageManagerListProofs` |
| `TiersKeepTheirSizes` | `Spec => []TiersConserved` | `PageManagerListProofs` |
| `PageAssertionsNeverFail` | `Spec => []FlagAssertionsHold` | `PageManagerTrackProofs` |
| `TrackedOnce` | tracked addresses differ and are mapped | `PageManagerTrackProofs` |
| `TrackedPagesAreMapped` | `Spec => []TrackedPagesMatch`, for clients that do not both unmap and request | `PageManagerTrackProofs` |
| `FramesAreDistinct` | `Spec => []FramesDistinct`, for clients that make no requests | `PageManagerTrackProofs` |
| `MovesKeepBookkeeping` | `MemSpec => Spec` | `MigrationProofs` |
| `PagesAreUnprotectedAgain` | `MemSpec => []ProtectedOnlyInMoves` | `MigrationProofs` |
| `FaultsFindTheirPage` | `MemSpec => []FaultingPageTracked` | `MigrationProofs` |
| `TestUsesTheLibrary` | `MigSpec => Spec` | `MigTestProofs` |
| `MigInvariant` | `MigSpec => []MigInv` | `MigTestProofs` |
| `TestNeverDies` | `MigSpec => []NeverDies` | `MigTestProofs` |
| `WaitsMeanMoved` | `MigSpec => []WaitMeansMoved` | `MigTestProofs` |
| `WaitsSettleCounters` | `MigSpec => []CountersSettled` | `MigTestProofs` |
| `RequestsTakeAllPages` | `MigSpec => []AllPagesRequested` | `MigTestProofs` |
| `TestUnmapIsFinal` | `MigSpec => []UnmapIsFinal` | `MigTestProofs` |
| `TestFramesAreDistinct` | `MigSpec => []FramesDistinct` | `MigTestProofs` |
| `ListsInvariant` | `Spec => []IInv` | `FifoListProofs` |
| `NoAssertionFails` | `Spec => []AssertionsHold` | `FifoListProofs` |
| `ListsReadBothWays` | `Spec => []BothEndsAgree` | `FifoListProofs` |
| `ListsAreQueues` | `Spec => ImplementsFifo` | `FifoListProofs` |
| `CopyInvariant` | `Spec => []CopyInv` | `ParallelCopyProofs` |
| `JobsAreStable` | `Spec => JobIsStable` | `ParallelCopyProofs` |
| `CopiesAreAtomic` | `Spec => ImplementsAtomicCopy` | `ParallelCopyProofs` |
| `RecorderInvariant` | `Spec => []IInv` | `RecorderProofs` |
| `RecordsAreMeasured` | `Spec => []RecordsAreDifferences` | `RecorderProofs` |
| `DifferenceIsExact`, `IntervalsAddUp` | `timeDiff` is subtraction, and intervals add up | `RecorderProofs` |

Assumptions: `SizesAssumption` (sizes are natural numbers, the batch size is not
zero), `ThreadsAssumption` (finitely many application threads, other than the
library's two), `ClientAssumption` (`Ops` and `Kinds` name calls and lists); for
`Migration`, `KeepsItsPages` (the client does not unmap) and `SlotsAssumption` (there
is an address to map); for the test program, `MigTestAssumption` (it has one thread and
makes three kinds of call; its buffer fits into the address space, once into NVM and
twice into DRAM, as 8 GB do into 240 GB and 16 GB); for the lists, `EntriesAssumption` (finitely many entries,
none of them NULL), `ListsAssumption` and `CallersAssumption`; for the copy threads,
`ChunksAssumption` (the length is a multiple of the number of threads),
`ThreadsAssumption` and `NoneAssumption` (names that differ). TLC evaluates them in
every run.

**Type correctness.** `TypeOK` is not inductive: `Place` enqueues `cur[t]`, and
that is a page only because `Allocate` came before. `LocalInv` says what each
thread knows at each label: which call it is in, when it has a page in hand,
how far the arrays of the batch are filled, and which counter updates a critical
section still has. One lemma `<Action>Local` for each action shows that the
action preserves `TypeOK /\ LocalInv`; `OthersOK` and `MigratorOthersOK` carry
over the conjuncts of threads that did not move.

**Exact counters, no NULL page.** The argument is about `stats_lock`, and
`CountInv` adds what it needs:

1. `RegistersOK`: a thread between the load and the store of a counter holds the
   lock of that update, and if the counter is that of a request list, the value
   in its register is still the counter's value. This is where the locks matter:
   only requests and the migration thread update those counters, and both take
   `stats_lock`. (For the mmap and free counters it is false, and `lost_update`
   shows what comes of it.)
2. `QueueCountExact`: the counter equals the pages on the list plus those in the
   batch, less one for each requester that has enqueued and not yet counted. The
   request enqueues before it counts, and the migration thread subtracts after
   it is done, so the counter never runs ahead of the pages.
3. `CountersOK`: the batch never claims more than the counter has. It is read
   once; only the migration thread decreases it afterwards.
4. From 2 and 3: while the batch is not full, the list is not empty, so
   `TakePage` does not see NULL (`ScanCount`, `TakePageCount`).

Most actions touch none of this. `Quiet` names the frame condition, `QuietCount`
proves that a quiet step preserves `CountInv`, and the lemmas of most actions
only show that they are quiet. The counting steps (`LoadCount`, `StoreCount`),
`QueueCount`, `ScanCount` and `TakePageCount` carry the argument.

**One owner for each page.** Counting the elements of a set that a step rebuilds
is no way to an inductive proof. `OwnInv` says instead that for each page there is
one owner `o` such that being an owner and being `o` is the same (`Sole`), where an
owner is a place on a list or a slot: the hand of a thread, an entry of `page[]` or
of `next_page[]`. A step moves one page. It leaves its place on a list, the later
entries moving up (`TakeOff`), or its slot (`LetGo`), and for a moment has no owner
while all others have one (`AllBut`); then it gets a slot (`Grab`) or the last place
of a list (`PutOn`). These four lemmas know nothing of the program; each action's
lemma names the two it consists of. `OneOwner` turns the invariant into
`Cardinality(Owners(p)) = 1`.

**Flags.** `in_dram` and `present` are written without a lock, by `Place`, `Remap` and
`Restore`. What protects them is ownership: the writer has the page in its slot, so
the page is on no list, in no other hand and in no other slot (`AloneInSlot`,
`WriteInSlot`), and nothing anyone else knows of a page becomes false. `KindInv` says
what is known: a page on a list suits it (`Fits`), a page in a hand suits the list
it is going to, and of the batch the first `i - 1` pages have the new tier while
`next_page[]` still has it too, until `Restore` gives those entries the old one. The
assertions of the allocator, the requests and `hemem_migrate_*` follow in the state
before.

**Sizes of the tiers.** A batch of `n` promotions makes DRAM pages of `n` structs
before it makes NVM pages of `n` others. `TierInv` counts the difference (`Moved`), and
`KindInv` says which way each flag flips, so each `Remap` and `Restore` changes the
count by exactly one, or not at all.

**Tracked addresses.** `add_page` asserts that the address is not in the table. It is
not, because of an argument that no single function makes: the fault thread may be at
work in the region of a thread that sleeps in a fault, while other threads populate
and unmap. `TrackInv` says that the regions of two calls are apart unless both calls
are faults (`RegionsApart`); that what a thread has left to fill is not tracked
(`FillOK`), and what a `munmap` has passed is not tracked any more (`UnmapOK`); that the
fault thread works for a thread that sleeps, and the page that thread waits for is
not tracked until the wake-up follows (`ServeOK`, `WaitOK`); that a tracked address is
mapped to a frame (`TableOK`), so that `mmap` and `touch`, which the kernel grants only
where no frame is mapped, never meet one; and that the page a thread has in hand is
in nobody else's and not in the table (`HasOK`, `HandsApart`). The last needs
ownership and flags: a page on a free list is absent, and a page in a hand is either
present or has that hand for its one owner. `FillsAlone` and `FillsNoFault` say that
nobody else's address is filled; with them `AddPage` and `Unmap` follow. That the
application does not unmap a region another of its threads is working in is an
assumption about the client, in the guards of `Mmap`, `Touch` and `Munmap`.

**Tables and mappings.** `TrackedPagesMatch` needs three facts beside `TrackInv`.
`Match` says it for tracked pages and for the pages that threads have mapped and
not yet added. `KnownVa` says that a page with an address is in the table, or in the
hand of a thread that is about to add it; a page of the batch that passed `Protect`
has an address, so `Remap` lays it over its own mapping. `Unique` is what remains of
the distinct addresses when the process has died. The hypothesis is needed: without
`KnownVa` (a page of the batch has been unmapped) `Remap` maps an address that may
belong to another page since. TLC finds that in 40 steps with mmap, requests and
munmap of one thread. A client that makes no requests needs `Still` in its place: the
migration thread finds every queue empty, because the exact counters are zero, and
never remaps. `FramesAreDistinct` needs `Placed` as well: without requests every page
keeps its own frame.

**Stores during moves.** `ReadWpFault` panics if it does not find the page
(`hemem.c:919`). `MemInv` says why it does. A thread sleeps on a page that was
protected (`SleepOK`); only the migration thread protects, and only pages of its batch
between its two loops (`ShieldOK`); `Protect` meets only pages with an address, and
such a page is tracked, or `Pending`: the thread that has it in hand is about to add
it. If that thread is the fault thread, it adds the page before it reads the next
fault. If it is the thread of an `mmap`, the region is that call's, and nobody stores
there before the call returns (`StoreOK`). With the page found, every step of
`Migration` is one of `PageManager`, or leaves its variables alone (`StepsRefine`);
that is `MovesKeepBookkeeping`, and with it all theorems of `PageManager` hold while
the application stores to pages that move. Between `SetMigrating` and `ClearMigrating`
the batch stays as it is, so the pages of `protected` stay in it until `RemapPage`,
whose new mapping is not protected.

**The test program.** `PageManager`'s theorems hold of `mig-test` once its calls are shown
to be calls of a client (`MigSteps`); what is left is to show that this client meets
none of the ways to die that other clients do. The argument counts:

1. In a round of requests each of the nine quantities that change, four lists and
   their counters and the batch, is a sum of two terms: what `main()` has still to
   request (`Requesting`) and the stage the batch is in (`Migrating`). `InTransit` says
   that the pages requested are queued, in the batch, or moved. `RegsExact` makes the
   counters exact: with one thread in the application, and none of its updates of
   the lists of a round under `pages_lock`, no update is lost.
2. When `main()` is back from its request and finds the counter of the round at zero,
   the batch is empty (`QueueCountExact`), nothing is queued, and the sums leave only
   `Settled`: all pages on the list of the other tier, all counters exact
   (`RoundEnds`). `WaitMeansMoved` follows: every address is tracked (`VasOK`), its
   page is on that list because no other list and no hand can have it, so it has
   that tier's flag (`KindInv`), and it is mapped where it says (`Match`).
3. `rand()` is never divided by zero, as `Left` is the length of the list it is taken
   for. `next_page[i]` is never NULL: the target tier has as many entries, free or in
   use, as it had, and the buffer fits (`EntryFree`). A page that is protected has an
   address (`VasOK`), and it is mapped (`TableOK`), so `UFFDIO_WRITEPROTECT` succeeds.
4. The entries freed by the demotion name frames of NVM and are put on the free list
   of DRAM (`hemem.c:629`); those freed by the promotion name frames of DRAM and go to
   NVM's. They are at the end of their list: its first `Good` entries are not among
   them, and the program allocates no others. The promotion takes `npage` of them, and
   there are `FASTMEM_PAGES - npage`. This is where DRAM must hold the buffer twice, and
   a second pair of rounds would not be safe.
5. A page is `Live` if its frame is in use or is going to be: it is present, about to
   be, one of the `Good` entries, or an entry of the batch whose frame has not been
   passed on (`Ahead`). `FramesOK` says that live pages name frames that exist and no
   two the same. It is inductive because nothing comes to life (`LiveShrinks`), and
   only the page that is remapped changes its frame: it gets that of its entry, which
   stops being live in the same step (`RemapSwaps`). What is mapped is mapped for a
   page that is tracked or about to be (`NextShown`), so two addresses with one frame
   would have one page (`ShownApart`); from `munmap` on addresses only lose what they
   showed (`UnmapShowsLess`).
6. Outside the rounds the migration thread only scans (`OnlyScans`), so `munmap` is
   final.

**The links of the lists.** What must hold between the pointers is that `prev`
leads from `last` to `first` through every entry of the list once, `next` leads
back, and the count is their number. The set of entries reached by following a
pointer is a recursive notion, and a step changes it at a place the recursion does
not show. The invariant avoids it: it says that *there is* a sequence for each list (`Lists`) along whose
neighbours the two pointers run, without repetition, with its two ends at `first`
and `last` (`IsChain`). An operation then changes a known sequence: it appends at
one end, drops the other end, or removes an element, and the lemmas about
sequences (`EndsOfChain`, `NeighboursInChain`, `SameChain`, `LongerChain`,
`ShorterChain`) say what that does to the neighbours. Each of the nine
assertions of `fifo.c` follows from the invariant in the state before; the last,
`page->list == list` of `next_page`, because what `Chain` meets is that sequence
(`ListedEntries`).

The second difficulty is the half of an operation that is not done. While a
thread is at `link` or `unlink`, `first`, the count and the field `list` lag
behind; `Linking`, `Unlinking`, `Front`, `Length` and `On` give the value each will
have when the critical section ends, and the mutex (`list_lock[l] = t` exactly
when `t` is between the halves of an operation on `l`) makes it a matter of one
thread for each list. `OneListEach` and `OthersKeep` carry over what the thread's
step does not concern. The same invariant is also checked by TLC on the instance of
the run `fifo`.

`Chain`, the list as the pointers give it, is a recursive function. That it is the
sequence of the invariant (`ChainOfList`, and from it `ListsReadBothWays`) needs an
induction over the length, which is done by least counterexample (`LeastNumber`): the
induction theorems of the library take an operator, but the well-foundedness of the
natural numbers speaks of a set. Then each first half of an
operation changes the queue as `Fifo` says, by the lemma on sequences it already
had, and each second half changes none of the pointers the queue is read from
(`SecondHalvesStutter`).

**The copy threads.** A barrier counts threads and does not know them, so that a fast
copy thread does not overtake a slow one is not to be seen from any single wait.
`WaitInv` and `HolderInv` leave `MAX_COPY_THREADS + 1` threads that can be at the
barrier at all: the copy threads and the holder of the lock. As many must be there to
open it, so when it opens all of them are (`WorkInv`: the copy threads are at work
exactly while the holder is between its two waits). The job is therefore the
holder's as long as anyone reads it, `Ready` says which chunks are done, and the
chunks cover the page (`ChunksCover`). In the mapping the call takes effect when the
job is set; the later writes of the chunks stutter.

**The recorder.** `first` is set by clients and cleared by the recorder, without a
lock. A record could be wrong if `first` were clear at the end of a round and had
been set for some core in it. The invariant says why that cannot be: while the
recorder samples, `first` can only become set, so if it is clear at the end it was
clear for every core; and if it is clear at all, every core has an earlier sample.

**Only model-checked.** Liveness, which is outside the prover's reach.
`ImplementsMemory`: once a freed frame is handed out again two pages may share it
(finding `shared_frame`), so the refinement holds for the sizes of the run and is
false for others. `FramesDistinct` is proved for clients that request nothing and for
`mig-test`.

## 5. Not modelled

* `interpose.c`: each filter is one decision on its arguments and on two flags, and
  the calls it lets through are those `Mmap` and `Munmap` model. Nesting of
  `internal_call` does not arise: no function that sets it calls another that does.
* The statistics thread and the counters it prints: they read and print.
* `uthash.h`: a vendored hash table; `PageManager` has the set of its elements.
  `find_page` without a lock while `add_page` expands the table (`hemem.c:190`) is
  a data race inside it, named in `hazards`.
* A `munmap` of part of a page, and regions that are not a multiple of 2 MB.
* `test.c`, the shell scripts, the plots and measured results: no part of the
  library.
* Failing system calls other than the one above: the code ends the process.

## 6. Plan

1. The refinement of `AtomicMemory` for behaviours in which no two addresses share a
   frame and a move goes to a frame that nobody maps.
2. A run for the counter that wraps below zero after a fault, and one for the
   starvation of the later loops of `migration_request`.

## 7. Running

    tlc -workers 2 -config PM_requests.cfg MCPageManager.tla
    tlc -workers 2 -config MigTest.cfg MigTest.tla
    tlc -workers 2 -config FifoList.cfg FifoList.tla
    tlc -workers 2 -config Migration.cfg Migration.tla
    tlc -workers 2 -config ParallelCopy.cfg ParallelCopy.tla
    tlapm PageManagerProofs.tla
    tlapm PageManagerListProofs.tla
    tlapm PageManagerTrackProofs.tla
    tlapm MigrationProofs.tla
    tlapm MigTestProofs.tla
    tlapm FifoListProofs.tla
    tlapm ParallelCopyProofs.tla
    tlapm RecorderProofs.tla

The largest run, `kinds`, has about 2.7 million distinct states and takes about
two minutes; `moves` has 212,000 and takes as long, for its refinement and
liveness. Each proof module of `PageManager` and `MigTest` takes two to five minutes,
`FifoListProofs` about one.
