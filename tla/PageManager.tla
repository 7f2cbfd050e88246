---------------------------- MODULE PageManager ----------------------------
(***************************************************************************)
(* The page bookkeeping of libhemem: the eight page lists and their        *)
(* counters (pebs.c), the allocation and release of pages on mmap, on a    *)
(* missing-page fault and on munmap (hemem.c), the four migration request  *)
(* calls and the migration thread that serves them (pebs.c).               *)
(*                                                                         *)
(* A step is the longest piece of code no other thread can see into: one   *)
(* fifo operation (it runs under the list's own mutex), one system call,   *)
(* or one load or store of a counter.  An assert() that fails, a NULL      *)
(* dereference and a division by zero stop the process: they set `panic'.  *)
(***************************************************************************)
EXTENDS Integers, Sequences, FiniteSets

CONSTANTS
  App,            \* the application's threads
  FASTMEM_PAGES,  \* DRAMSIZE / PAGE_SIZE
  SLOWMEM_PAGES,  \* NVMSIZE / PAGE_SIZE
  NUM_BATCHS,     \* pages the migration thread moves at a time
  NumVA,          \* bound: huge-page slots of the address space
  Ops,            \* the calls the application makes
  Kinds,          \* the request calls it makes, named by the list they fill
  MaxPagesNum,    \* bound: largest pages_num of a request
  MaxRand         \* bound: largest rand() modulo a counter below zero

Tier == {"dram", "nvm"}
ToList == {"dram_to_dram_list", "dram_to_nvm_list",
           "nvm_to_dram_list", "nvm_to_nvm_list"}
List == ToList \cup {"dram_free_list", "nvm_free_list",
                     "dram_mmap_list", "nvm_mmap_list"}

FaultThread == "fault_thread"
Migrator    == "kswapd_thread"
Thread      == App \cup {FaultThread, Migrator}
NoThread    == "no_thread"

ASSUME SizesAssumption ==
  /\ FASTMEM_PAGES \in Nat /\ SLOWMEM_PAGES \in Nat
  /\ NUM_BATCHS \in Nat \ {0} /\ NumVA \in Nat
  /\ MaxPagesNum \in Nat /\ MaxRand \in Nat
ASSUME ThreadsAssumption ==
  /\ IsFiniteSet(App)
  /\ {FaultThread, Migrator, NoThread} \cap App = {}
ASSUME ClientAssumption ==
  /\ Ops \subseteq {"mmap", "touch", "munmap", "request"}
  /\ Kinds \subseteq ToList

\* The list a tier's free pages wait on, and the one its mapped pages are on.
FreeList(tier) == IF tier = "dram" THEN "dram_free_list" ELSE "nvm_free_list"
MmapList(tier) == IF tier = "dram" THEN "dram_mmap_list" ELSE "nvm_mmap_list"

\* The tiers between which the pages of a request list are moved.
Source(to) == IF to \in {"dram_to_dram_list", "dram_to_nvm_list"}
              THEN "dram" ELSE "nvm"
Target(to) == IF to \in {"dram_to_dram_list", "nvm_to_dram_list"}
              THEN "dram" ELSE "nvm"

\* The order of the four loops of migration_request().
NextLoop(to) == CASE to = "dram_to_dram_list" -> "dram_to_nvm_list"
                  [] to = "dram_to_nvm_list"  -> "nvm_to_dram_list"
                  [] to = "nvm_to_dram_list"  -> "nvm_to_nvm_list"
                  [] to = "nvm_to_nvm_list"   -> "dram_to_dram_list"

FramesIn(tier) == IF tier = "dram" THEN FASTMEM_PAGES ELSE SLOWMEM_PAGES

\* A struct hemem_page is named by the frame pebs_init() gives it.
Page   == {<<"dram", i>> : i \in 0 .. FASTMEM_PAGES - 1} \cup
          {<<"nvm", i>>  : i \in 0 .. SLOWMEM_PAGES - 1}
NoPage == <<"null", 0>>

VA       == 1 .. NumVA
Unmapped == <<"unmapped", 0>>
Reserved == <<"reserved", 0>>   \* registered with userfaultfd, not yet touched

VARIABLES
  list,    \* the fifo lists, oldest entry first
  num,     \* the *_list_num counters
  pg,      \* the fields of every struct hemem_page
  hashed,  \* the pages in the hash table `pages'
  vm,      \* what the kernel maps at each virtual page
  lock,    \* the holders of pages_lock and stats_lock
  pc,      \* where each thread is
  call,    \* the arguments and loop variables of its current call
  cur,     \* its local variable `page'
  upd,     \* the counter updates left in its critical section
  reg,     \* the register of a counter update between load and store
  batch,   \* page[], next_page[] and offset[] of migration_request()
  panic    \* why the process died, or "none"

vars == <<list, num, pg, hashed, vm, lock, pc, call, cur, upd, reg, batch, panic>>

TierOf(p)  == IF pg[p].in_dram THEN "dram" ELSE "nvm"
NoReg      == <<>>

\* Mutants: the file of one device is mapped, whatever the tier of the page.
FrameInDram(p) == <<"dram", pg[p].devdax_offset>>
FrameInNvm(p)  == <<"nvm", pg[p].devdax_offset>>

\* The frame a page names, as hemem_mmap_populate reads it.
FrameOf(p) == <<TierOf(p), pg[p].devdax_offset>>

\* Mutants: the batch is not capped; the batch is always full.
UncappedBatch(n, bound)   == n
AlwaysFullBatch(n, bound) == bound

\* Counters are uint64_t; -n stands for 2^64 - n.
AsUnsignedMin(n, bound) == IF n < 0 \/ n > bound THEN bound ELSE n

-----------------------------------------------------------------------------
(* Initial state: hemem_init() and pebs_init() have run.                    *)

\* What a thread remembers of a call on the region lo .. hi, and of a request.
RegionCall(op, lo, hi) ==
  [op |-> op, lo |-> lo, va |-> lo, hi |-> hi,
   to |-> "dram_to_dram_list", random |-> FALSE, left |-> 0, choose |-> 0]
RequestCall(to, pages_num, random) ==
  [op |-> "request", lo |-> 0, va |-> 0, hi |-> 0,
   to |-> to, random |-> random, left |-> pages_num, choose |-> 0]
NoCall == RegionCall("none", 0, 0)

EmptyBatch(to) == [to |-> to, want |-> 0, i |-> 1,
                   page |-> <<>>, next |-> <<>>, offset |-> <<>>]

\* Mutants: the loop of pebs_init stops one short; its frames overlap.
AllButLastFrame(tier) == [i \in 1 .. FramesIn(tier) - 1 |-> <<tier, i - 1>>]
HalfOffset(p)         == p[2] \div 2

InitialFrames(tier) == [i \in 1 .. FramesIn(tier) |-> <<tier, i - 1>>]
InitialOffset(p)    == p[2]

Init ==
  /\ list = [l \in List |-> CASE l = "dram_free_list" -> InitialFrames("dram")
                             [] l = "nvm_free_list"  -> InitialFrames("nvm")
                             [] OTHER                -> <<>>]
  /\ num = [l \in List |-> CASE l = "dram_free_list" -> FASTMEM_PAGES
                             [] l = "nvm_free_list"  -> SLOWMEM_PAGES
                             [] OTHER                -> 0]
  /\ pg = [p \in Page |-> [va |-> 0, devdax_offset |-> InitialOffset(p),
                           in_dram |-> p[1] = "dram", present |-> FALSE]]
  /\ hashed = {}
  /\ vm = [v \in VA |-> Unmapped]
  /\ lock = [l \in {"pages_lock", "stats_lock"} |-> NoThread]
  /\ pc = [t \in Thread |-> CASE t = FaultThread -> "poll"
                              [] t = Migrator    -> "scan"
                              [] OTHER           -> "idle"]
  /\ call = [t \in Thread |-> NoCall]
  /\ cur = [t \in Thread |-> NoPage]
  /\ upd = [t \in Thread |-> <<>>]
  /\ reg = [t \in Thread |-> NoReg]
  /\ batch = EmptyBatch("dram_to_dram_list")
  /\ panic = "none"

-----------------------------------------------------------------------------
(* Building blocks.                                                         *)

Goto(t, label) == pc' = [pc EXCEPT ![t] = label]

\* The process dies, and every thread with it.
Panic(why) ==
  /\ panic' = why
  /\ pc' = [t \in Thread |-> "dead"]
  /\ UNCHANGED <<list, num, pg, hashed, vm, lock, call, cur, upd, reg, batch>>

Running == panic = "none"

\* Mutant: the entry is returned and stays linked.
PeekFifo(l) == list' = list

Enqueue(l, p) == list' = [list EXCEPT ![l] = Append(@, p)]
Dequeue(l)    == list' = [list EXCEPT ![l] = Tail(@)]

\* The thread enters a critical section that performs these counter updates.
StartCounting(t, updates) ==
  /\ upd' = [upd EXCEPT ![t] = updates]
  /\ Goto(t, "count")

\* Mutants: the requests take the lock of the other file; the lock is kept.
OneLockPerFile(t) == IF t = Migrator THEN "stats_lock" ELSE "pages_lock"
KeepLock(t)       == lock' = lock

\* The mutex around a thread's counter updates: stats_lock in pebs.c,
\* pages_lock in hemem.c.
CounterLock(t) ==
  IF t = Migrator \/ call[t].op = "request" THEN "stats_lock" ELSE "pages_lock"

Unlock(t) == lock' = [lock EXCEPT ![CounterLock(t)] = NoThread]

\* Where a thread goes after its critical section.
AfterCounting(t) == IF t = Migrator THEN "scan"
                    ELSE CASE call[t].op = "request" -> "request"
                           [] call[t].op = "mmap"    -> "publish"
                           [] OTHER                  -> "munmap"

\* `counter += delta' is a load, an add and a store; the first load follows
\* pthread_mutex_lock, the last store precedes pthread_mutex_unlock.
LoadCounter(t) ==
  /\ pc[t] = "count" /\ reg[t] = NoReg
  /\ lock[CounterLock(t)] \in {NoThread, t}
  /\ lock' = [lock EXCEPT ![CounterLock(t)] = t]
  /\ reg' = [reg EXCEPT ![t] = <<num[Head(upd[t]).counter]>>]
  /\ UNCHANGED <<list, num, pg, hashed, vm, pc, call, cur, upd, batch, panic>>

StoreCounter(t) ==
  /\ pc[t] = "count" /\ reg[t] # NoReg
  /\ num' = [num EXCEPT ![Head(upd[t]).counter] = reg[t][1] + Head(upd[t]).delta]
  /\ reg' = [reg EXCEPT ![t] = NoReg]
  /\ upd' = [upd EXCEPT ![t] = Tail(@)]
  /\ IF Len(upd[t]) = 1
     THEN /\ Unlock(t)
          /\ Goto(t, AfterCounting(t))
          /\ batch' = IF t = Migrator THEN EmptyBatch(batch.to) ELSE batch
     ELSE UNCHANGED <<lock, pc, batch>>
  /\ UNCHANGED <<list, pg, hashed, vm, call, cur, panic>>

-----------------------------------------------------------------------------
(* hemem_mmap, hemem_mmap_populate and handle_missing_fault.                *)

InRegion(v, t) == /\ pc[t] # "idle"
                  /\ call[t].op \in {"mmap", "touch", "munmap"}
                  /\ v \in call[t].lo .. call[t].hi

\* Reserve a region and register it; with MAP_POPULATE, go on to fill it.  (The
\* flag makes the kernel show frames of DRAM there meanwhile, to nobody: the
\* address of the region has not been returned.)
Mmap(t, lo, hi, populate) ==
  /\ pc[t] = "idle" /\ "mmap" \in Ops
  /\ \A v \in lo .. hi : vm[v] = Unmapped /\ \A u \in App : ~InRegion(v, u)
  /\ vm' = [v \in VA |-> IF v \in lo .. hi THEN Reserved ELSE vm[v]]
  /\ call' = [call EXCEPT ![t] = RegionCall("mmap", lo, hi)]
  /\ Goto(t, IF populate THEN "alloc" ELSE "idle")
  /\ UNCHANGED <<list, num, pg, hashed, lock, cur, upd, reg, batch, panic>>

\* First touch of a reserved page: the thread sleeps in the kernel.
Touch(t, v) ==
  /\ pc[t] = "idle" /\ "touch" \in Ops
  /\ vm[v] = Reserved /\ \A u \in App : InRegion(v, u) => call[u].op = "touch"
  /\ call' = [call EXCEPT ![t] = RegionCall("touch", v, v)]
  /\ Goto(t, "faulting")
  /\ UNCHANGED <<list, num, pg, hashed, vm, lock, cur, upd, reg, batch, panic>>

\* handle_fault reads one message (MAX_UFFD_MSGS is 1).
ReadFault(t) ==
  /\ pc[FaultThread] = "poll" /\ pc[t] = "faulting"
  /\ call' = [call EXCEPT ![FaultThread] = call[t]]
  /\ Goto(FaultThread, "alloc")
  /\ UNCHANGED <<list, num, pg, hashed, vm, lock, cur, upd, reg, batch, panic>>

\* pebs_allocate_page: the first half of each of its two attempts.
Allocate(t, tier) ==
  /\ pc[t] = IF tier = "dram" THEN "alloc" ELSE "alloc_nvm"
  /\ LET free == list[FreeList(tier)]
         p    == Head(free)
     IN \/ /\ free = <<>> /\ tier = "dram"
           /\ Goto(t, "alloc_nvm")
           /\ UNCHANGED <<list, cur, num, pg, hashed, vm, lock, call, upd, reg, batch, panic>>
        \/ /\ free = <<>> /\ tier = "nvm"
           /\ Panic("out of memory")
        \/ /\ free # <<>> /\ (TierOf(p) # tier \/ pg[p].present)
           /\ Panic("free page of the wrong kind")
        \/ /\ free # <<>> /\ TierOf(p) = tier /\ ~pg[p].present
           /\ Dequeue(FreeList(tier))
           /\ cur' = [cur EXCEPT ![t] = p]
           /\ Goto(t, "place")
           /\ UNCHANGED <<num, pg, hashed, vm, lock, call, upd, reg, batch, panic>>

\* pebs_allocate_page: the page goes on its tier's mmap list.
Place(t) ==
  /\ pc[t] = "place"
  /\ pg' = [pg EXCEPT ![cur[t]].present = TRUE]
  /\ Enqueue(MmapList(TierOf(cur[t])), cur[t])
  /\ Goto(t, "map")
  /\ UNCHANGED <<num, hashed, vm, lock, call, cur, upd, reg, batch, panic>>

\* Zero the frame and map it.  Only hemem_mmap_populate counts the page.
Map(t) ==
  /\ pc[t] = "map"
  /\ LET p    == cur[t]
         tier == TierOf(p)
     IN /\ vm' = [vm EXCEPT ![call[t].va] = FrameOf(p)]
        /\ IF t = FaultThread
           THEN Goto(t, "publish") /\ UNCHANGED upd
           ELSE StartCounting(t, <<[counter |-> MmapList(tier), delta |-> 1],
                                   [counter |-> FreeList(tier), delta |-> -1]>>)
  /\ UNCHANGED <<list, num, pg, hashed, lock, call, cur, reg, batch, panic>>

\* Record the virtual address in the page.
Publish(t) ==
  /\ pc[t] = "publish"
  /\ pg' = [pg EXCEPT ![cur[t]].va = call[t].va]
  /\ Goto(t, "add")
  /\ UNCHANGED <<list, num, hashed, vm, lock, call, cur, upd, reg, batch, panic>>

\* add_page, and the end of the iteration.
AddPage(t) ==
  /\ pc[t] = "add" /\ lock["pages_lock"] = NoThread
  /\ \/ /\ \E p \in hashed : pg[p].va = call[t].va
        /\ Panic("page already tracked")
     \/ /\ \A p \in hashed : pg[p].va # call[t].va
        /\ hashed' = hashed \cup {cur[t]}
        /\ cur' = [cur EXCEPT ![t] = NoPage]
        /\ call' = [call EXCEPT ![t].va = @ + 1]
        /\ Goto(t, CASE t = FaultThread             -> "wake"
                     [] t # FaultThread /\ call[t].va < call[t].hi -> "alloc"
                     [] OTHER                       -> "idle")
        /\ UNCHANGED <<list, num, pg, vm, lock, upd, reg, batch, panic>>

\* The threads that UFFDIO_WAKE finds waiting for the faulting page.
WaitsFor(t) == pc[t] = "faulting" /\ call[t].lo = call[FaultThread].lo

\* UFFDIO_WAKE: every thread waiting for the page retries its access.
Wake ==
  /\ pc[FaultThread] = "wake"
  /\ pc' = [t \in Thread |->
              IF t = FaultThread THEN "poll"
              ELSE IF WaitsFor(t) THEN "idle" ELSE pc[t]]
  /\ UNCHANGED <<list, num, pg, hashed, vm, lock, call, cur, upd, reg, batch, panic>>

-----------------------------------------------------------------------------
(* hemem_munmap.                                                            *)

Munmap(t, lo, hi) ==
  /\ pc[t] = "idle" /\ "munmap" \in Ops
  /\ \A v \in lo .. hi : vm[v] # Unmapped /\ \A u \in App : ~InRegion(v, u)
  /\ call' = [call EXCEPT ![t] = RegionCall("munmap", lo, hi)]
  /\ Goto(t, "munmap")
  /\ UNCHANGED <<list, num, pg, hashed, vm, lock, cur, upd, reg, batch, panic>>

\* Mutant: the page is not taken out of the table.
LeaveTracked(p) == hashed' = hashed

Untrack(p) == hashed' = hashed \ {p}

\* find_page and remove_page for one page; the page stays on its list.
RemovePage(t) ==
  /\ pc[t] = "munmap" /\ call[t].va <= call[t].hi
  /\ call' = [call EXCEPT ![t].va = @ + 1]
  /\ \/ /\ \A p \in hashed : pg[p].va # call[t].va
        /\ UNCHANGED <<hashed, cur, pc>>
     \/ \E p \in hashed :
          /\ pg[p].va = call[t].va /\ lock["pages_lock"] = NoThread
          /\ Untrack(p)
          /\ cur' = [cur EXCEPT ![t] = p]
          /\ Goto(t, "removed")
  /\ UNCHANGED <<list, num, pg, vm, lock, upd, reg, batch, panic>>

\* in_dram is read once pages_lock is held.
UncountPage(t) ==
  /\ pc[t] = "removed" /\ lock["pages_lock"] = NoThread
  /\ lock' = [lock EXCEPT !["pages_lock"] = t]
  /\ StartCounting(t, <<[counter |-> MmapList(TierOf(cur[t])), delta |-> -1],
                        [counter |-> FreeList(TierOf(cur[t])), delta |-> 1]>>)
  /\ cur' = [cur EXCEPT ![t] = NoPage]
  /\ UNCHANGED <<list, num, pg, hashed, vm, call, reg, batch, panic>>

\* libc_munmap, and the return to the caller.
Unmap(t) ==
  /\ pc[t] = "munmap" /\ call[t].va > call[t].hi
  /\ vm' = [v \in VA |-> IF v \in call[t].lo .. call[t].hi THEN Unmapped ELSE vm[v]]
  /\ Goto(t, "idle")
  /\ UNCHANGED <<list, num, pg, hashed, lock, call, cur, upd, reg, batch, panic>>

-----------------------------------------------------------------------------
(* mig_dram_to_dram_request, migrate_down_request, migrate_up_request and   *)
(* mig_nvm_to_nvm_request: one call, told apart by the list it fills.       *)

Request(t, to, pages_num, random) ==
  /\ pc[t] = "idle" /\ "request" \in Ops
  /\ call' = [call EXCEPT ![t] = RequestCall(to, pages_num, random)]
  /\ Goto(t, "request")
  /\ UNCHANGED <<list, num, pg, hashed, vm, lock, cur, upd, reg, batch, panic>>

From(t) == MmapList(Source(call[t].to))

\* Mutants: the loop counts the pages it put, not its iterations; it ends one
\* iteration early.
UntilAllPut(t) == IF list[From(t)] = <<>> THEN call
                  ELSE [call EXCEPT ![t].left = @ - 1]

OneTooFew(t)   == [call EXCEPT ![t].left = IF @ = 2 THEN 0 ELSE @ - 1]

NextIteration(t) == [call EXCEPT ![t].left = @ - 1]

\* choose = rand() % counter
Choose(t) ==
  /\ pc[t] = "request" /\ call[t].left > 0 /\ call[t].random
  /\ \/ /\ num[From(t)] = 0
        /\ Panic("division by zero")
     \/ /\ num[From(t)] # 0
        /\ \E c \in 0 .. AsUnsignedMin(num[From(t)] - 1, MaxRand) :
             /\ call' = [call EXCEPT ![t].choose = c]
             /\ Goto(t, IF c = 0 THEN "take" ELSE "rotate")
        /\ UNCHANGED <<list, num, pg, hashed, vm, lock, cur, upd, reg, batch, panic>>

\* enqueue_fifo(mmap_list, dequeue_fifo(mmap_list)), in its two halves.
Rotate(t) ==
  /\ pc[t] = "rotate"
  /\ \/ /\ list[From(t)] = <<>>
        /\ Panic("NULL enqueued")
     \/ /\ list[From(t)] # <<>>
        /\ cur' = [cur EXCEPT ![t] = Head(list[From(t)])]
        /\ Dequeue(From(t))
        /\ call' = [call EXCEPT ![t].choose = @ - 1]
        /\ Goto(t, "rotate_back")
        /\ UNCHANGED <<num, pg, hashed, vm, lock, upd, reg, batch, panic>>

RotateBack(t) ==
  /\ pc[t] = "rotate_back"
  /\ Enqueue(From(t), cur[t])
  /\ cur' = [cur EXCEPT ![t] = NoPage]
  /\ Goto(t, IF call[t].choose = 0 THEN "take" ELSE "rotate")
  /\ UNCHANGED <<num, pg, hashed, vm, lock, call, upd, reg, batch, panic>>

\* Take the oldest mapped page; an empty list only skips the iteration.
Take(t) ==
  /\ \/ pc[t] = "take"
     \/ pc[t] = "request" /\ call[t].left > 0 /\ ~call[t].random
  /\ LET p == Head(list[From(t)])
     IN \/ /\ list[From(t)] = <<>>
           /\ call' = NextIteration(t)
           /\ Goto(t, "request")
           /\ UNCHANGED <<list, cur, num, pg, hashed, vm, lock, upd, reg, batch, panic>>
        \/ /\ list[From(t)] # <<>>
           /\ TierOf(p) # Source(call[t].to) \/ ~pg[p].present
           /\ Panic("mapped page of the wrong kind")
        \/ /\ list[From(t)] # <<>>
           /\ TierOf(p) = Source(call[t].to) /\ pg[p].present
           /\ Dequeue(From(t))
           /\ cur' = [cur EXCEPT ![t] = p]
           /\ call' = NextIteration(t)
           /\ Goto(t, "queue")
           /\ UNCHANGED <<num, pg, hashed, vm, lock, upd, reg, batch, panic>>

\* Hand the page to the migration thread, then count it.
Queue(t) ==
  /\ pc[t] = "queue"
  /\ Enqueue(call[t].to, cur[t])
  /\ cur' = [cur EXCEPT ![t] = NoPage]
  /\ StartCounting(t, <<[counter |-> call[t].to, delta |-> 1],
                        [counter |-> From(t), delta |-> -1]>>)
  /\ UNCHANGED <<num, pg, hashed, vm, lock, call, reg, batch, panic>>

RequestDone(t) ==
  /\ pc[t] = "request" /\ call[t].left = 0
  /\ Goto(t, "idle")
  /\ UNCHANGED <<list, num, pg, hashed, vm, lock, call, cur, upd, reg, batch, panic>>

-----------------------------------------------------------------------------
(* migration_request: the migration thread.                                 *)

\* while (*_list_num): stay in this loop while there is work, else go on.
Scan ==
  /\ pc[Migrator] = "scan"
  /\ \/ /\ num[batch.to] = 0
        /\ batch' = EmptyBatch(NextLoop(batch.to))
        /\ UNCHANGED pc
     \/ /\ num[batch.to] # 0
        /\ batch' = [batch EXCEPT !.want = AsUnsignedMin(num[batch.to], NUM_BATCHS)]
        /\ Goto(Migrator, "take_page")
  /\ UNCHANGED <<list, num, pg, hashed, vm, lock, call, cur, upd, reg, panic>>

\* page[i] = dequeue_fifo(...): a NULL is dereferenced in pebs_migrate_*.
TakePage ==
  /\ pc[Migrator] = "take_page"
  /\ LET queue == list[batch.to]
     IN \/ /\ queue = <<>>
           /\ Panic("NULL page")
        \/ /\ queue # <<>>
           /\ Dequeue(batch.to)
           /\ batch' = [batch EXCEPT !.page = Append(@, Head(queue))]
           /\ Goto(Migrator, "take_next")
           /\ UNCHANGED <<num, pg, hashed, vm, lock, call, cur, upd, reg, panic>>

\* next_page[i] = dequeue_fifo(...); offset[i] = next_page[i]->devdax_offset
TakeNext ==
  /\ pc[Migrator] = "take_next"
  /\ LET free == FreeList(Target(batch.to))
         n    == Head(list[free])
     IN \/ /\ list[free] = <<>>
           /\ Panic("NULL next_page")
        \/ /\ list[free] # <<>>
           /\ Dequeue(free)
           /\ batch' = [batch EXCEPT !.next = Append(@, n),
                                     !.offset = Append(@, pg[n].devdax_offset)]
           /\ Goto(Migrator, IF Len(batch.page) < batch.want THEN "take_page"
                                                            ELSE "protect")
           /\ UNCHANGED <<num, pg, hashed, vm, lock, call, cur, upd, reg, panic>>

\* Advance a loop over the batch: go round again, or on to the next part.
LoopOver(again, next) ==
  /\ batch' = [batch EXCEPT !.i = IF @ < batch.want THEN @ + 1 ELSE 1]
  /\ Goto(Migrator, IF batch.i < batch.want THEN again ELSE next)

\* hemem_wp_page, for page[i].
Protect ==
  /\ pc[Migrator] = "protect"
  /\ LET va == pg[batch.page[batch.i]].va
     IN \/ /\ va = 0
           /\ Panic("va is zero")
        \/ /\ va # 0 /\ vm[va] = Unmapped
           /\ Panic("UFFDIO_WRITEPROTECT failed")
        \/ /\ va # 0 /\ vm[va] # Unmapped
           /\ LoopOver("protect", "copy")
           /\ UNCHANGED <<list, num, pg, hashed, vm, lock, call, cur, upd, reg, panic>>

\* The first loop of hemem_migrate_*: its assertions, and the copy.
Copy ==
  /\ pc[Migrator] = "copy"
  /\ LET src == Source(batch.to)
         dst == Target(batch.to)
     IN \/ /\ \E j \in 1 .. batch.want : TierOf(batch.page[j]) # src
           /\ Panic("page in the wrong tier")
        \/ /\ \A j \in 1 .. batch.want : TierOf(batch.page[j]) = src
           /\ \E j \in 1 .. batch.want :
                \/ pg[batch.page[j]].devdax_offset >= FramesIn(src)
                \/ batch.offset[j] >= FramesIn(dst)
           /\ Panic("offset beyond the device")
        \/ /\ \A j \in 1 .. batch.want :
                /\ TierOf(batch.page[j]) = src
                /\ pg[batch.page[j]].devdax_offset < FramesIn(src)
                /\ batch.offset[j] < FramesIn(dst)
           /\ Goto(Migrator, "remap")
           /\ UNCHANGED <<list, num, pg, hashed, vm, lock, call, cur, upd, reg, batch, panic>>

\* The second loop: map the new frame over the old one and record it.  The two
\* assignments follow two system calls later, but of a page in the batch only
\* UncountPage reads those fields, and it looks at no mapping.
Remap ==
  /\ pc[Migrator] = "remap"
  /\ LET p   == batch.page[batch.i]
         off == batch.offset[batch.i]
         dst == Target(batch.to)
     IN /\ vm' = [vm EXCEPT ![pg[p].va] = <<dst, off>>]
        /\ pg' = [pg EXCEPT ![p].in_dram = (dst = "dram"), ![p].devdax_offset = off]
  /\ LoopOver("remap", "restore")
  /\ UNCHANGED <<list, num, hashed, lock, call, cur, upd, reg, panic>>

\* Mutant: next_page[i] keeps the tier it came from.
KeepTier(to) == Target(to)

\* The tier next_page[i] is given: the one page[i] left.
FreedTier(to) == Source(to)

\* Give next_page[i] the tier of the freed frame; queue page[i] as mapped.
Restore ==
  /\ pc[Migrator] = "restore"
  /\ LET n == batch.next[batch.i]
     IN pg' = [pg EXCEPT ![n].devdax_offset = batch.offset[batch.i],
                         ![n].present = FALSE,
                         ![n].in_dram = (FreedTier(batch.to) = "dram")]
  /\ Enqueue(MmapList(Target(batch.to)), batch.page[batch.i])
  /\ Goto(Migrator, "restore_next")
  /\ UNCHANGED <<num, hashed, vm, lock, call, cur, upd, reg, batch, panic>>

\* Mutant: the counter that clients poll is the first to be updated.
PolledFirst(to, n) ==
  <<[counter |-> to, delta |-> -n],
    [counter |-> MmapList(Target(to)), delta |-> n],
    [counter |-> FreeList(Source(to)), delta |-> n],
    [counter |-> FreeList(Target(to)), delta |-> -n]>>

\* The counter updates that end an iteration of one of the four loops.
MigrationUpdates(to, n) ==
  LET src == Source(to)
      dst == Target(to)
  IN <<[counter |-> MmapList(dst), delta |-> n]>> \o
     (IF src = dst THEN <<>>
      ELSE <<[counter |-> FreeList(src), delta |-> n],
             [counter |-> FreeList(dst), delta |-> -n]>>) \o
     <<[counter |-> to, delta |-> -n]>>

\* Queue next_page[i] as free; after the last one, count.
RestoreNext ==
  /\ pc[Migrator] = "restore_next"
  /\ Enqueue(FreeList(Source(batch.to)), batch.next[batch.i])
  /\ batch' = [batch EXCEPT !.i = @ + 1]
  /\ IF batch.i < batch.want
     THEN Goto(Migrator, "restore") /\ UNCHANGED upd
     ELSE StartCounting(Migrator, MigrationUpdates(batch.to, batch.want))
  /\ UNCHANGED <<num, pg, hashed, vm, lock, call, cur, reg, panic>>

-----------------------------------------------------------------------------
(* The specification.                                                       *)

\* A call of the application.
Calls(t) ==
  \/ \E lo, hi \in VA, populate \in BOOLEAN :
       /\ lo <= hi /\ (populate \/ "touch" \in Ops)
       /\ Mmap(t, lo, hi, populate)
  \/ \E v \in VA : Touch(t, v)
  \/ \E lo, hi \in VA : lo <= hi /\ Munmap(t, lo, hi)
  \/ \E to \in Kinds, n \in 1 .. MaxPagesNum, random \in BOOLEAN :
       Request(t, to, n, random)

\* Code that runs in the application's threads and in the fault thread.
Allocation(t) == \/ Allocate(t, "dram") \/ Allocate(t, "nvm") \/ Place(t)
                 \/ Map(t) \/ Publish(t) \/ AddPage(t)
Counting(t)   == LoadCounter(t) \/ StoreCounter(t)

AppStep(t) ==
  \/ Allocation(t) \/ Counting(t)
  \/ RemovePage(t) \/ UncountPage(t) \/ Unmap(t)
  \/ Choose(t) \/ Rotate(t) \/ RotateBack(t) \/ Take(t) \/ Queue(t) \/ RequestDone(t)

FaultStep ==
  \/ \E t \in App : ReadFault(t)
  \/ Allocation(FaultThread) \/ Wake

MigratorStep ==
  \/ Scan \/ TakePage \/ TakeNext \/ Protect \/ Copy \/ Remap
  \/ Restore \/ RestoreNext \/ Counting(Migrator)

Next == \/ \E t \in App : Calls(t) \/ AppStep(t)
        \/ FaultStep
        \/ MigratorStep

Spec == Init /\ [][Next]_vars

\* The scheduler runs every thread that can run; nobody has to make a call.
Fairness == /\ \A t \in App : WF_vars(AppStep(t))
            /\ WF_vars(FaultStep)
            /\ WF_vars(MigratorStep)

FairSpec == Spec /\ Fairness

-----------------------------------------------------------------------------
(* Type correctness.                                                        *)

Label == {"idle", "faulting", "alloc", "alloc_nvm", "place", "map", "count",
          "publish", "add", "munmap", "removed", "request", "rotate",
          "rotate_back", "take", "queue", "poll", "wake", "scan", "take_page",
          "take_next", "protect", "copy", "remap", "restore", "restore_next",
          "dead"}

\* Why the process can die.
Cause == {"none", "out of memory", "free page of the wrong kind",
          "page already tracked", "division by zero", "NULL enqueued",
          "mapped page of the wrong kind", "NULL page", "NULL next_page",
          "va is zero", "UFFDIO_WRITEPROTECT failed", "page in the wrong tier",
          "offset beyond the device",
          "write-protect fault on an untracked page"}

Frame == Tier \X Nat

PageRecord == [va : Nat, devdax_offset : Nat, in_dram : BOOLEAN, present : BOOLEAN]

CallRecord == [op : {"none", "mmap", "touch", "munmap", "request"},
               lo : Nat, va : Nat, hi : Nat, to : ToList, random : BOOLEAN,
               left : Nat, choose : Nat]

UpdateRecord == [counter : List, delta : Int]

BatchRecord == [to : ToList, want : 0 .. NUM_BATCHS, i : Nat,
                page : Seq(Page), next : Seq(Page), offset : Seq(Nat)]

\* Every variable has its type; in particular a batch never outgrows the
\* arrays page[NUM_BATCHS], next_page[NUM_BATCHS] and offset[NUM_BATCHS].
TypeOK ==
  /\ list \in [List -> Seq(Page)]
  /\ num \in [List -> Int]
  /\ pg \in [Page -> PageRecord]
  /\ hashed \subseteq Page
  /\ vm \in [VA -> Frame \cup {Unmapped, Reserved}]
  /\ lock \in [{"pages_lock", "stats_lock"} -> Thread \cup {NoThread}]
  /\ pc \in [Thread -> Label]
  /\ call \in [Thread -> CallRecord]
  /\ cur \in [Thread -> Page \cup {NoPage}]
  /\ upd \in [Thread -> Seq(UpdateRecord)]
  /\ reg \in [Thread -> Seq(Int)]
  /\ batch \in BatchRecord
  /\ panic \in Cause

-----------------------------------------------------------------------------
(* Safety.                                                                  *)

\* The entries of the batch the migration thread still has in its hands.
BatchPages == CASE pc[Migrator] = "restore"      -> batch.i .. Len(batch.page)
                [] pc[Migrator] = "restore_next" -> batch.i + 1 .. Len(batch.page)
                [] pc[Migrator] = "count"        -> {}
                [] OTHER                         -> 1 .. Len(batch.page)
BatchNexts == CASE pc[Migrator] \in {"restore", "restore_next"} -> batch.i .. Len(batch.next)
                [] pc[Migrator] = "count"                       -> {}
                [] OTHER                                        -> 1 .. Len(batch.next)

\* Everything that may link, relink or free page p: a place on a list, a
\* thread that dequeued it and has not enqueued it, or a slot of the batch.
Owners(p) ==
  (UNION {{<<l, i>> : i \in {j \in DOMAIN list[l] : list[l][j] = p}} : l \in List})
  \cup {<<t, 0>> : t \in {u \in App \cup {FaultThread} :
                            pc[u] \in {"place", "queue", "rotate_back"} /\ cur[u] = p}}
  \cup {<<"page", i>> : i \in {j \in BatchPages : batch.page[j] = p}}
  \cup {<<"next_page", i>> : i \in {j \in BatchNexts : batch.next[j] = p}}

\* No interleaving of allocations, requests and migrations loses a page
\* struct, links it on two lists or hands it to two threads: every page has
\* exactly one owner.  (fifo.c:7-52 has only per-list locks.)
Ownership == Running => \A p \in Page : Cardinality(Owners(p)) = 1

\* A page's flags agree with the list it waits on, so that the assertions of
\* the allocator and of the four requests cannot fail.  (pebs.c:129, 445.)
KindsMatchLists ==
  \A l \in List : \A i \in DOMAIN list[l] :
    LET p == list[l][i]
    IN /\ TierOf(p) = IF l \in ToList THEN Source(l)
                      ELSE IF l \in {"dram_free_list", "dram_mmap_list"} THEN "dram"
                      ELSE "nvm"
       /\ pg[p].present <=> l \notin {"dram_free_list", "nvm_free_list"}

\* The threads that queued a page for migration and have not counted it.
Uncounted(to) == {t \in App : /\ pc[t] = "count" /\ call[t].op = "request"
                              /\ call[t].to = to /\ Len(upd[t]) = 2}

InBatch(to) == IF batch.to = to THEN Len(batch.page) ELSE 0

\* The counter the migration thread waits on accounts for every page queued
\* or in the batch, but for those a requester is about to count; it never
\* runs ahead of the list.  (pebs.c:131-136 counts after it enqueues.)
QueueCountExact ==
  Running => \A to \in ToList :
    num[to] = Len(list[to]) + InBatch(to) - Cardinality(Uncounted(to))

\* The migration thread never dequeues NULL from the list whose counter it
\* read.  (pebs.c:312-317 checks the counter and then trusts the list.)
NoNullPage == panic # "NULL page"

\* The assertions on the flags of a page never fail, and no virtual page is
\* tracked twice.  (pebs.c:129-130, 445-458, hemem.c:175, 615.)
FlagAssertionsHold ==
  panic \notin {"free page of the wrong kind", "mapped page of the wrong kind",
                "page in the wrong tier", "page already tracked"}

\* Whenever the migration thread is between batches, as many page structs
\* are labelled DRAM as there are DRAM frames.  (pebs.c:323-329.)
TiersConserved ==
  pc[Migrator] \in {"scan", "count"} =>
    Cardinality({p \in Page : pg[p].in_dram}) = FASTMEM_PAGES

\* What the library records of a tracked page is what the kernel maps there,
\* and no two tracked pages claim the same address.  (hemem.c:380-390.)
TrackedPagesMatch ==
  /\ \A p \in hashed : vm[pg[p].va] = <<TierOf(p), pg[p].devdax_offset>>
  /\ \A p, q \in hashed : pg[p].va = pg[q].va => p = q

\* Two virtual pages never show the same frame.  (hemem.c:334: the policy
\* finds `a free page'.)
FramesDistinct ==
  \A u, v \in VA : u # v /\ vm[u] \in Frame => vm[u] # vm[v]

-----------------------------------------------------------------------------
(* What comments, assertions and the test program say, and the code breaks. *)

\* hemem.c:894: a page that is migrated has its virtual address.
MigratedPageHasVa == panic # "va is zero"

Mapped(tier) == {v \in VA : vm[v] # Unmapped /\ vm[v][1] = tier}

\* The allocator turns to NVM only when no DRAM frame is free: every DRAM
\* frame is mapped or belongs to a page on its way to be.  (pebs.c:454.)
FallbackOnlyWhenFull ==
  \A t \in App \cup {FaultThread} :
    pc[t] = "alloc_nvm" =>
      Cardinality(Mapped("dram")) +
      Cardinality({u \in App \cup {FaultThread} : pc[u] \in {"place", "map"}
                                                /\ TierOf(cur[u]) = "dram"}) >= FASTMEM_PAGES

Quiescent == /\ \A t \in App : pc[t] = "idle"
             /\ pc[FaultThread] = "poll"
             /\ pc[Migrator] = "scan" /\ \A to \in ToList : num[to] = 0

\* get_total_mmap()
TotalMmap == num["dram_to_dram_list"] + num["dram_to_nvm_list"] + num["dram_mmap_list"]
             + num["nvm_to_nvm_list"] + num["nvm_to_dram_list"] + num["nvm_mmap_list"]

\* mig-test.c:46-47: once everything is unmapped and nothing is going on, the
\* total it waits for is zero.
TotalIsZeroAfterUnmap ==
  Quiescent /\ (\A v \in VA : vm[v] = Unmapped) => TotalMmap = 0

-----------------------------------------------------------------------------
(* Liveness, under FairSpec.                                                *)

\* A thread stopped on a missing page gets it, unless the process dies.
FaultServed == \A t \in App : pc[t] = "faulting" ~> (pc[t] # "faulting" \/ ~Running)

\* A request call returns, unless the process dies.
RequestReturns == \A t \in App : pc[t] = "request" ~> (pc[t] = "idle" \/ ~Running)

\* A page handed to the migration thread is eventually mapped again.
QueuedPagesMigrate ==
  \A p \in Page, to \in ToList :
    (\E i \in DOMAIN list[to] : list[to][i] = p)
      ~> ((\E i \in DOMAIN list[MmapList(Target(to))] :
             list[MmapList(Target(to))][i] = p) \/ ~Running)

=============================================================================
