----------------------- MODULE PageManagerListProofs -----------------------
(***************************************************************************)
(* What the lists and counters of PageManager guarantee.  First part: the  *)
(* counter of a request list accounts for every page queued on the list or *)
(* held in the batch, so the migration thread never dequeues NULL from a   *)
(* list whose counter it read.  The reason is stats_lock: whoever updates  *)
(* such a counter holds it from load to store.  Second part: every page    *)
(* struct has exactly one owner, which is a place on a list, a thread that *)
(* dequeued it, or a slot of the batch.  Each step that touches a list     *)
(* takes one page from one owner to one other.                             *)
(* Third part: the flags in_dram and present of a page agree with the list *)
(* it is on, and with the use that a thread or the batch has for it.       *)
(* Flags are written without a lock; what protects them is that their page *)
(* has one owner.                                                          *)
(***************************************************************************)
EXTENDS PageManagerProofs

-----------------------------------------------------------------------------
(* Counters: the inductive invariant.                                       *)

\* A thread between the load and the store of a counter holds the lock, and
\* what it loaded from the counter of a request list is still its value.
RegistersOK ==
  Running => \A t \in Thread : reg[t] # NoReg =>
    /\ pc[t] = "count" /\ lock[CounterLock(t)] = t
    /\ Len(reg[t]) = 1
    /\ Head(upd[t]).counter \in ToList => reg[t][1] = num[Head(upd[t]).counter]

\* The batch never claims more pages than the counter has.
CountersOK ==
  \A to \in ToList : num[to] >= IF batch.to = to THEN batch.want ELSE 0

\* The process dies with all of its threads.
DeadOK == ~Running => \A t \in Thread : pc[t] = "dead"

CountInv == RegistersOK /\ CountersOK /\ DeadOK /\ QueueCountExact /\ NoNullPage

IInv == TypeOK /\ LocalInv /\ CountInv

-----------------------------------------------------------------------------
(* Steps that leave the counters and the request lists alone.               *)

\* A thread enters no critical section of a request, leaves none, and the
\* migration thread neither takes a page nor changes its list.
Quiet ==
  /\ UNCHANGED <<num, reg, panic>>
  /\ \A to \in ToList : list'[to] = list[to]
  /\ batch'.to = batch.to /\ batch'.want = batch.want
  /\ Len(batch'.page) = Len(batch.page)
  /\ \A t \in Thread : pc[t] = "count" =>
       pc'[t] = "count" /\ call'[t] = call[t] /\ upd'[t] = upd[t]
  /\ \A t \in App : pc[t] # "count" /\ pc'[t] = "count" => call'[t].op # "request"
  /\ \A t \in Thread : reg[t] # NoReg => lock'[CounterLock(t)] = lock[CounterLock(t)]
  /\ panic = "none" \/ \A t \in Thread : pc'[t] = "dead"

\* A quiet step preserves the invariant of the counters.
LEMMA QuietCount ==
  ASSUME TypeOK, LocalInv, CountInv, Quiet
  PROVE  CountInv'
<1> USE DEF Thread
<1>1. RegistersOK'
  <2>1. SUFFICES ASSUME Running, NEW t \in Thread, reg[t] # NoReg
                 PROVE  /\ pc'[t] = "count" /\ lock'[CounterLock(t)'] = t
                        /\ Len(reg'[t]) = 1
                        /\ Head(upd'[t]).counter \in ToList =>
                             reg'[t][1] = num'[Head(upd'[t]).counter]
    BY DEF RegistersOK, Quiet, Running
  <2>2. pc[t] = "count" /\ lock[CounterLock(t)] = t
    BY <2>1 DEF CountInv, RegistersOK
  <2>3. CounterLock(t)' = CounterLock(t) /\ upd'[t] = upd[t] /\ pc'[t] = "count"
    BY <2>2 DEF Quiet, CounterLock
  <2> QED
    BY <2>1, <2>2, <2>3 DEF Quiet, CountInv, RegistersOK
<1>2. CountersOK'
  BY DEF CountInv, CountersOK, Quiet
<1>3. QueueCountExact'
  <2>1. \A to : Uncounted(to)' = Uncounted(to)
    BY DEF Uncounted, Quiet
  <2>2. \A to : InBatch(to)' = InBatch(to)
    BY DEF InBatch, Quiet
  <2> QED
    BY <2>1, <2>2 DEF CountInv, QueueCountExact, Quiet, Running
<1>4. DeadOK' /\ NoNullPage'
  BY DEF CountInv, DeadOK, NoNullPage, Quiet, Running
<1> QED
  BY <1>1, <1>2, <1>3, <1>4 DEF CountInv

\* The death of the process, unless it is by the NULL page.
Fatal == Cause \ {"none", "NULL page"}

\* So does the death of the process, unless it is by the NULL page.
LEMMA PanicCount ==
  ASSUME TypeOK, CountInv, NEW why \in Fatal, Panic(why)
  PROVE  CountInv'
  BY DEF CountInv, RegistersOK, CountersOK, DeadOK, QueueCountExact, NoNullPage, Panic,
         Running, Fatal

\* Unlinking a page from another list leaves the request lists alone.
LEMMA OtherLists ==
  ASSUME TypeOK, NEW l \in List \ ToList, Dequeue(l)
  PROVE  \A to \in ToList : list'[to] = list[to]
  BY ListNames DEF TypeOK, Dequeue

\* Mmap is quiet: hemem_mmap only reserves a region.
LEMMA MmapCount ==
  ASSUME TypeOK, LocalInv, CountInv, NEW t \in App, NEW lo \in VA, NEW hi \in VA,
         NEW populate \in BOOLEAN,
         Mmap(t, lo, hi, populate)
  PROVE  CountInv'
<1> USE ThreadsAssumption DEF Thread
<1>1. Running
  BY DEF Mmap, CountInv, DeadOK, FaultThread, Migrator
<1>2. Quiet
  BY <1>1 DEF Quiet, Mmap, Goto, Running, TypeOK, FaultThread, Migrator
<1> QED
  BY <1>2, QuietCount

\* Touch is quiet: a touch only stops the thread.
LEMMA TouchCount ==
  ASSUME TypeOK, LocalInv, CountInv, NEW t \in App, NEW v \in VA,
         Touch(t, v)
  PROVE  CountInv'
<1> USE ThreadsAssumption DEF Thread
<1>1. Running
  BY DEF Touch, CountInv, DeadOK, FaultThread, Migrator
<1>2. Quiet
  BY <1>1 DEF Quiet, Touch, Goto, Running, TypeOK, FaultThread, Migrator
<1> QED
  BY <1>2, QuietCount

\* ReadFault is quiet: the fault thread only reads a message.
LEMMA ReadFaultCount ==
  ASSUME TypeOK, LocalInv, CountInv, NEW t \in App,
         ReadFault(t)
  PROVE  CountInv'
<1> USE ThreadsAssumption DEF Thread
<1>1. Running
  BY DEF ReadFault, CountInv, DeadOK, FaultThread, Migrator
<1>2. Quiet
  BY <1>1 DEF Quiet, ReadFault, Goto, Running, TypeOK, FaultThread, Migrator
<1> QED
  BY <1>2, QuietCount

\* Allocate is quiet: a page is dequeued from a free list.
LEMMA AllocateCount ==
  ASSUME TypeOK, LocalInv, CountInv, NEW t \in App \cup {FaultThread}, NEW tier \in Tier,
         Allocate(t, tier)
  PROVE  CountInv'
<1> USE ThreadsAssumption DEF Thread
<1>1. CASE \E why \in Fatal : Panic(why)
  BY <1>1, PanicCount
<1>2. CASE ~\E why \in Fatal : Panic(why)
  <2>1. Running
    BY DEF Allocate, CountInv, DeadOK, FaultThread, Migrator
  <2>2. CASE list[FreeList(tier)] = <<>>
    <3>1. UNCHANGED <<list, num, lock, call, upd, reg, batch, panic>>
      BY <1>2, <2>2 DEF Allocate, Fatal, Cause
    <3>2. pc[t] # "count" /\ pc' = [pc EXCEPT ![t] = "alloc_nvm"]
      BY <1>2, <2>2 DEF Allocate, Goto, Fatal, Cause
    <3> QED
      BY <2>1, <3>1, <3>2, QuietCount DEF Quiet, Running, TypeOK
  <2>3. CASE list[FreeList(tier)] # <<>>
    <3>1. Dequeue(FreeList(tier)) /\ UNCHANGED <<num, lock, call, upd, reg, batch, panic>>
      BY <1>2, <2>3 DEF Allocate, Fatal, Cause
    <3>2. pc[t] # "count" /\ pc' = [pc EXCEPT ![t] = "place"]
      BY <1>2, <2>3 DEF Allocate, Goto, Fatal, Cause
    <3>3. \A to \in ToList : list'[to] = list[to]
      BY <3>1, ListNames, OtherLists
    <3> QED
      BY <2>1, <3>1, <3>2, <3>3, QuietCount DEF Quiet, Running, TypeOK
  <2> QED
    BY <2>2, <2>3
<1> QED
  BY <1>1, <1>2

\* Place is quiet: a page is enqueued on an mmap list.
LEMMA PlaceCount ==
  ASSUME TypeOK, LocalInv, CountInv, NEW t \in App \cup {FaultThread},
         Place(t)
  PROVE  CountInv'
<1> USE ThreadsAssumption DEF Thread
<1>1. Running
  BY DEF Place, CountInv, DeadOK, FaultThread, Migrator
<1>2. Quiet
  BY <1>1, ListNames
  DEF Quiet, Place, Goto, Enqueue, Running, TypeOK, FaultThread, Migrator
<1> QED
  BY <1>2, QuietCount

\* Map is quiet: the critical section entered is not one of a request.
LEMMA MapCount ==
  ASSUME TypeOK, LocalInv, CountInv, NEW t \in App \cup {FaultThread},
         Map(t)
  PROVE  CountInv'
<1> USE ThreadsAssumption DEF Thread
<1>1. Running
  BY DEF Map, CountInv, DeadOK, FaultThread, Migrator
<1>2. Quiet
  BY <1>1
  DEF Quiet, Map, Goto, StartCounting, LocalInv, AppOK, MmapLabel, Running, TypeOK,
      FaultThread, Migrator
<1> QED
  BY <1>2, QuietCount

\* Publish is quiet: only the page record is written.
LEMMA PublishCount ==
  ASSUME TypeOK, LocalInv, CountInv, NEW t \in App \cup {FaultThread},
         Publish(t)
  PROVE  CountInv'
<1> USE ThreadsAssumption DEF Thread
<1>1. Running
  BY DEF Publish, CountInv, DeadOK, FaultThread, Migrator
<1>2. Quiet
  BY <1>1 DEF Quiet, Publish, Goto, Running, TypeOK, FaultThread, Migrator
<1> QED
  BY <1>2, QuietCount

\* AddPage is quiet: only the table of pages is written.
LEMMA AddPageCount ==
  ASSUME TypeOK, LocalInv, CountInv, NEW t \in App \cup {FaultThread},
         AddPage(t)
  PROVE  CountInv'
<1> USE ThreadsAssumption DEF Thread
<1>1. CASE \E why \in Fatal : Panic(why)
  BY <1>1, PanicCount
<1>2. CASE ~\E why \in Fatal : Panic(why)
  <2>1. Running
    BY DEF AddPage, CountInv, DeadOK, FaultThread, Migrator
  <2>2. Quiet
    BY <1>2, <2>1
    DEF Quiet, AddPage, Goto, Fatal, Cause, Running, TypeOK, FaultThread, Migrator
  <2> QED
    BY <2>2, QuietCount
<1> QED
  BY <1>1, <1>2

\* Wake is quiet: no thread wakes up into a critical section.
LEMMA WakeCount ==
  ASSUME TypeOK, LocalInv, CountInv,
         Wake
  PROVE  CountInv'
<1> USE ThreadsAssumption DEF Thread
<1>1. Running
  BY DEF Wake, CountInv, DeadOK, FaultThread, Migrator
<1>2. Quiet
  BY <1>1 DEF Quiet, Wake, WaitsFor, Running, TypeOK, FaultThread, Migrator
<1> QED
  BY <1>2, QuietCount

\* Munmap is quiet: hemem_munmap only starts.
LEMMA MunmapCount ==
  ASSUME TypeOK, LocalInv, CountInv, NEW t \in App, NEW lo \in VA, NEW hi \in VA,
         Munmap(t, lo, hi)
  PROVE  CountInv'
<1> USE ThreadsAssumption DEF Thread
<1>1. Running
  BY DEF Munmap, CountInv, DeadOK, FaultThread, Migrator
<1>2. Quiet
  BY <1>1 DEF Quiet, Munmap, Goto, Running, TypeOK, FaultThread, Migrator
<1> QED
  BY <1>2, QuietCount

\* RemovePage is quiet: only the table of pages is written.
LEMMA RemovePageCount ==
  ASSUME TypeOK, LocalInv, CountInv, NEW t \in App,
         RemovePage(t)
  PROVE  CountInv'
<1> USE ThreadsAssumption DEF Thread
<1>1. Running
  BY DEF RemovePage, CountInv, DeadOK, FaultThread, Migrator
<1>2. Quiet
  BY <1>1 DEF Quiet, RemovePage, Goto, Running, TypeOK, FaultThread, Migrator
<1> QED
  BY <1>2, QuietCount

\* UncountPage is quiet: pages_lock is taken, which nobody held.
LEMMA UncountPageCount ==
  ASSUME TypeOK, LocalInv, CountInv, NEW t \in App,
         UncountPage(t)
  PROVE  CountInv'
<1> USE ThreadsAssumption DEF Thread
<1>1. Running
  BY DEF UncountPage, CountInv, DeadOK, FaultThread, Migrator
<1>2. /\ pc[t] = "removed" /\ lock["pages_lock"] = NoThread
      /\ lock' = [lock EXCEPT !["pages_lock"] = t] /\ pc' = [pc EXCEPT ![t] = "count"]
      /\ \A u \in Thread \ {t} : upd'[u] = upd[u]
      /\ UNCHANGED <<list, num, call, reg, batch, panic>>
  BY DEF UncountPage, StartCounting, Goto, TypeOK
<1>3. call[t].op = "munmap"
  BY <1>2 DEF LocalInv, AppOK
<1>4. ASSUME NEW u \in Thread, reg[u] # NoReg
      PROVE  lock'[CounterLock(u)] = lock[CounterLock(u)]
  <2>1. lock[CounterLock(u)] = u /\ u # NoThread
    BY <1>1, <1>4 DEF CountInv, RegistersOK, FaultThread, Migrator, NoThread
  <2>2. CounterLock(u) # "pages_lock"
    BY <1>2, <2>1
  <2> QED
    BY <1>2, <2>2 DEF CounterLock, TypeOK
<1>5. Quiet
  BY <1>1, <1>2, <1>3, <1>4 DEF Quiet, Running, TypeOK
<1> QED
  BY <1>5, QuietCount

\* Unmap is quiet: only the mappings change.
LEMMA UnmapCount ==
  ASSUME TypeOK, LocalInv, CountInv, NEW t \in App,
         Unmap(t)
  PROVE  CountInv'
<1> USE ThreadsAssumption DEF Thread
<1>1. Running
  BY DEF Unmap, CountInv, DeadOK, FaultThread, Migrator
<1>2. Quiet
  BY <1>1 DEF Quiet, Unmap, Goto, Running, TypeOK, FaultThread, Migrator
<1> QED
  BY <1>2, QuietCount

\* Request is quiet: a request only starts.
LEMMA RequestCount ==
  ASSUME TypeOK, LocalInv, CountInv, NEW t \in App, NEW to \in ToList, NEW n \in Nat,
         NEW random \in BOOLEAN,
         Request(t, to, n, random)
  PROVE  CountInv'
<1> USE ThreadsAssumption DEF Thread
<1>1. Running
  BY DEF Request, CountInv, DeadOK, FaultThread, Migrator
<1>2. Quiet
  BY <1>1 DEF Quiet, Request, Goto, Running, TypeOK, FaultThread, Migrator
<1> QED
  BY <1>2, QuietCount

\* Choose is quiet: only the number of rotations is set.
LEMMA ChooseCount ==
  ASSUME TypeOK, LocalInv, CountInv, NEW t \in App,
         Choose(t)
  PROVE  CountInv'
<1> USE ThreadsAssumption DEF Thread
<1>1. CASE \E why \in Fatal : Panic(why)
  BY <1>1, PanicCount
<1>2. CASE ~\E why \in Fatal : Panic(why)
  <2>1. Running
    BY DEF Choose, CountInv, DeadOK, FaultThread, Migrator
  <2>2. Quiet
    BY <1>2, <2>1
    DEF Quiet, Choose, Goto, Fatal, Cause, Running, TypeOK, FaultThread, Migrator
  <2> QED
    BY <2>2, QuietCount
<1> QED
  BY <1>1, <1>2

\* Rotate is quiet: a page is dequeued from an mmap list.
LEMMA RotateCount ==
  ASSUME TypeOK, LocalInv, CountInv, NEW t \in App,
         Rotate(t)
  PROVE  CountInv'
<1> USE ThreadsAssumption DEF Thread
<1>1. CASE \E why \in Fatal : Panic(why)
  BY <1>1, PanicCount
<1>2. CASE ~\E why \in Fatal : Panic(why)
  <2>1. Running
    BY DEF Rotate, CountInv, DeadOK, FaultThread, Migrator
  <2>2. /\ Dequeue(From(t)) /\ pc[t] # "count" /\ pc' = [pc EXCEPT ![t] = "rotate_back"]
        /\ call' = [call EXCEPT ![t].choose = @ - 1]
        /\ UNCHANGED <<num, lock, upd, reg, batch, panic>>
    BY <1>2 DEF Rotate, Goto, Fatal, Cause
  <2>3. \A to \in ToList : list'[to] = list[to]
    BY <2>2, ListNames, OtherLists
  <2>4. Quiet
    BY <2>1, <2>2, <2>3 DEF Quiet, Running, TypeOK
  <2> QED
    BY <2>4, QuietCount
<1> QED
  BY <1>1, <1>2

\* RotateBack is quiet: a page is enqueued on an mmap list.
LEMMA RotateBackCount ==
  ASSUME TypeOK, LocalInv, CountInv, NEW t \in App,
         RotateBack(t)
  PROVE  CountInv'
<1> USE ThreadsAssumption DEF Thread
<1>1. Running
  BY DEF RotateBack, CountInv, DeadOK, FaultThread, Migrator
<1>2. Quiet
  BY <1>1, ListNames
  DEF Quiet, RotateBack, Goto, Enqueue, Running, TypeOK, FaultThread, Migrator
<1> QED
  BY <1>2, QuietCount

\* Take is quiet: a page is dequeued from an mmap list.
LEMMA TakeCount ==
  ASSUME TypeOK, LocalInv, CountInv, NEW t \in App,
         Take(t)
  PROVE  CountInv'
<1> USE ThreadsAssumption DEF Thread
<1>1. CASE \E why \in Fatal : Panic(why)
  BY <1>1, PanicCount
<1>2. CASE ~\E why \in Fatal : Panic(why)
  <2>1. Running
    BY DEF Take, CountInv, DeadOK, FaultThread, Migrator
  <2>2. /\ pc[t] # "count" /\ pc'[t] # "count" /\ \A u \in Thread \ {t} : pc'[u] = pc[u]
        /\ call' = [call EXCEPT ![t].left = @ - 1]
        /\ UNCHANGED <<num, lock, upd, reg, batch, panic>>
    BY <1>2 DEF Take, Goto, NextIteration, Fatal, Cause, TypeOK
  <2>3. \A to \in ToList : list'[to] = list[to]
    <3>1. UNCHANGED list \/ Dequeue(From(t))
      BY <1>2 DEF Take, Fatal, Cause
    <3> QED
      BY <3>1, ListNames, OtherLists
  <2>4. Quiet
    BY <2>1, <2>2, <2>3 DEF Quiet, Running, TypeOK
  <2> QED
    BY <2>4, QuietCount
<1> QED
  BY <1>1, <1>2

\* RequestDone is quiet: a request only returns.
LEMMA RequestDoneCount ==
  ASSUME TypeOK, LocalInv, CountInv, NEW t \in App,
         RequestDone(t)
  PROVE  CountInv'
<1> USE ThreadsAssumption DEF Thread
<1>1. Running
  BY DEF RequestDone, CountInv, DeadOK, FaultThread, Migrator
<1>2. Quiet
  BY <1>1 DEF Quiet, RequestDone, Goto, Running, TypeOK, FaultThread, Migrator
<1> QED
  BY <1>2, QuietCount

\* TakeNext is quiet: a page is dequeued from a free list, and none is added to page[].
LEMMA TakeNextCount ==
  ASSUME TypeOK, LocalInv, CountInv,
         TakeNext
  PROVE  CountInv'
<1> USE ThreadsAssumption DEF Thread
<1>1. CASE \E why \in Fatal : Panic(why)
  BY <1>1, PanicCount
<1>2. CASE ~\E why \in Fatal : Panic(why)
  <2>1. Running
    BY DEF TakeNext, CountInv, DeadOK, FaultThread, Migrator
  <2>2. /\ Dequeue(FreeList(Target(batch.to)))
        /\ pc[Migrator] # "count" /\ pc'[Migrator] # "count"
        /\ \A u \in Thread \ {Migrator} : pc'[u] = pc[u]
        /\ UNCHANGED <<num, lock, call, upd, reg, panic>>
    BY <1>2 DEF TakeNext, Goto, Fatal, Cause, TypeOK
  <2>3. \A to \in ToList : list'[to] = list[to]
    BY <2>2, ListNames, OtherLists
  <2>4. batch'.to = batch.to /\ batch'.want = batch.want /\ batch'.page = batch.page
    BY <1>2 DEF TakeNext, Fatal, Cause, TypeOK, BatchRecord
  <2>5. Quiet
    BY <2>1, <2>2, <2>3, <2>4 DEF Quiet, Running, FaultThread, Migrator
  <2> QED
    BY <2>5, QuietCount
<1> QED
  BY <1>1, <1>2

\* Protect is quiet: only the loop variable moves.
LEMMA ProtectCount ==
  ASSUME TypeOK, LocalInv, CountInv,
         Protect
  PROVE  CountInv'
<1> USE ThreadsAssumption DEF Thread
<1>1. CASE \E why \in Fatal : Panic(why)
  BY <1>1, PanicCount
<1>2. CASE ~\E why \in Fatal : Panic(why)
  <2>1. Running
    BY DEF Protect, CountInv, DeadOK, FaultThread, Migrator
  <2>2. Quiet
    BY <1>2, <2>1
    DEF Quiet, Protect, Goto, LoopOver, BatchRecord, Fatal, Cause, Running, TypeOK,
        FaultThread, Migrator
  <2> QED
    BY <2>2, QuietCount
<1> QED
  BY <1>1, <1>2

\* Copy is quiet: no bookkeeping changes.
LEMMA CopyCount ==
  ASSUME TypeOK, LocalInv, CountInv,
         Copy
  PROVE  CountInv'
<1> USE ThreadsAssumption DEF Thread
<1>1. CASE \E why \in Fatal : Panic(why)
  BY <1>1, PanicCount
<1>2. CASE ~\E why \in Fatal : Panic(why)
  <2>1. Running
    BY DEF Copy, CountInv, DeadOK, FaultThread, Migrator
  <2>2. Quiet
    BY <1>2, <2>1
    DEF Quiet, Copy, Goto, Fatal, Cause, Running, TypeOK, FaultThread, Migrator
  <2> QED
    BY <2>2, QuietCount
<1> QED
  BY <1>1, <1>2

\* Remap is quiet: only mappings and the page record change.
LEMMA RemapCount ==
  ASSUME TypeOK, LocalInv, CountInv,
         Remap
  PROVE  CountInv'
<1> USE ThreadsAssumption DEF Thread
<1>1. Running
  BY DEF Remap, CountInv, DeadOK, FaultThread, Migrator
<1>2. Quiet
  BY <1>1
  DEF Quiet, Remap, Goto, LoopOver, BatchRecord, Running, TypeOK, FaultThread, Migrator
<1> QED
  BY <1>2, QuietCount

\* Restore is quiet: a page is enqueued on an mmap list.
LEMMA RestoreCount ==
  ASSUME TypeOK, LocalInv, CountInv,
         Restore
  PROVE  CountInv'
<1> USE ThreadsAssumption DEF Thread
<1>1. Running
  BY DEF Restore, CountInv, DeadOK, FaultThread, Migrator
<1>2. Quiet
  BY <1>1, ListNames
  DEF Quiet, Restore, Goto, Enqueue, BatchRecord, Running, TypeOK, FaultThread, Migrator
<1> QED
  BY <1>2, QuietCount

\* RestoreNext is quiet: a page is enqueued on a free list; the critical section is not one of a requester.
LEMMA RestoreNextCount ==
  ASSUME TypeOK, LocalInv, CountInv,
         RestoreNext
  PROVE  CountInv'
<1> USE ThreadsAssumption DEF Thread
<1>1. Running
  BY DEF RestoreNext, CountInv, DeadOK, FaultThread, Migrator
<1>2. Quiet
  BY <1>1, ListNames
  DEF Quiet, RestoreNext, Goto, Enqueue, StartCounting, BatchRecord, Running, TypeOK,
      FaultThread, Migrator
<1> QED
  BY <1>2, QuietCount

-----------------------------------------------------------------------------
(* Steps that change a request list or its counter.                         *)

\* The requesters about to count a page are finitely many.
LEMMA UncountedFinite ==
  \A to : IsFiniteSet(Uncounted(to)) /\ Cardinality(Uncounted(to)) \in Nat
<1>1. ASSUME NEW to PROVE IsFiniteSet(Uncounted(to))
  BY ThreadsAssumption, FS_Subset DEF Uncounted
<1> QED
  BY <1>1, FS_CardinalityType

\* The terms of QueueCountExact are numbers.
LEMMA CountTypes ==
  ASSUME TypeOK, NEW to \in ToList
  PROVE  num[to] \in Int /\ Len(list[to]) \in Nat /\ InBatch(to) \in Nat
  BY ListNames DEF TypeOK, InBatch, BatchRecord

\* A page is queued before it is counted.
LEMMA QueueCount ==
  ASSUME TypeOK, LocalInv, CountInv, NEW t \in App, Queue(t)
  PROVE  CountInv'
<1> USE ThreadsAssumption DEF Thread
<1> DEFINE q == call[t].to
<1>1. Running
  BY DEF Queue, CountInv, DeadOK
<1>2. /\ pc[t] = "queue" /\ pc' = [pc EXCEPT ![t] = "count"]
      /\ list' = [list EXCEPT ![q] = Append(list[q], cur[t])]
      /\ upd' = [upd EXCEPT ![t] = <<[counter |-> q, delta |-> 1],
                                     [counter |-> From(t), delta |-> -1]>>]
      /\ UNCHANGED <<num, lock, call, reg, batch, panic>>
  BY DEF Queue, StartCounting, Goto, Enqueue
<1>3. call[t].op = "request" /\ q \in ToList /\ cur[t] \in Page
  BY <1>2 DEF LocalInv, AppOK, RequestLabel, HoldingLabel, TypeOK, CallRecord
<1> HIDE DEF q
<1>4. pc'[t] = "count" /\ Len(upd'[t]) = 2
  BY <1>2 DEF TypeOK
<1>5. \A u \in Thread \ {t} : pc'[u] = pc[u] /\ upd'[u] = upd[u]
  BY <1>2 DEF TypeOK
<1>6. RegistersOK'
  <2>1. \A u \in Thread : reg'[u] # NoReg => u # t
    BY <1>1, <1>2 DEF CountInv, RegistersOK
  <2> QED
    BY <1>1, <1>2, <1>5, <2>1 DEF CountInv, RegistersOK, Running, CounterLock
<1>7. CountersOK' /\ DeadOK' /\ NoNullPage'
  BY <1>1, <1>2 DEF CountInv, CountersOK, DeadOK, NoNullPage, Running
<1>8. QueueCountExact'
  <2>1. SUFFICES ASSUME NEW to \in ToList
                 PROVE  num'[to] = Len(list'[to]) + InBatch(to)' - Cardinality(Uncounted(to)')
    BY DEF QueueCountExact
  <2>2. num[to] = Len(list[to]) + InBatch(to) - Cardinality(Uncounted(to))
    BY <1>1 DEF CountInv, QueueCountExact
  <2>3. num'[to] = num[to] /\ InBatch(to)' = InBatch(to)
    BY <1>2 DEF InBatch
  <2>4. CASE to = q
    <3>1. Len(list'[to]) = Len(list[to]) + 1
      BY <1>2, <1>3, <2>4, ListNames DEF TypeOK
    <3>2. Uncounted(to)' = Uncounted(to) \cup {t} /\ t \notin Uncounted(to)
      BY <1>2, <1>3, <1>4, <1>5, <2>4 DEF Uncounted, q
    <3>3. Cardinality(Uncounted(to)') = Cardinality(Uncounted(to)) + 1
      BY <3>2, UncountedFinite, FS_AddElement
    <3> QED
      BY <2>2, <2>3, <3>1, <3>3, CountTypes, UncountedFinite
  <2>5. CASE to # q
    <3>1. list'[to] = list[to]
      BY <1>2, <1>3, <2>5, ListNames DEF TypeOK
    <3>2. Uncounted(to)' = Uncounted(to)
      BY <1>2, <1>5, <2>5 DEF Uncounted, q
    <3> QED
      BY <2>2, <2>3, <3>1, <3>2
  <2> QED
    BY <2>4, <2>5
<1> QED
  BY <1>6, <1>7, <1>8 DEF CountInv

\* A load needs the lock, and reads the counter's value.
LEMMA LoadCount ==
  ASSUME TypeOK, LocalInv, CountInv, NEW t \in App \cup {Migrator}, LoadCounter(t)
  PROVE  CountInv'
<1> USE ThreadsAssumption DEF Thread
<1>1. Running
  BY DEF LoadCounter, CountInv, DeadOK
<1>2. /\ pc[t] = "count" /\ lock[CounterLock(t)] \in {NoThread, t}
      /\ lock' = [lock EXCEPT ![CounterLock(t)] = t]
      /\ reg' = [reg EXCEPT ![t] = <<num[Head(upd[t]).counter]>>]
      /\ UNCHANGED <<list, num, pc, call, upd, batch, panic>>
  BY DEF LoadCounter
<1>3. \A u \in Thread : CounterLock(u)' = CounterLock(u) /\ CounterLock(u) \in DOMAIN lock
  BY <1>2 DEF CounterLock, TypeOK
<1>4. RegistersOK'
  <2>1. SUFFICES ASSUME NEW u \in Thread, reg'[u] # NoReg
                 PROVE  /\ pc[u] = "count" /\ lock'[CounterLock(u)] = u
                        /\ Len(reg'[u]) = 1
                        /\ Head(upd[u]).counter \in ToList =>
                             reg'[u][1] = num[Head(upd[u]).counter]
    BY <1>2, <1>3 DEF RegistersOK
  <2>2. CASE u = t
    <3>1. reg'[u] = <<num[Head(upd[u]).counter]>>
      BY <1>2, <2>2 DEF TypeOK
    <3> QED
      BY <1>2, <1>3, <2>2, <3>1
  <2>3. CASE u # t
    <3>1. reg[u] # NoReg /\ reg'[u] = reg[u]
      BY <1>2, <2>1, <2>3 DEF TypeOK
    <3>2. lock[CounterLock(u)] = u /\ u # NoThread
      BY <1>1, <3>1 DEF CountInv, RegistersOK, FaultThread, Migrator, NoThread
    <3>3. CounterLock(u) # CounterLock(t)
      BY <1>2, <2>3, <3>2
    <3> QED
      BY <1>1, <1>2, <3>1, <3>2, <3>3 DEF CountInv, RegistersOK, TypeOK
  <2> QED
    BY <2>2, <2>3
<1>5. CountersOK' /\ DeadOK' /\ NoNullPage'
  BY <1>2 DEF CountInv, CountersOK, DeadOK, NoNullPage, Running
<1>6. QueueCountExact'
  BY <1>2 DEF CountInv, QueueCountExact, Running, Uncounted, InBatch
<1> QED
  BY <1>4, <1>5, <1>6 DEF CountInv

\* Whoever updates the counter of a request list does it under stats_lock.
LEMMA ToListLock ==
  ASSUME TypeOK, LocalInv, NEW t \in Thread, t # FaultThread, pc[t] = "count",
         Head(upd[t]).counter \in ToList
  PROVE  CounterLock(t) = "stats_lock"
<1>1. t \in App \cup {Migrator} /\ Head(upd[t]) = upd[t][1] /\ upd[t] # <<>>
  BY CountingUpdates DEF Thread
<1>2. CASE t \in App
  <2>1. call[t].op # "request" => upd[t][1].counter \notin ToList
    <3>1. AppOK(t)
      BY <1>2 DEF LocalInv
    <3>2. call[t].op # "request" => /\ Len(upd[t]) \in 1 .. 2
                                    /\ \A i \in 1 .. Len(upd[t]) : upd[t][i].counter \notin ToList
      BY <3>1 DEF AppOK
    <3> QED
      BY <3>2
  <2> QED
    BY <1>1, <2>1 DEF CounterLock
<1>3. CASE t = Migrator
  BY <1>3 DEF CounterLock
<1> QED
  BY <1>1, <1>2, <1>3

\* A store puts back what was loaded, plus delta, and gives up the lock after
\* the last update.
LEMMA StoreCount ==
  ASSUME TypeOK, LocalInv, CountInv, NEW t \in App \cup {Migrator}, StoreCounter(t)
  PROVE  CountInv'
<1> USE ThreadsAssumption DEF Thread
<1> DEFINE c == Head(upd[t]).counter
           d == Head(upd[t]).delta
<1>1. Running
  BY DEF StoreCounter, CountInv, DeadOK
<1>2. /\ pc[t] = "count" /\ reg[t] # NoReg
      /\ num' = [num EXCEPT ![c] = reg[t][1] + d]
      /\ reg' = [reg EXCEPT ![t] = NoReg]
      /\ upd' = [upd EXCEPT ![t] = Tail(upd[t])]
      /\ UNCHANGED <<list, call, panic>>
  BY DEF StoreCounter
<1>3. /\ upd[t] \in Seq(UpdateRecord) /\ upd[t] # <<>>
      /\ Head(upd[t]) \in UpdateRecord /\ Head(upd[t]) = upd[t][1]
  BY <1>2, CountingUpdates
<1>4. c \in List /\ d \in Int
  BY <1>3 DEF UpdateRecord
<1> HIDE DEF c, d
<1>5. IF Len(upd[t]) = 1
      THEN /\ lock' = [lock EXCEPT ![CounterLock(t)] = NoThread]
           /\ pc' = [pc EXCEPT ![t] = AfterCounting(t)]
           /\ batch' = IF t = Migrator THEN EmptyBatch(batch.to) ELSE batch
      ELSE UNCHANGED <<lock, pc, batch>>
  BY DEF StoreCounter, Unlock, Goto
<1>6. lock[CounterLock(t)] = t /\ (c \in ToList => reg[t][1] = num[c])
  BY <1>1, <1>2 DEF CountInv, RegistersOK, c
<1>7. \A to \in ToList : num'[to] = IF to = c THEN num[to] + d ELSE num[to]
  BY <1>2, <1>4, <1>6, ListNames DEF TypeOK
<1>8. \A u \in Thread : CounterLock(u)' = CounterLock(u) /\ CounterLock(u) \in DOMAIN lock
  BY <1>2 DEF CounterLock, TypeOK
<1>9. \A u \in Thread \ {t} : /\ pc'[u] = pc[u] /\ upd'[u] = upd[u] /\ reg'[u] = reg[u]
  BY <1>2, <1>5 DEF TypeOK
<1>10. RegistersOK'
  <2>1. SUFFICES ASSUME NEW u \in Thread, reg'[u] # NoReg
                 PROVE  /\ pc'[u] = "count" /\ lock'[CounterLock(u)] = u
                        /\ Len(reg'[u]) = 1
                        /\ Head(upd'[u]).counter \in ToList =>
                             reg'[u][1] = num'[Head(upd'[u]).counter]
    BY <1>2, <1>8 DEF RegistersOK
  <2>2. u # t
    BY <1>2, <2>1 DEF TypeOK
  <2>3. /\ pc[u] = "count" /\ lock[CounterLock(u)] = u /\ Len(reg[u]) = 1
        /\ Head(upd[u]).counter \in ToList => reg[u][1] = num[Head(upd[u]).counter]
    BY <1>1, <1>9, <2>1, <2>2 DEF CountInv, RegistersOK
  <2>4. CounterLock(u) # CounterLock(t)
    BY <1>6, <2>2, <2>3
  <2>5. lock'[CounterLock(u)] = u
    BY <1>5, <1>8, <2>3, <2>4 DEF TypeOK
  <2>6. ASSUME Head(upd[u]).counter \in ToList
        PROVE  reg[u][1] = num'[Head(upd[u]).counter]
    <3>1. u # FaultThread
      BY <2>3 DEF LocalInv, FaultOK, FaultLabel
    <3>2. CounterLock(u) = "stats_lock"
      BY <2>3, <2>6, <3>1, ToListLock
    <3>3. c \notin ToList
      BY <1>2, <2>4, <3>2, ToListLock DEF c, FaultThread, Migrator
    <3> QED
      BY <1>7, <2>3, <2>6, <3>3
  <2> QED
    BY <1>9, <2>2, <2>3, <2>5, <2>6
<1>11. DeadOK' /\ NoNullPage'
  BY <1>1, <1>2 DEF CountInv, DeadOK, NoNullPage, Running
<1>12. CASE t \in App /\ call[t].op = "request" /\ Len(upd[t]) = 2
  <2>1. upd[t] = <<[counter |-> call[t].to, delta |-> 1],
                   [counter |-> From(t), delta |-> -1]>>
    <3>1. Len(<<[counter |-> From(t), delta |-> -1]>>) = 1
      OBVIOUS
    <3> QED
      BY <1>2, <1>12, <3>1 DEF LocalInv, AppOK
  <2>2. c = call[t].to /\ d = 1 /\ c \in ToList
    <3>1. call[t].to \in ToList
      BY DEF TypeOK, CallRecord
    <3> QED
      BY <1>3, <2>1, <3>1 DEF c, d
  <2>3. UNCHANGED <<pc, batch>> /\ Len(upd'[t]) = 1
    BY <1>2, <1>3, <1>5, <1>12 DEF TypeOK
  <2>4. CountersOK'
    <3>1. \A to \in ToList : num'[to] >= num[to]
      BY <1>7, <2>2, CountTypes
    <3>2. batch.want \in Nat
      BY SizesAssumption DEF TypeOK, BatchRecord
    <3>3. SUFFICES ASSUME NEW to \in ToList
                   PROVE  num'[to] >= IF batch.to = to THEN batch.want ELSE 0
      BY <2>3 DEF CountersOK
    <3>4. num[to] >= IF batch.to = to THEN batch.want ELSE 0
      BY DEF CountInv, CountersOK
    <3>5. num[to] \in Int /\ num'[to] \in Int
      BY <1>7, <2>2, CountTypes
    <3> QED
      BY <3>1, <3>2, <3>4, <3>5
  <2>5. QueueCountExact'
    <3>1. SUFFICES ASSUME NEW to \in ToList
                   PROVE  num'[to] = Len(list'[to]) + InBatch(to)' - Cardinality(Uncounted(to)')
      BY DEF QueueCountExact
    <3>2. num[to] = Len(list[to]) + InBatch(to) - Cardinality(Uncounted(to))
      BY <1>1 DEF CountInv, QueueCountExact
    <3>3. list'[to] = list[to] /\ InBatch(to)' = InBatch(to)
      BY <1>2, <2>3 DEF InBatch
    <3>4. CASE to = c
      <4>1. Uncounted(to)' = Uncounted(to) \ {t} /\ t \in Uncounted(to)
        <5>1. t \in Uncounted(to)
          BY <1>2, <1>12, <2>2, <3>4 DEF Uncounted
        <5>2. t \notin Uncounted(to)'
          BY <2>3 DEF Uncounted
        <5>3. \A u \in App \ {t} : u \in Uncounted(to)' <=> u \in Uncounted(to)
          BY <1>2, <1>9 DEF Uncounted
        <5>4. Uncounted(to) \subseteq App /\ Uncounted(to)' \subseteq App
          BY DEF Uncounted
        <5> QED
          BY <5>1, <5>2, <5>3, <5>4
      <4>2. Cardinality(Uncounted(to)') = Cardinality(Uncounted(to)) - 1
        BY <4>1, UncountedFinite, FS_RemoveElement
      <4> QED
        <5>1. num'[to] = num[to] + 1
          BY <1>7, <2>2, <3>4
        <5>2. num[to] \in Int /\ Len(list[to]) \in Nat /\ InBatch(to) \in Nat
          BY CountTypes
        <5> QED
          BY <3>2, <3>3, <4>2, <5>1, <5>2, UncountedFinite
    <3>5. CASE to # c
      <4>1. Uncounted(to)' = Uncounted(to)
        BY <1>2, <1>9, <1>12, <2>2, <2>3, <3>5 DEF Uncounted
      <4> QED
        BY <1>7, <3>2, <3>3, <3>5, <4>1
    <3> QED
      BY <3>4, <3>5
  <2> QED
    BY <1>10, <1>11, <2>4, <2>5 DEF CountInv
<1>13. CASE t \in App /\ ~(call[t].op = "request" /\ Len(upd[t]) = 2)
  <2>1. c \notin ToList
    <3>1. AppOK(t)
      BY <1>13 DEF LocalInv
    <3>2. CASE call[t].op = "request"
      <4>1. Len(<<[counter |-> call[t].to, delta |-> 1],
                  [counter |-> From(t), delta |-> -1]>>) = 2
        OBVIOUS
      <4>2. upd[t] = <<[counter |-> From(t), delta |-> -1]>>
        BY <1>2, <1>13, <3>1, <3>2, <4>1 DEF AppOK
      <4> QED
        BY <1>3, <4>2, ListNames DEF c
    <3>3. CASE call[t].op # "request"
      BY <1>2, <1>3, <3>1, <3>3 DEF AppOK, c
    <3> QED
      BY <3>2, <3>3
  <2>2. batch' = batch /\ \A to \in ToList : num'[to] = num[to]
    BY <1>5, <1>7, <1>13, <2>1 DEF Migrator
  <2>3. \A to : Uncounted(to)' = Uncounted(to)
    <3>1. \A to : t \notin Uncounted(to)
      BY <1>2, <1>13 DEF Uncounted
    <3>2. \A to : t \notin Uncounted(to)'
      <4>1. call[t].op = "request" => Len(upd[t]) = 1
        <5>1. Len(<<[counter |-> From(t), delta |-> -1]>>) = 1
          OBVIOUS
        <5>2. Len(<<[counter |-> call[t].to, delta |-> 1],
                    [counter |-> From(t), delta |-> -1]>>) = 2
          OBVIOUS
        <5> QED
          BY <1>2, <1>13, <5>1, <5>2 DEF LocalInv, AppOK
      <4>2. call[t].op = "request" => pc'[t] # "count"
        BY <1>5, <1>13, <4>1 DEF AfterCounting, TypeOK, Migrator
      <4> QED
        BY <1>2, <4>2 DEF Uncounted
    <3> QED
      BY <1>2, <1>9, <3>1, <3>2 DEF Uncounted
  <2>4. CountersOK'
    BY <2>2 DEF CountInv, CountersOK
  <2>5. QueueCountExact'
    BY <1>1, <1>2, <2>2, <2>3 DEF CountInv, QueueCountExact, InBatch, Running
  <2> QED
    BY <1>10, <1>11, <2>4, <2>5 DEF CountInv
<1>14. CASE t = Migrator
  <2>1. /\ Len(batch.page) = batch.want
        /\ Len(upd[t]) \in 1 .. 4
        /\ \A i \in 1 .. Len(upd[t]) - 1 : upd[t][i].counter \notin ToList
        /\ upd[t][Len(upd[t])] = [counter |-> batch.to, delta |-> -batch.want]
    BY <1>2, <1>14 DEF LocalInv, MigratorOK
  <2>2. \A to : Uncounted(to)' = Uncounted(to)
    BY <1>2, <1>9, <1>14 DEF Uncounted
  <2>3. batch.to \in ToList /\ batch.want \in Nat
    BY SizesAssumption DEF TypeOK, BatchRecord
  <2>4. CASE Len(upd[t]) # 1
    <3>1. c \notin ToList
      <4>1. 1 \in 1 .. Len(upd[t]) - 1
        <5>1. Len(upd[t]) \in 2 .. 4
          BY <2>1, <2>4
        <5> QED
          BY <5>1
      <4> QED
        BY <1>3, <2>1, <4>1 DEF c
    <3>2. batch' = batch /\ \A to \in ToList : num'[to] = num[to]
      BY <1>5, <1>7, <2>4, <3>1
    <3>3. CountersOK'
      BY <3>2 DEF CountInv, CountersOK
    <3>4. QueueCountExact'
      BY <1>1, <1>2, <2>2, <3>2 DEF CountInv, QueueCountExact, InBatch, Running
    <3> QED
      BY <1>10, <1>11, <3>3, <3>4 DEF CountInv
  <2>5. CASE Len(upd[t]) = 1
    <3>1. c = batch.to /\ d = -batch.want
      BY <1>3, <2>1, <2>5 DEF c, d
    <3>2. batch' = EmptyBatch(batch.to)
      BY <1>5, <1>14, <2>5
    <3>3. batch'.to = batch.to /\ batch'.want = 0 /\ Len(batch'.page) = 0
      BY <3>2 DEF EmptyBatch
    <3>4. CountersOK'
      BY <1>7, <2>3, <3>1, <3>3, CountTypes DEF CountInv, CountersOK
    <3>5. QueueCountExact'
      <4>1. SUFFICES ASSUME NEW to \in ToList
                     PROVE  num'[to] = Len(list'[to]) + InBatch(to)' - Cardinality(Uncounted(to)')
        BY DEF QueueCountExact
      <4>2. num[to] = Len(list[to]) + InBatch(to) - Cardinality(Uncounted(to))
        BY <1>1 DEF CountInv, QueueCountExact
      <4>3. list'[to] = list[to] /\ InBatch(to)' = 0
        BY <1>2, <3>3 DEF InBatch
      <4>4. InBatch(to) = IF to = batch.to THEN batch.want ELSE 0
        BY <2>1 DEF InBatch
      <4> QED
        BY <1>7, <2>2, <2>3, <3>1, <4>2, <4>3, <4>4, CountTypes, UncountedFinite
    <3> QED
      BY <1>10, <1>11, <3>4, <3>5 DEF CountInv
  <2> QED
    BY <2>4, <2>5
<1> QED
  BY <1>12, <1>13, <1>14

\* A new batch claims no more than the counter has; an empty one claims
\* nothing.
LEMMA ScanCount ==
  ASSUME TypeOK, LocalInv, CountInv, Scan
  PROVE  CountInv'
<1> USE ThreadsAssumption DEF Thread
<1>1. Running
  BY DEF Scan, CountInv, DeadOK, Migrator
<1>2. /\ pc[Migrator] = "scan" /\ batch = EmptyBatch(batch.to) /\ batch.to \in ToList
      /\ UNCHANGED <<list, num, lock, call, upd, reg, panic>>
  BY DEF Scan, LocalInv, MigratorOK, TypeOK, BatchRecord
<1>3. pc'[Migrator] # "count" /\ \A u \in Thread \ {Migrator} : pc'[u] = pc[u]
  BY <1>2 DEF Scan, Goto, TypeOK
<1>4. /\ batch.page = <<>> /\ batch'.page = <<>>
      /\ batch'.want = 0 \/ (batch'.to = batch.to /\ num[batch.to] # 0
                             /\ batch'.want = AsUnsignedMin(num[batch.to], NUM_BATCHS))
  <2>1. batch.page = <<>>
    BY <1>2 DEF EmptyBatch
  <2>2. CASE batch' = EmptyBatch(NextLoop(batch.to))
    BY <2>1, <2>2 DEF EmptyBatch
  <2>3. CASE num[batch.to] # 0
             /\ batch' = [batch EXCEPT !.want = AsUnsignedMin(num[batch.to], NUM_BATCHS)]
    BY <2>1, <2>3 DEF TypeOK, BatchRecord
  <2> QED
    BY <2>2, <2>3 DEF Scan
<1>5. RegistersOK'
  BY <1>1, <1>2, <1>3 DEF CountInv, RegistersOK, Running, CounterLock
<1>6. CountersOK'
  <2>1. SUFFICES ASSUME NEW to \in ToList
                 PROVE  num[to] >= IF batch'.to = to THEN batch'.want ELSE 0
    BY <1>2 DEF CountersOK
  <2>2. batch.want \in Nat
    BY SizesAssumption DEF TypeOK, BatchRecord
  <2>3. num[to] >= 0 /\ num[to] \in Int
    BY <2>2, CountTypes DEF CountInv, CountersOK
  <2>4. CASE batch'.want = 0
    BY <2>3, <2>4
  <2>5. CASE batch'.to = batch.to /\ batch'.want = AsUnsignedMin(num[batch.to], NUM_BATCHS)
    BY <2>3, <2>5, SizesAssumption DEF AsUnsignedMin
  <2> QED
    BY <1>4, <2>4, <2>5
<1>7. DeadOK' /\ NoNullPage'
  BY <1>1, <1>2 DEF CountInv, DeadOK, NoNullPage, Running
<1>8. QueueCountExact'
  <2>1. \A to \in ToList : Uncounted(to)' = Uncounted(to)
    BY <1>2, <1>3 DEF Uncounted, Migrator
  <2>2. \A to \in ToList : InBatch(to)' = InBatch(to)
    BY <1>4 DEF InBatch
  <2> QED
    BY <1>1, <1>2, <2>1, <2>2 DEF CountInv, QueueCountExact
<1> QED
  BY <1>5, <1>6, <1>7, <1>8 DEF CountInv

\* The list has the page its counter promised.
LEMMA TakePageCount ==
  ASSUME TypeOK, LocalInv, CountInv, TakePage
  PROVE  CountInv'
<1> USE ThreadsAssumption DEF Thread
<1> DEFINE to == batch.to
<1>1. Running
  BY DEF TakePage, CountInv, DeadOK, Migrator
<1>2. to \in ToList /\ batch \in BatchRecord /\ batch.want \in Nat /\ batch.page \in Seq(Page)
  BY SizesAssumption DEF TypeOK, BatchRecord
<1>3. list[to] # <<>>
  <2>1. num[to] = Len(list[to]) + InBatch(to) - Cardinality(Uncounted(to))
    BY <1>1, <1>2 DEF CountInv, QueueCountExact
  <2>2. num[to] >= batch.want /\ Len(batch.page) < batch.want
    BY <1>2 DEF CountInv, CountersOK, TakePage, LocalInv, MigratorOK
  <2>3. InBatch(to) = Len(batch.page)
    BY DEF InBatch
  <2>4. Len(list[to]) > 0
    <3> HIDE DEF to
    <3> QED
      BY <1>2, <2>1, <2>2, <2>3, CountTypes, UncountedFinite
  <2> QED
    BY <2>4
<1>4. /\ list' = [list EXCEPT ![to] = Tail(list[to])]
      /\ batch' = [batch EXCEPT !.page = Append(batch.page, Head(list[to]))]
      /\ pc' = [pc EXCEPT ![Migrator] = "take_next"]
      /\ UNCHANGED <<num, lock, call, upd, reg, panic>>
  BY <1>3 DEF TakePage, Dequeue, Goto
<1>5. list[to] \in Seq(Page) /\ Head(list[to]) \in Page
  BY <1>2, <1>3, ListNames, DequeueType DEF TypeOK
<1>6. batch'.to = to /\ batch'.want = batch.want /\ Len(batch'.page) = Len(batch.page) + 1
  <2>1. Len(Append(batch.page, Head(list[to]))) = Len(batch.page) + 1
    BY <1>2, <1>5
  <2> QED
    BY <1>2, <1>4, <2>1 DEF BatchRecord
<1>7. pc[Migrator] = "take_page" /\ pc'[Migrator] = "take_next"
      /\ \A u \in Thread \ {Migrator} : pc'[u] = pc[u]
  BY <1>4 DEF TakePage, TypeOK
<1> HIDE DEF to
<1>8. RegistersOK'
  BY <1>1, <1>4, <1>7 DEF CountInv, RegistersOK, Running, CounterLock
<1>9. CountersOK'
  BY <1>4, <1>6 DEF CountInv, CountersOK, to
<1>10. DeadOK' /\ NoNullPage'
  BY <1>1, <1>4 DEF CountInv, DeadOK, NoNullPage, Running
<1>11. QueueCountExact'
  <2>1. SUFFICES ASSUME NEW l \in ToList
                 PROVE  num'[l] = Len(list'[l]) + InBatch(l)' - Cardinality(Uncounted(l)')
    BY DEF QueueCountExact
  <2>2. num[l] = Len(list[l]) + InBatch(l) - Cardinality(Uncounted(l))
    BY <1>1 DEF CountInv, QueueCountExact
  <2>3. Uncounted(l)' = Uncounted(l)
    BY <1>4, <1>7 DEF Uncounted, Migrator
  <2>4. CASE l = to
    <3>1. Len(list'[l]) = Len(list[l]) - 1
      BY <1>3, <1>4, <1>5, <2>4, ListNames, HeadTailProperties DEF TypeOK
    <3>2. InBatch(l)' = InBatch(l) + 1
      BY <1>6, <2>4 DEF InBatch, to
    <3> QED
      BY <1>4, <2>2, <2>3, <3>1, <3>2, CountTypes, UncountedFinite
  <2>5. CASE l # to
    <3>1. list'[l] = list[l] /\ InBatch(l)' = InBatch(l)
      BY <1>2, <1>4, <1>6, <2>5, ListNames DEF InBatch, to, TypeOK
    <3> QED
      BY <1>4, <2>2, <2>3, <3>1
  <2> QED
    BY <2>4, <2>5
<1> QED
  BY <1>8, <1>9, <1>10, <1>11 DEF CountInv

-----------------------------------------------------------------------------
(* Every step preserves the invariant; the theorems.                        *)

\* The allocation of a page leaves the request lists and their counters alone.
LEMMA AllocationCount ==
  ASSUME TypeOK, LocalInv, CountInv, NEW t \in App \cup {FaultThread}, Allocation(t)
  PROVE  CountInv'
<1>1. "dram" \in Tier /\ "nvm" \in Tier
  BY DEF Tier
<1> QED
  BY <1>1, AllocateCount, PlaceCount, MapCount, PublishCount, AddPageCount DEF Allocation

\* Every step preserves the invariant of the counters.
LEMMA NextCount ==
  ASSUME TypeOK, LocalInv, CountInv, [Next]_vars
  PROVE  CountInv'
<1>1. ASSUME NEW t \in App, Calls(t) PROVE CountInv'
  <2>1. CASE \E lo, hi \in VA, populate \in BOOLEAN : Mmap(t, lo, hi, populate)
    BY <2>1, MmapCount
  <2>2. CASE \E v \in VA : Touch(t, v)
    BY <2>2, TouchCount
  <2>3. CASE \E lo, hi \in VA : Munmap(t, lo, hi)
    BY <2>3, MunmapCount
  <2>4. CASE \E to \in Kinds, n \in 1 .. MaxPagesNum, random \in BOOLEAN :
               Request(t, to, n, random)
    <3>1. PICK to \in Kinds, n \in 1 .. MaxPagesNum, random \in BOOLEAN :
               Request(t, to, n, random)
      BY <2>4
    <3>2. to \in ToList /\ n \in Nat
      BY ClientAssumption, SizesAssumption
    <3> QED
      BY <3>1, <3>2, RequestCount
  <2> QED
    BY <1>1, <2>1, <2>2, <2>3, <2>4 DEF Calls
<1>2. ASSUME NEW t \in App, AppStep(t) PROVE CountInv'
  BY <1>2, AllocationCount, LoadCount, StoreCount, RemovePageCount, UncountPageCount,
     UnmapCount, ChooseCount, RotateCount, RotateBackCount, TakeCount, QueueCount,
     RequestDoneCount
  DEF AppStep, Counting
<1>3. ASSUME FaultStep PROVE CountInv'
  BY <1>3, ReadFaultCount, AllocationCount, WakeCount DEF FaultStep
<1>4. ASSUME MigratorStep PROVE CountInv'
  BY <1>4, ScanCount, TakePageCount, TakeNextCount, ProtectCount, CopyCount, RemapCount,
     RestoreCount, RestoreNextCount, LoadCount, StoreCount
  DEF MigratorStep, Counting
<1>5. CASE UNCHANGED vars
  <2>1. RegistersOK'
    BY <1>5 DEF vars, CountInv, RegistersOK, Running, CounterLock
  <2>2. CountersOK' /\ DeadOK' /\ NoNullPage'
    BY <1>5 DEF vars, CountInv, CountersOK, DeadOK, NoNullPage, Running
  <2>3. \A to : Uncounted(to)' = Uncounted(to) /\ InBatch(to)' = InBatch(to)
    BY <1>5 DEF vars, Uncounted, InBatch
  <2>4. QueueCountExact'
    BY <1>5, <2>3 DEF vars, CountInv, QueueCountExact, Running
  <2> QED
    BY <2>1, <2>2, <2>4 DEF CountInv
<1> QED
  BY <1>1, <1>2, <1>3, <1>4, <1>5 DEF Next

\* It holds when nothing is queued yet.
LEMMA InitCount == Init => CountInv
<1> SUFFICES ASSUME Init PROVE CountInv
  OBVIOUS
<1>1. RegistersOK /\ DeadOK /\ NoNullPage
  BY DEF Init, RegistersOK, DeadOK, NoNullPage, Running, NoReg
<1>2. \A to \in ToList : num[to] = 0 /\ list[to] = <<>>
  BY DEF Init, List, ToList
<1>3. batch.page = <<>> /\ batch.want = 0
  BY DEF Init, EmptyBatch
<1>4. \A to : Uncounted(to) = {}
  BY ThreadsAssumption DEF Init, Uncounted, Thread, Migrator, FaultThread
<1>5. CountersOK
  BY <1>2, <1>3 DEF CountersOK
<1>6. QueueCountExact
  <2>1. Cardinality({}) = 0
    BY FS_EmptySet
  <2>2. \A to \in ToList : InBatch(to) = 0 /\ Len(list[to]) = 0
    BY <1>2, <1>3 DEF InBatch
  <2>3. \A to \in ToList : Cardinality(Uncounted(to)) = 0
    BY <1>4, <2>1
  <2>4. SUFFICES ASSUME NEW to \in ToList
                 PROVE  num[to] = Len(list[to]) + InBatch(to) - Cardinality(Uncounted(to))
    BY DEF QueueCountExact
  <2>5. /\ num[to] = 0 /\ Len(list[to]) = 0
        /\ InBatch(to) = 0 /\ Cardinality(Uncounted(to)) = 0
    BY <1>2, <2>2, <2>3
  <2> QED
    BY <2>5
<1> QED
  BY <1>1, <1>5, <1>6 DEF CountInv

\* The inductive invariant holds in every reachable state.
THEOREM Invariant == Spec => []IInv
<1>1. Init => IInv
  BY InitLocal, InitCount DEF IInv
<1>2. IInv /\ [Next]_vars => IInv'
  BY NextLocal, NextCount DEF IInv
<1> QED
  BY <1>1, <1>2, PTL DEF Spec

\* However many threads queue pages while the migration thread serves them,
\* the counter of a request list is the length of the list plus the pages in
\* the batch, less those a requester is about to count.
THEOREM QueueCountsAreExact == Spec => []QueueCountExact
<1>1. IInv => QueueCountExact
  BY DEF IInv, CountInv
<1> QED
  BY <1>1, Invariant, PTL

\* The migration thread trusts the counter of a request list and never
\* dequeues NULL from the list.
THEOREM NeverNullPage == Spec => []NoNullPage
<1>1. IInv => NoNullPage
  BY DEF IInv, CountInv
<1> QED
  BY <1>1, Invariant, PTL

-----------------------------------------------------------------------------
(* Owners in general: lists L, and a set G of pairs of a slot and the page   *)
(* in it.                                                                    *)

\* o is an owner of p.
Owns(L, G, o, p) ==
  \/ \E l \in List : \E i \in 1 .. Len(L[l]) : o = <<l, i>> /\ L[l][i] = p
  \/ <<o, p>> \in G

\* o is the owner of p, and there is no other.
Sole(L, G, o, p) == \A x : Owns(L, G, x, p) <=> x = o

\* Every page has one owner.
Exclusive(L, G) == \A p \in Page : \E o : Sole(L, G, o, p)

\* Page h has no owner, every other page has one.
AllBut(L, G, h) ==
  /\ \A p \in Page \ {h} : \E o : Sole(L, G, o, p)
  /\ \A x : ~Owns(L, G, x, h)

Lists == [List -> Seq(Page)]

\* The slot is not a place on a list.
Slot(s) == \A l \in List : \A i \in Nat \ {0} : s # <<l, i>>

\* A page that is put in a slot has that owner.
LEMMA Grab ==
  ASSUME NEW L, NEW G, NEW h, NEW s, AllBut(L, G, h)
  PROVE  Exclusive(L, G \cup {<<s, h>>})
<1> DEFINE H == G \cup {<<s, h>>}
<1>1. \A x : Owns(L, H, x, h) <=> x = s
  BY DEF AllBut, Owns
<1>2. ASSUME NEW p \in Page \ {h}
      PROVE  \A x : Owns(L, H, x, p) <=> Owns(L, G, x, p)
  BY <1>2 DEF Owns
<1>3. ASSUME NEW p \in Page
      PROVE  \E o : Sole(L, H, o, p)
  <2>1. CASE p = h
    <3>1. Sole(L, H, s, p)
      BY <1>1, <2>1 DEF Sole
    <3> QED
      BY <3>1
  <2>2. CASE p # h
    <3>1. PICK o : Sole(L, G, o, p)
      BY <2>2 DEF AllBut
    <3>2. Sole(L, H, o, p)
      BY <1>2, <2>2, <3>1 DEF Sole
    <3> QED
      BY <3>2
  <2> QED
    BY <2>1, <2>2
<1> QED
  BY <1>3 DEF Exclusive

\* A page that is taken out of its slot has no owner left.
LEMMA LetGo ==
  ASSUME NEW L, NEW G, NEW h \in Page, NEW s, Slot(s), L \in Lists,
         Exclusive(L, G), <<s, h>> \in G
  PROVE  AllBut(L, G \ {<<s, h>>}, h)
<1> DEFINE H == G \ {<<s, h>>}
<1>1. \A x : Owns(L, G, x, h) <=> x = s
  <2>1. Owns(L, G, s, h)
    BY DEF Owns
  <2> QED
    BY <2>1 DEF Exclusive, Sole
<1>2. \A l \in List : \A i \in 1 .. Len(L[l]) : L[l][i] # h
  <2>1. ASSUME NEW l \in List, NEW i \in 1 .. Len(L[l]), L[l][i] = h PROVE FALSE
    <3>1. Owns(L, G, <<l, i>>, h)
      BY <2>1 DEF Owns
    <3>2. <<l, i>> = s
      BY <1>1, <3>1
    <3>3. i \in Nat \ {0}
      BY DEF Lists
    <3> QED
      BY <3>2, <3>3 DEF Slot
  <2> QED
    BY <2>1
<1>3. \A x : ~Owns(L, H, x, h)
  <2>1. ASSUME NEW x, Owns(L, H, x, h) PROVE FALSE
    <3>1. <<x, h>> \in H
      BY <1>2, <2>1 DEF Owns
    <3>2. x = s
      BY <1>1, <3>1 DEF Owns
    <3> QED
      BY <3>1, <3>2
  <2> QED
    BY <2>1
<1>4. ASSUME NEW p \in Page \ {h}
      PROVE  \A x : Owns(L, H, x, p) <=> Owns(L, G, x, p)
  BY <1>4 DEF Owns
<1>5. ASSUME NEW p \in Page \ {h}
      PROVE  \E o : Sole(L, H, o, p)
  <2>1. PICK o : Sole(L, G, o, p)
    BY DEF Exclusive
  <2>2. Sole(L, H, o, p)
    BY <1>4, <2>1 DEF Sole
  <2> QED
    BY <2>2
<1> QED
  BY <1>3, <1>5 DEF AllBut

\* A page without an owner that is enqueued is on that list.
LEMMA PutOn ==
  ASSUME NEW L \in Lists, NEW G, NEW h \in Page, NEW l \in List, AllBut(L, G, h)
  PROVE  Exclusive([L EXCEPT ![l] = Append(@, h)], G)
<1> DEFINE M == [L EXCEPT ![l] = Append(@, h)]
           n == Len(L[l])
<1>1. /\ L[l] \in Seq(Page) /\ n \in Nat
      /\ M[l] = Append(L[l], h) /\ \A m \in List \ {l} : M[m] = L[m]
  BY DEF Lists
<1>2. /\ Len(M[l]) = n + 1 /\ M[l][n + 1] = h
      /\ \A i \in 1 .. n : M[l][i] = L[l][i]
  BY <1>1
<1>3. ASSUME NEW p, NEW x
      PROVE  Owns(M, G, x, p) <=> Owns(L, G, x, p) \/ (p = h /\ x = <<l, n + 1>>)
  <2>1. ASSUME NEW m \in List, NEW i \in 1 .. Len(M[m])
        PROVE  \/ i \in 1 .. Len(L[m]) /\ M[m][i] = L[m][i]
               \/ m = l /\ i = n + 1 /\ M[m][i] = h
    BY <1>1, <1>2
  <2>2. ASSUME NEW m \in List, NEW i \in 1 .. Len(L[m])
        PROVE  i \in 1 .. Len(M[m]) /\ M[m][i] = L[m][i]
    BY <1>1, <1>2
  <2>3. n + 1 \in 1 .. Len(M[l])
    BY <1>1, <1>2
  <2> QED
    BY <1>2, <2>1, <2>2, <2>3 DEF Owns
<1>4. ASSUME NEW p \in Page
      PROVE  \E o : Sole(M, G, o, p)
  <2>1. CASE p = h
    <3>1. Sole(M, G, <<l, n + 1>>, p)
      BY <1>3, <2>1 DEF AllBut, Sole
    <3> QED
      BY <3>1
  <2>2. CASE p # h
    <3>1. PICK o : Sole(L, G, o, p)
      BY <2>2 DEF AllBut
    <3>2. Sole(M, G, o, p)
      BY <1>3, <2>2, <3>1 DEF Sole
    <3> QED
      BY <3>2
  <2> QED
    BY <2>1, <2>2
<1> QED
  BY <1>4 DEF Exclusive

\* A page that is dequeued has no owner left; the others move up.
LEMMA TakeOff ==
  ASSUME NEW L \in Lists, NEW G, NEW l \in List, L[l] # <<>>,
         \A o, p : <<o, p>> \in G => Slot(o),
         Exclusive(L, G)
  PROVE  AllBut([L EXCEPT ![l] = Tail(@)], G, Head(L[l]))
<1> DEFINE M == [L EXCEPT ![l] = Tail(@)]
           h == Head(L[l])
           n == Len(L[l])
<1>1. /\ L[l] \in Seq(Page) /\ n \in Nat \ {0}
      /\ M[l] = Tail(L[l]) /\ \A m \in List \ {l} : M[m] = L[m]
  BY EmptySeq, HeadTailProperties DEF Lists
<1>2. /\ Len(M[l]) = n - 1 /\ h = L[l][1] /\ h \in Page
      /\ \A i \in 1 .. n - 1 : M[l][i] = L[l][i + 1]
  <2>1. L[l] # <<>> /\ Len(Tail(L[l])) = n - 1 /\ Head(L[l]) = L[l][1] /\ Head(L[l]) \in Page
    BY <1>1, HeadTailProperties
  <2>2. \A i \in 1 .. n - 1 : Tail(L[l])[i] = L[l][i + 1]
    BY <1>1, <2>1, HeadTailProperties
  <2> QED
    BY <1>1, <2>1, <2>2
<1>3. Owns(L, G, <<l, 1>>, h)
  BY <1>1, <1>2 DEF Owns
<1>4. \A x : Owns(L, G, x, h) => x = <<l, 1>>
  BY <1>2, <1>3 DEF Exclusive, Sole
<1>5. ASSUME NEW m \in List, NEW i \in 1 .. Len(M[m]), NEW p
      PROVE  /\ M[m][i] = p => Owns(L, G, IF m = l THEN <<m, i + 1>> ELSE <<m, i>>, p)
             /\ i \in Nat \ {0}
  <2>1. CASE m = l
    <3>1. i + 1 \in 1 .. Len(L[l]) /\ M[l][i] = L[l][i + 1] /\ i \in Nat \ {0}
      BY <1>1, <1>2, <2>1
    <3> QED
      BY <2>1, <3>1 DEF Owns
  <2>2. CASE m # l
    BY <1>1, <2>2 DEF Owns, Lists
  <2> QED
    BY <2>1, <2>2
<1>6. \A x : ~Owns(M, G, x, h)
  <2>1. ASSUME NEW x, Owns(M, G, x, h) PROVE FALSE
    <3>1. CASE <<x, h>> \in G
      <4>1. x = <<l, 1>>
        BY <1>4, <3>1 DEF Owns
      <4> QED
        BY <3>1, <4>1 DEF Slot
    <3>2. CASE \E m \in List : \E i \in 1 .. Len(M[m]) : x = <<m, i>> /\ M[m][i] = h
      <4>0. PICK m \in List : \E i \in 1 .. Len(M[m]) : x = <<m, i>> /\ M[m][i] = h
        BY <3>2
      <4>1. PICK i \in 1 .. Len(M[m]) : x = <<m, i>> /\ M[m][i] = h
        BY <4>0
      <4>2. (IF m = l THEN <<m, i + 1>> ELSE <<m, i>>) = <<l, 1>> /\ i \in Nat \ {0}
        BY <1>4, <1>5, <4>1
      <4> QED
        BY <4>2
    <3> QED
      BY <2>1, <3>1, <3>2 DEF Owns
  <2> QED
    BY <2>1
<1>7. ASSUME NEW p \in Page \ {h}
      PROVE  \E o : Sole(M, G, o, p)
  <2>1. PICK o : Sole(L, G, o, p)
    BY DEF Exclusive
  <2>2. CASE <<o, p>> \in G
    <3>1. Slot(o) /\ Owns(M, G, o, p)
      BY <2>2 DEF Owns
    <3>2. ASSUME NEW x, Owns(M, G, x, p) PROVE x = o
      <4>1. CASE <<x, p>> \in G
        BY <2>1, <4>1 DEF Owns, Sole
      <4>2. CASE \E m \in List : \E i \in 1 .. Len(M[m]) : x = <<m, i>> /\ M[m][i] = p
        <5>0. PICK m \in List : \E i \in 1 .. Len(M[m]) : x = <<m, i>> /\ M[m][i] = p
          BY <4>2
        <5>1. PICK i \in 1 .. Len(M[m]) : x = <<m, i>> /\ M[m][i] = p
          BY <5>0
        <5>2. Owns(L, G, IF m = l THEN <<m, i + 1>> ELSE <<m, i>>, p) /\ i \in Nat \ {0}
          BY <1>5, <5>1
        <5>3. o = (IF m = l THEN <<m, i + 1>> ELSE <<m, i>>)
          BY <2>1, <5>2 DEF Sole
        <5> QED
          BY <3>1, <5>2, <5>3 DEF Slot
      <4> QED
        BY <3>2, <4>1, <4>2 DEF Owns
    <3>3. Sole(M, G, o, p)
      BY <3>1, <3>2 DEF Sole
    <3> QED
      BY <3>3
  <2>3. CASE \E m \in List : \E i \in 1 .. Len(L[m]) : o = <<m, i>> /\ L[m][i] = p
    <3>0. PICK m \in List : \E i \in 1 .. Len(L[m]) : o = <<m, i>> /\ L[m][i] = p
      BY <2>3
    <3>1. PICK i \in 1 .. Len(L[m]) : o = <<m, i>> /\ L[m][i] = p
      BY <3>0
    <3>2. m = l => i # 1
      BY <1>2, <3>1
    <3> DEFINE q == IF m = l THEN <<m, i - 1>> ELSE <<m, i>>
    <3>3. Owns(M, G, q, p)
      <4>1. CASE m = l
        <5>1. i - 1 \in 1 .. Len(M[l]) /\ M[l][i - 1] = L[l][i]
          BY <1>1, <1>2, <3>2, <4>1
        <5> QED
          BY <3>1, <4>1, <5>1 DEF Owns
      <4>2. CASE m # l
        BY <1>1, <3>1, <4>2 DEF Owns
      <4> QED
        BY <4>1, <4>2
    <3>4. ASSUME NEW x, Owns(M, G, x, p) PROVE x = q
      <4>1. CASE <<x, p>> \in G
        <5>1. x = o /\ Slot(x)
          BY <2>1, <4>1 DEF Owns, Sole
        <5>2. i \in Nat \ {0}
          BY DEF Lists
        <5> QED
          BY <3>1, <5>1, <5>2 DEF Slot
      <4>2. CASE \E k \in List : \E j \in 1 .. Len(M[k]) : x = <<k, j>> /\ M[k][j] = p
        <5>0. PICK k \in List : \E j \in 1 .. Len(M[k]) : x = <<k, j>> /\ M[k][j] = p
          BY <4>2
        <5>1. PICK j \in 1 .. Len(M[k]) : x = <<k, j>> /\ M[k][j] = p
          BY <5>0
        <5>2. <<m, i>> = (IF k = l THEN <<k, j + 1>> ELSE <<k, j>>) /\ j \in Nat \ {0}
          BY <1>5, <2>1, <3>1, <5>1 DEF Sole
        <5>3. k = m /\ (k = l => i = j + 1) /\ (k # l => i = j)
          BY <5>2
        <5> QED
          BY <5>1, <5>2, <5>3
      <4> QED
        BY <3>4, <4>1, <4>2 DEF Owns
    <3>5. Sole(M, G, q, p)
      BY <3>3, <3>4 DEF Sole
    <3> QED
      BY <3>5
  <2> QED
    BY <2>1, <2>2, <2>3 DEF Owns, Sole
<1> QED
  BY <1>6, <1>7 DEF AllBut

-----------------------------------------------------------------------------
(* Owners in the states of PageManager.                                      *)

HandLabel == {"place", "queue", "rotate_back"}
Caller    == App \cup {FaultThread}

\* The pages that threads have dequeued, and those in the batch.
InHands    == {<<<<t, 0>>, cur[t]>> : t \in {u \in Caller : pc[u] \in HandLabel}}
BatchSlots == {<<<<"page", i>>, batch.page[i]>> : i \in BatchPages} \cup
              {<<<<"next_page", i>>, batch.next[i]>> : i \in BatchNexts}
Hands      == InHands \cup BatchSlots

OwnInv == Running => Exclusive(list, Hands)

\* No slot is mistaken for a place on a list.
LEMMA SlotsApart ==
  /\ \A t : Slot(<<t, 0>>)
  /\ \A i : Slot(<<"page", i>>) /\ Slot(<<"next_page", i>>)
  /\ \A o, p : <<o, p>> \in Hands => Slot(o)
<1>1. ASSUME NEW t PROVE Slot(<<t, 0>>)
  BY DEF Slot
<1>2. "page" \notin List /\ "next_page" \notin List
  BY DEF List, ToList
<1>3. ASSUME NEW i PROVE Slot(<<"page", i>>) /\ Slot(<<"next_page", i>>)
  BY <1>2 DEF Slot
<1>4. ASSUME NEW o, NEW p, <<o, p>> \in Hands PROVE Slot(o)
  <2>1. CASE <<o, p>> \in InHands
    BY <1>1, <2>1 DEF InHands
  <2>2. CASE <<o, p>> \in BatchSlots
    BY <1>3, <2>2 DEF BatchSlots
  <2> QED
    BY <1>4, <2>1, <2>2 DEF Hands
<1> QED
  BY <1>1, <1>3, <1>4

\* The loops over the batch start at one.
LEMMA SlotsFromOne ==
  ASSUME TypeOK, LocalInv
  PROVE  0 \notin BatchPages /\ 0 \notin BatchNexts
<1>1. batch.i \in Nat /\ batch.want \in Nat
  BY SizesAssumption DEF TypeOK, BatchRecord
<1>2. pc[Migrator] \in {"restore", "restore_next"} => batch.i >= 1
  BY <1>1 DEF LocalInv, MigratorOK
<1> QED
  BY <1>1, <1>2 DEF BatchPages, BatchNexts

\* The death of the process ends the obligation.
LEMMA PanicOwn ==
  ASSUME NEW why, why # "none", Panic(why)
  PROVE  OwnInv'
  BY DEF OwnInv, Running, Panic

\* A step that moves no page.
LEMMA QuietOwn ==
  ASSUME OwnInv, panic' = panic, list' = list, InHands' = InHands, BatchSlots' = BatchSlots
  PROVE  OwnInv'
  BY DEF OwnInv, Running, Hands, Exclusive, Sole, Owns

\* The batch is not touched by the other threads.
LEMMA BatchKept ==
  ASSUME batch' = batch, pc'[Migrator] = pc[Migrator]
  PROVE  BatchSlots' = BatchSlots
<1>1. BatchPages' = BatchPages /\ BatchNexts' = BatchNexts
  BY DEF BatchPages, BatchNexts
<1> QED
  BY <1>1 DEF BatchSlots

\* A thread's step that neither takes nor hands over a page.
LEMMA ThreadQuiet ==
  ASSUME TypeOK, OwnInv, NEW t \in Caller, NEW label, panic' = panic, list' = list,
         batch' = batch, pc' = [pc EXCEPT ![t] = label],
         pc[t] \notin HandLabel, label \notin HandLabel,
         \A u \in Caller \ {t} : cur'[u] = cur[u]
  PROVE  OwnInv'
<1> USE ThreadsAssumption DEF Caller, Thread, FaultThread, Migrator
<1>1. /\ \A u \in Caller \ {t} : pc'[u] = pc[u]
      /\ pc'[t] = label /\ pc'[Migrator] = pc[Migrator]
  BY DEF TypeOK
<1>2. InHands' = InHands
  BY <1>1 DEF InHands
<1>3. BatchSlots' = BatchSlots
  BY <1>1, BatchKept
<1> QED
  BY <1>2, <1>3, QuietOwn

\* A thread's step that dequeues a page.
LEMMA ThreadTakes ==
  ASSUME TypeOK, OwnInv, NEW t \in Caller, NEW label, NEW l \in List, panic' = panic,
         batch' = batch, pc' = [pc EXCEPT ![t] = label],
         pc[t] \notin HandLabel, label \in HandLabel,
         list[l] # <<>>, Dequeue(l), cur' = [cur EXCEPT ![t] = Head(list[l])]
  PROVE  OwnInv'
<1> USE ThreadsAssumption DEF Caller, Thread, FaultThread, Migrator
<1> DEFINE h == Head(list[l])
<1>1. /\ \A u \in Caller \ {t} : pc'[u] = pc[u] /\ cur'[u] = cur[u]
      /\ pc'[t] = label /\ pc'[Migrator] = pc[Migrator] /\ cur'[t] = h
  BY DEF TypeOK
<1>2. BatchSlots' = BatchSlots
  BY <1>1, BatchKept
<1>3. InHands' = InHands \cup {<<<<t, 0>>, h>>}
  BY <1>1 DEF InHands
<1>4. Hands' = Hands \cup {<<<<t, 0>>, h>>}
  BY <1>2, <1>3 DEF Hands
<1>5. SUFFICES ASSUME Running PROVE Exclusive(list', Hands')
  BY DEF OwnInv, Running
<1>6. list \in Lists /\ Exclusive(list, Hands)
  BY <1>5 DEF OwnInv, TypeOK, Lists
<1>7. AllBut(list', Hands, h)
  BY <1>6, TakeOff, SlotsApart DEF Dequeue
<1> QED
  BY <1>4, <1>7, Grab

\* A thread's step that enqueues the page it has.
LEMMA ThreadPuts ==
  ASSUME TypeOK, LocalInv, OwnInv, NEW t \in Caller, NEW label, NEW l \in List, panic' = panic,
         batch' = batch, pc' = [pc EXCEPT ![t] = label],
         pc[t] \in HandLabel, label \notin HandLabel, cur[t] \in Page,
         Enqueue(l, cur[t]), \A u \in Caller \ {t} : cur'[u] = cur[u]
  PROVE  OwnInv'
<1> USE ThreadsAssumption DEF Caller, Thread, FaultThread, Migrator
<1> DEFINE h == cur[t]
           s == <<t, 0>>
<1>1. /\ \A u \in Caller \ {t} : pc'[u] = pc[u]
      /\ pc'[t] = label /\ pc'[Migrator] = pc[Migrator]
  BY DEF TypeOK
<1>2. BatchSlots' = BatchSlots
  BY <1>1, BatchKept
<1>3. <<s, h>> \in InHands /\ InHands' = InHands \ {<<s, h>>}
  BY <1>1 DEF InHands
<1>4. <<s, h>> \notin BatchSlots
  BY SlotsFromOne DEF BatchSlots
<1>5. Hands' = Hands \ {<<s, h>>} /\ <<s, h>> \in Hands
  BY <1>2, <1>3, <1>4 DEF Hands
<1>6. SUFFICES ASSUME Running PROVE Exclusive(list', Hands')
  BY DEF OwnInv, Running
<1>7. list \in Lists /\ Exclusive(list, Hands)
  BY <1>6 DEF OwnInv, TypeOK, Lists
<1>8. AllBut(list, Hands', h)
  BY <1>5, <1>7, LetGo, SlotsApart
<1>9. Exclusive([list EXCEPT ![l] = Append(@, h)], Hands')
  BY <1>7, <1>8, PutOn
<1> QED
  BY <1>9 DEF Enqueue

-----------------------------------------------------------------------------
(* The application threads and the fault thread.                             *)

\* Mmap: the region has no pages yet.
LEMMA MmapOwn ==
  ASSUME TypeOK, OwnInv, NEW t \in App, NEW lo, NEW hi, NEW populate,
         Mmap(t, lo, hi, populate)
  PROVE  OwnInv'
<1>1. /\ panic' = panic /\ list' = list /\ batch' = batch /\ UNCHANGED cur
      /\ pc' = [pc EXCEPT ![t] = (IF populate THEN "alloc" ELSE "idle")]
      /\ pc[t] \notin HandLabel /\ (IF populate THEN "alloc" ELSE "idle") \notin HandLabel
  BY DEF Mmap, Goto, HandLabel
<1> QED
  BY <1>1, ThreadQuiet DEF Caller

\* Touch: the thread falls asleep.
LEMMA TouchOwn ==
  ASSUME TypeOK, OwnInv, NEW t \in App, NEW v,
         Touch(t, v)
  PROVE  OwnInv'
<1>1. /\ panic' = panic /\ list' = list /\ batch' = batch /\ UNCHANGED cur
      /\ pc' = [pc EXCEPT ![t] = "faulting"]
      /\ pc[t] \notin HandLabel /\ "faulting" \notin HandLabel
  BY DEF Touch, Goto, HandLabel
<1> QED
  BY <1>1, ThreadQuiet DEF Caller

\* ReadFault: the fault thread only reads a message.
LEMMA ReadFaultOwn ==
  ASSUME TypeOK, OwnInv, NEW t \in App,
         ReadFault(t)
  PROVE  OwnInv'
<1>1. /\ panic' = panic /\ list' = list /\ batch' = batch /\ UNCHANGED cur
      /\ pc' = [pc EXCEPT ![FaultThread] = "alloc"]
      /\ pc[FaultThread] \notin HandLabel /\ "alloc" \notin HandLabel
  BY DEF ReadFault, Goto, HandLabel
<1> QED
  BY <1>1, ThreadQuiet DEF Caller

\* Publish: the page is on its list, the thread only points to it.
LEMMA PublishOwn ==
  ASSUME TypeOK, OwnInv, NEW t \in Caller,
         Publish(t)
  PROVE  OwnInv'
<1>1. /\ panic' = panic /\ list' = list /\ batch' = batch /\ UNCHANGED cur
      /\ pc' = [pc EXCEPT ![t] = "add"]
      /\ pc[t] \notin HandLabel /\ "add" \notin HandLabel
  BY DEF Publish, Goto, HandLabel
<1> QED
  BY <1>1, ThreadQuiet DEF Caller

\* Munmap: the call only starts.
LEMMA MunmapOwn ==
  ASSUME TypeOK, OwnInv, NEW t \in App, NEW lo, NEW hi,
         Munmap(t, lo, hi)
  PROVE  OwnInv'
<1>1. /\ panic' = panic /\ list' = list /\ batch' = batch /\ UNCHANGED cur
      /\ pc' = [pc EXCEPT ![t] = "munmap"]
      /\ pc[t] \notin HandLabel /\ "munmap" \notin HandLabel
  BY DEF Munmap, Goto, HandLabel
<1> QED
  BY <1>1, ThreadQuiet DEF Caller

\* Unmap: mappings are not owners.
LEMMA UnmapOwn ==
  ASSUME TypeOK, OwnInv, NEW t \in App,
         Unmap(t)
  PROVE  OwnInv'
<1>1. /\ panic' = panic /\ list' = list /\ batch' = batch /\ UNCHANGED cur
      /\ pc' = [pc EXCEPT ![t] = "idle"]
      /\ pc[t] \notin HandLabel /\ "idle" \notin HandLabel
  BY DEF Unmap, Goto, HandLabel
<1> QED
  BY <1>1, ThreadQuiet DEF Caller

\* Request: the call only starts.
LEMMA RequestOwn ==
  ASSUME TypeOK, OwnInv, NEW t \in App, NEW to, NEW n, NEW random,
         Request(t, to, n, random)
  PROVE  OwnInv'
<1>1. /\ panic' = panic /\ list' = list /\ batch' = batch /\ UNCHANGED cur
      /\ pc' = [pc EXCEPT ![t] = "request"]
      /\ pc[t] \notin HandLabel /\ "request" \notin HandLabel
  BY DEF Request, Goto, HandLabel
<1> QED
  BY <1>1, ThreadQuiet DEF Caller

\* RequestDone: the call only ends.
LEMMA RequestDoneOwn ==
  ASSUME TypeOK, OwnInv, NEW t \in App,
         RequestDone(t)
  PROVE  OwnInv'
<1>1. /\ panic' = panic /\ list' = list /\ batch' = batch /\ UNCHANGED cur
      /\ pc' = [pc EXCEPT ![t] = "idle"]
      /\ pc[t] \notin HandLabel /\ "idle" \notin HandLabel
  BY DEF RequestDone, Goto, HandLabel
<1> QED
  BY <1>1, ThreadQuiet DEF Caller

\* Map: the page is on its list, the thread only points to it.
LEMMA MapOwn ==
  ASSUME TypeOK, OwnInv, NEW t \in Caller, Map(t)
  PROVE  OwnInv'
<1>1. /\ panic' = panic /\ list' = list /\ batch' = batch /\ UNCHANGED cur
      /\ pc[t] \notin HandLabel
  BY DEF Map, HandLabel
<1>2. pc' = [pc EXCEPT ![t] = "publish"] \/ pc' = [pc EXCEPT ![t] = "count"]
  BY DEF Map, Goto, StartCounting
<1>3. "publish" \notin HandLabel /\ "count" \notin HandLabel
  BY DEF HandLabel
<1> QED
  BY <1>1, <1>2, <1>3, ThreadQuiet

\* AddPage: the table of pages is no owner.
LEMMA AddPageOwn ==
  ASSUME TypeOK, OwnInv, NEW t \in Caller, AddPage(t)
  PROVE  OwnInv'
<1>1. CASE Panic("page already tracked")
  BY <1>1, PanicOwn
<1>2. CASE ~Panic("page already tracked")
  <2> DEFINE label == CASE t = FaultThread -> "wake"
                        [] t # FaultThread /\ call[t].va < call[t].hi -> "alloc"
                        [] OTHER -> "idle"
  <2>1. /\ panic' = panic /\ list' = list /\ batch' = batch
        /\ cur' = [cur EXCEPT ![t] = NoPage] /\ pc' = [pc EXCEPT ![t] = label]
        /\ pc[t] \notin HandLabel
    BY <1>2 DEF AddPage, Goto, HandLabel
  <2>2. label \notin HandLabel
    BY DEF HandLabel
  <2>3. \A u \in Caller \ {t} : cur'[u] = cur[u]
    BY <2>1 DEF TypeOK, Caller, Thread
  <2> QED
    BY <2>1, <2>2, <2>3, ThreadQuiet
<1> QED
  BY <1>1, <1>2

\* Wake: the threads that wake up had no page.
LEMMA WakeOwn ==
  ASSUME TypeOK, OwnInv, Wake
  PROVE  OwnInv'
<1> USE ThreadsAssumption DEF Caller, Thread, FaultThread, Migrator
<1>1. panic' = panic /\ list' = list /\ batch' = batch /\ cur' = cur
  BY DEF Wake
<1>2. \A u \in Caller : pc[u] \in HandLabel <=> pc'[u] \in HandLabel
  BY DEF Wake, HandLabel, WaitsFor
<1>3. InHands' = InHands
  BY <1>1, <1>2 DEF InHands
<1>4. pc'[Migrator] = pc[Migrator] \/ (pc[Migrator] = "faulting" /\ pc'[Migrator] = "idle")
  BY DEF Wake, WaitsFor
<1>5. BatchPages' = BatchPages /\ BatchNexts' = BatchNexts
  BY <1>1, <1>4 DEF BatchPages, BatchNexts
<1>6. BatchSlots' = BatchSlots
  BY <1>1, <1>5 DEF BatchSlots
<1> QED
  BY <1>1, <1>3, <1>6, QuietOwn

\* RemovePage: the page stays on its list.
LEMMA RemovePageOwn ==
  ASSUME TypeOK, OwnInv, NEW t \in App, RemovePage(t)
  PROVE  OwnInv'
<1>1. /\ panic' = panic /\ list' = list /\ batch' = batch
      /\ pc[t] = "munmap"
  BY DEF RemovePage
<1>2. \/ cur' = cur /\ pc' = pc
      \/ /\ \E p \in hashed : cur' = [cur EXCEPT ![t] = p]
         /\ pc' = [pc EXCEPT ![t] = "removed"]
  BY DEF RemovePage, Goto
<1>3. pc = [pc EXCEPT ![t] = "munmap"]
  BY <1>1 DEF TypeOK, Thread
<1>4. \A u \in Caller \ {t} : cur'[u] = cur[u]
  BY <1>2 DEF TypeOK, Caller, Thread
<1>5. "munmap" \notin HandLabel /\ "removed" \notin HandLabel
  BY DEF HandLabel
<1> QED
  BY <1>1, <1>2, <1>3, <1>4, <1>5, ThreadQuiet DEF Caller

\* UncountPage: the page stays on its list.
LEMMA UncountPageOwn ==
  ASSUME TypeOK, OwnInv, NEW t \in App, UncountPage(t)
  PROVE  OwnInv'
<1>1. /\ panic' = panic /\ list' = list /\ batch' = batch
      /\ cur' = [cur EXCEPT ![t] = NoPage] /\ pc' = [pc EXCEPT ![t] = "count"]
      /\ pc[t] \notin HandLabel /\ "count" \notin HandLabel
  BY DEF UncountPage, StartCounting, Goto, HandLabel
<1>2. \A u \in Caller \ {t} : cur'[u] = cur[u]
  BY <1>1 DEF TypeOK, Caller, Thread
<1> QED
  BY <1>1, <1>2, ThreadQuiet DEF Caller

\* Choose: only the number of rotations is set.
LEMMA ChooseOwn ==
  ASSUME TypeOK, OwnInv, NEW t \in App, Choose(t)
  PROVE  OwnInv'
<1>1. CASE Panic("division by zero")
  BY <1>1, PanicOwn
<1>2. CASE ~Panic("division by zero")
  <2>1. /\ panic' = panic /\ list' = list /\ batch' = batch /\ UNCHANGED cur
        /\ pc[t] \notin HandLabel
    BY <1>2 DEF Choose, HandLabel
  <2>2. pc' = [pc EXCEPT ![t] = "take"] \/ pc' = [pc EXCEPT ![t] = "rotate"]
    BY <1>2 DEF Choose, Goto
  <2>3. "take" \notin HandLabel /\ "rotate" \notin HandLabel
    BY DEF HandLabel
  <2> QED
    BY <2>1, <2>2, <2>3, ThreadQuiet DEF Caller
<1> QED
  BY <1>1, <1>2

\* LoadCounter: counters are not owners.
LEMMA LoadCounterOwn ==
  ASSUME TypeOK, OwnInv, NEW t \in Thread, LoadCounter(t)
  PROVE  OwnInv'
<1>1. panic' = panic /\ list' = list /\ batch' = batch /\ pc' = pc /\ cur' = cur
  BY DEF LoadCounter
<1>2. InHands' = InHands /\ BatchSlots' = BatchSlots
  BY <1>1, BatchKept DEF InHands
<1> QED
  BY <1>1, <1>2, QuietOwn

\* StoreCounter: an application thread goes on with its call.
LEMMA StoreCounterOwn ==
  ASSUME TypeOK, OwnInv, NEW t \in App, StoreCounter(t)
  PROVE  OwnInv'
<1> USE ThreadsAssumption DEF Migrator
<1>1. /\ panic' = panic /\ list' = list /\ batch' = batch /\ UNCHANGED cur
      /\ pc[t] = "count"
  BY DEF StoreCounter
<1>2. pc' = pc \/ pc' = [pc EXCEPT ![t] = AfterCounting(t)]
  BY DEF StoreCounter, Goto
<1>3. pc = [pc EXCEPT ![t] = "count"]
  BY <1>1 DEF TypeOK, Thread
<1>4. AfterCounting(t) \notin HandLabel /\ "count" \notin HandLabel
  BY DEF AfterCounting, HandLabel
<1> QED
  BY <1>1, <1>2, <1>3, <1>4, ThreadQuiet DEF Caller

\* Allocate: the page leaves the free list.
LEMMA AllocateOwn ==
  ASSUME TypeOK, OwnInv, NEW t \in Caller, NEW tier \in Tier, Allocate(t, tier)
  PROVE  OwnInv'
<1>1. CASE \E why \in Cause \ {"none"} : Panic(why)
  BY <1>1, PanicOwn
<1>2. CASE ~\E why \in Cause \ {"none"} : Panic(why)
  <2>1. pc[t] \notin HandLabel /\ "alloc_nvm" \notin HandLabel /\ "place" \in HandLabel
    BY DEF Allocate, HandLabel
  <2>2. CASE list[FreeList(tier)] = <<>>
    <3>1. /\ UNCHANGED <<list, cur, batch, panic>>
          /\ pc' = [pc EXCEPT ![t] = "alloc_nvm"]
      BY <1>2, <2>2 DEF Allocate, Goto, Cause
    <3> QED
      BY <2>1, <3>1, ThreadQuiet
  <2>3. CASE list[FreeList(tier)] # <<>>
    <3>1. /\ Dequeue(FreeList(tier)) /\ UNCHANGED <<batch, panic>>
          /\ cur' = [cur EXCEPT ![t] = Head(list[FreeList(tier)])]
          /\ pc' = [pc EXCEPT ![t] = "place"]
      BY <1>2, <2>3 DEF Allocate, Goto, Cause
    <3>2. FreeList(tier) \in List
      BY ListNames
    <3> QED
      BY <2>1, <2>3, <3>1, <3>2, ThreadTakes
  <2> QED
    BY <2>2, <2>3
<1> QED
  BY <1>1, <1>2

\* Rotate: the page leaves the mmap list.
LEMMA RotateOwn ==
  ASSUME TypeOK, OwnInv, NEW t \in App, Rotate(t)
  PROVE  OwnInv'
<1>1. CASE Panic("NULL enqueued")
  BY <1>1, PanicOwn
<1>2. CASE ~Panic("NULL enqueued")
  <2>1. /\ list[From(t)] # <<>> /\ Dequeue(From(t)) /\ UNCHANGED <<batch, panic>>
        /\ cur' = [cur EXCEPT ![t] = Head(list[From(t)])]
        /\ pc' = [pc EXCEPT ![t] = "rotate_back"]
        /\ pc[t] \notin HandLabel /\ "rotate_back" \in HandLabel
    BY <1>2 DEF Rotate, Goto, HandLabel
  <2>2. From(t) \in List
    BY ListNames
  <2> QED
    BY <2>1, <2>2, ThreadTakes DEF Caller
<1> QED
  BY <1>1, <1>2

\* Take: the page leaves the mmap list.
LEMMA TakeOwn ==
  ASSUME TypeOK, OwnInv, NEW t \in App, Take(t)
  PROVE  OwnInv'
<1>1. CASE Panic("mapped page of the wrong kind")
  BY <1>1, PanicOwn
<1>2. CASE ~Panic("mapped page of the wrong kind")
  <2>1. pc[t] \notin HandLabel /\ "request" \notin HandLabel /\ "queue" \in HandLabel
    BY DEF Take, HandLabel
  <2>2. CASE list[From(t)] = <<>>
    <3>1. /\ UNCHANGED <<list, cur, batch, panic>>
          /\ pc' = [pc EXCEPT ![t] = "request"]
      BY <2>2 DEF Take, Goto
    <3> QED
      BY <2>1, <3>1, ThreadQuiet DEF Caller
  <2>3. CASE list[From(t)] # <<>>
    <3>1. /\ Dequeue(From(t)) /\ UNCHANGED <<batch, panic>>
          /\ cur' = [cur EXCEPT ![t] = Head(list[From(t)])]
          /\ pc' = [pc EXCEPT ![t] = "queue"]
      BY <1>2, <2>3 DEF Take, Goto
    <3>2. From(t) \in List
      BY ListNames
    <3> QED
      BY <2>1, <2>3, <3>1, <3>2, ThreadTakes DEF Caller
  <2> QED
    BY <2>2, <2>3
<1> QED
  BY <1>1, <1>2

\* Place: the page goes on its tier's mmap list.
LEMMA PlaceOwn ==
  ASSUME TypeOK, LocalInv, OwnInv, NEW t \in Caller, Place(t)
  PROVE  OwnInv'
<1>1. /\ pc[t] \in HandLabel /\ "map" \notin HandLabel
      /\ pc' = [pc EXCEPT ![t] = "map"] /\ UNCHANGED <<cur, batch, panic>>
      /\ Enqueue(MmapList(TierOf(cur[t])), cur[t])
  BY DEF Place, Goto, HandLabel
<1>2. cur[t] \in Page
  BY DEF Place, LocalInv, AppOK, FaultOK, HoldingLabel, Caller
<1>3. MmapList(TierOf(cur[t])) \in List
  BY ListNames
<1> QED
  BY <1>1, <1>2, <1>3, ThreadPuts

\* RotateBack: the page goes back on the mmap list.
LEMMA RotateBackOwn ==
  ASSUME TypeOK, LocalInv, OwnInv, NEW t \in App, RotateBack(t)
  PROVE  OwnInv'
<1> DEFINE label == IF call[t].choose = 0 THEN "take" ELSE "rotate"
<1>1. /\ pc[t] \in HandLabel /\ label \notin HandLabel
      /\ pc' = [pc EXCEPT ![t] = label] /\ UNCHANGED <<batch, panic>>
      /\ Enqueue(From(t), cur[t]) /\ cur' = [cur EXCEPT ![t] = NoPage]
  BY DEF RotateBack, Goto, HandLabel
<1>2. cur[t] \in Page
  BY DEF RotateBack, LocalInv, AppOK, HoldingLabel
<1>3. From(t) \in List
  BY ListNames
<1>4. \A u \in Caller \ {t} : cur'[u] = cur[u]
  BY <1>1 DEF TypeOK, Caller, Thread
<1> QED
  BY <1>1, <1>2, <1>3, <1>4, ThreadPuts DEF Caller

\* Queue: the page goes on the request list.
LEMMA QueueOwn ==
  ASSUME TypeOK, LocalInv, OwnInv, NEW t \in App, Queue(t)
  PROVE  OwnInv'
<1>1. /\ pc[t] \in HandLabel /\ "count" \notin HandLabel
      /\ pc' = [pc EXCEPT ![t] = "count"] /\ UNCHANGED <<batch, panic>>
      /\ Enqueue(call[t].to, cur[t]) /\ cur' = [cur EXCEPT ![t] = NoPage]
  BY DEF Queue, StartCounting, Goto, HandLabel
<1>2. cur[t] \in Page
  BY DEF Queue, LocalInv, AppOK, HoldingLabel
<1>3. call[t].to \in List
  BY ListNames DEF TypeOK, CallRecord, Thread
<1>4. \A u \in Caller \ {t} : cur'[u] = cur[u]
  BY <1>1 DEF TypeOK, Caller, Thread
<1> QED
  BY <1>1, <1>2, <1>3, <1>4, ThreadPuts DEF Caller

-----------------------------------------------------------------------------
(* The migration thread.                                                     *)

\* Its steps leave the pages of the other threads alone.
LEMMA OthersKeepPages ==
  ASSUME TypeOK, cur' = cur,
         pc' = pc \/ \E label : pc' = [pc EXCEPT ![Migrator] = label]
  PROVE  InHands' = InHands
<1> USE ThreadsAssumption DEF Caller, Thread, FaultThread, Migrator
<1>1. \A u \in Caller : pc'[u] = pc[u]
  BY DEF TypeOK
<1> QED
  BY <1>1 DEF InHands

\* Before its pages are moved, all of the batch is in the thread's hands.
BeforeRestore == {"scan", "take_page", "take_next", "protect", "copy", "remap"}

\* The slots in use before the first page is handed back, and after it.
LEMMA SlotsInUse ==
  /\ pc[Migrator] \in BeforeRestore =>
       BatchPages = 1 .. Len(batch.page) /\ BatchNexts = 1 .. Len(batch.next)
  /\ pc'[Migrator] \in BeforeRestore =>
       BatchPages' = 1 .. Len(batch'.page) /\ BatchNexts' = 1 .. Len(batch'.next)
  /\ pc[Migrator] = "restore" =>
       BatchPages = batch.i .. Len(batch.page) /\ BatchNexts = batch.i .. Len(batch.next)
  /\ pc'[Migrator] = "restore" =>
       BatchPages' = batch'.i .. Len(batch'.page) /\ BatchNexts' = batch'.i .. Len(batch'.next)
  /\ pc[Migrator] = "restore_next" =>
       BatchPages = batch.i + 1 .. Len(batch.page) /\ BatchNexts = batch.i .. Len(batch.next)
  /\ pc'[Migrator] = "restore_next" =>
       BatchPages' = batch'.i + 1 .. Len(batch'.page) /\ BatchNexts' = batch'.i .. Len(batch'.next)
  /\ pc[Migrator] = "count" => BatchPages = {} /\ BatchNexts = {}
  /\ pc'[Migrator] = "count" => BatchPages' = {} /\ BatchNexts' = {}
  BY DEF BatchPages, BatchNexts, BeforeRestore

\* A step that only leads on to the next part of the loop.
LEMMA MigratorQuiet ==
  ASSUME TypeOK, OwnInv, cur' = cur, panic' = panic, list' = list,
         batch'.page = batch.page, batch'.next = batch.next,
         pc[Migrator] \in BeforeRestore,
         pc'[Migrator] \in BeforeRestore \/ (pc'[Migrator] = "restore" /\ batch'.i = 1),
         pc' = pc \/ \E label : pc' = [pc EXCEPT ![Migrator] = label]
  PROVE  OwnInv'
<1>1. InHands' = InHands
  BY OthersKeepPages
<1>2. BatchPages' = BatchPages /\ BatchNexts' = BatchNexts
  BY SlotsInUse
<1>3. BatchSlots' = BatchSlots
  BY <1>2 DEF BatchSlots
<1> QED
  BY <1>1, <1>3, QuietOwn

\* The fields of the batch after an assignment to i.
LEMMA SetIndex ==
  ASSUME TypeOK, NEW n, batch' = [batch EXCEPT !.i = n]
  PROVE  batch'.page = batch.page /\ batch'.next = batch.next /\ batch'.i = n
  BY DEF TypeOK, BatchRecord

\* Scan: the batch is empty, and stays so.
LEMMA ScanOwn ==
  ASSUME TypeOK, LocalInv, OwnInv, Scan
  PROVE  OwnInv'
<1>1. pc[Migrator] = "scan" /\ UNCHANGED <<cur, panic, list>>
  BY DEF Scan
<1>2. batch.page = <<>> /\ batch.next = <<>>
  BY <1>1 DEF LocalInv, MigratorOK, EmptyBatch
<1>3. \/ batch' = EmptyBatch(NextLoop(batch.to)) /\ pc' = pc
      \/ /\ batch' = [batch EXCEPT !.want = AsUnsignedMin(num[batch.to], NUM_BATCHS)]
         /\ pc' = [pc EXCEPT ![Migrator] = "take_page"]
  BY DEF Scan, Goto
<1>4. batch'.page = batch.page /\ batch'.next = batch.next
  BY <1>2, <1>3 DEF EmptyBatch, TypeOK, BatchRecord
<1>5. pc[Migrator] \in BeforeRestore /\ pc'[Migrator] \in BeforeRestore
  BY <1>1, <1>3 DEF BeforeRestore, TypeOK, Thread
<1> QED
  BY <1>1, <1>3, <1>4, <1>5, MigratorQuiet

\* Protect: the page stays in the batch.
LEMMA ProtectOwn ==
  ASSUME TypeOK, LocalInv, OwnInv, Protect
  PROVE  OwnInv'
<1>1. CASE \E why \in Cause \ {"none"} : Panic(why)
  BY <1>1, PanicOwn
<1>2. CASE ~\E why \in Cause \ {"none"} : Panic(why)
  <2> DEFINE label == IF batch.i < batch.want THEN "protect" ELSE "copy"
             n     == IF batch.i < batch.want THEN batch.i + 1 ELSE 1
  <2>1. /\ pc[Migrator] = "protect" /\ UNCHANGED <<cur, panic, list>>
        /\ pc' = [pc EXCEPT ![Migrator] = label] /\ batch' = [batch EXCEPT !.i = n]
    BY <1>2 DEF Protect, LoopOver, Goto, Cause
  <2>2. pc[Migrator] \in BeforeRestore /\ pc'[Migrator] \in BeforeRestore
    BY <2>1 DEF BeforeRestore, TypeOK, Thread
  <2> QED
    BY <2>1, <2>2, SetIndex, MigratorQuiet
<1> QED
  BY <1>1, <1>2

\* Copy: the pages stay in the batch.
LEMMA CopyOwn ==
  ASSUME TypeOK, LocalInv, OwnInv, Copy
  PROVE  OwnInv'
<1>1. CASE \E why \in Cause \ {"none"} : Panic(why)
  BY <1>1, PanicOwn
<1>2. CASE ~\E why \in Cause \ {"none"} : Panic(why)
  <2>1. /\ pc[Migrator] = "copy" /\ UNCHANGED <<cur, panic, list, batch>>
        /\ pc' = [pc EXCEPT ![Migrator] = "remap"]
    BY <1>2 DEF Copy, Goto, Cause
  <2>2. pc[Migrator] \in BeforeRestore /\ pc'[Migrator] \in BeforeRestore
    BY <2>1 DEF BeforeRestore, TypeOK, Thread
  <2> QED
    BY <2>1, <2>2, MigratorQuiet
<1> QED
  BY <1>1, <1>2

\* Remap: the page stays in the batch.
LEMMA RemapOwn ==
  ASSUME TypeOK, LocalInv, OwnInv, Remap
  PROVE  OwnInv'
<1> DEFINE label == IF batch.i < batch.want THEN "remap" ELSE "restore"
           n     == IF batch.i < batch.want THEN batch.i + 1 ELSE 1
<1>1. /\ pc[Migrator] = "remap" /\ UNCHANGED <<cur, panic, list>>
      /\ pc' = [pc EXCEPT ![Migrator] = label] /\ batch' = [batch EXCEPT !.i = n]
  BY DEF Remap, LoopOver, Goto
<1>2. pc[Migrator] \in BeforeRestore /\ pc'[Migrator] = label
  BY <1>1 DEF BeforeRestore, TypeOK, Thread
<1>3. batch'.page = batch.page /\ batch'.next = batch.next /\ batch'.i = n
  BY <1>1, SetIndex
<1>4. pc'[Migrator] \in BeforeRestore \/ (pc'[Migrator] = "restore" /\ batch'.i = 1)
  BY <1>2, <1>3 DEF BeforeRestore
<1> QED
  BY <1>1, <1>2, <1>3, <1>4, MigratorQuiet

\* TakePage: the page goes from the request list to the end of page[].
LEMMA TakePageOwn ==
  ASSUME TypeOK, LocalInv, OwnInv, TakePage
  PROVE  OwnInv'
<1>1. CASE Panic("NULL page")
  BY <1>1, PanicOwn
<1>2. CASE ~Panic("NULL page")
  <2> DEFINE l == batch.to
             h == Head(list[l])
             n == Len(batch.page)
  <2>1. /\ pc[Migrator] = "take_page" /\ UNCHANGED <<cur, panic>>
        /\ list[l] # <<>> /\ Dequeue(l)
        /\ pc' = [pc EXCEPT ![Migrator] = "take_next"]
        /\ batch' = [batch EXCEPT !.page = Append(@, h)]
    BY <1>2 DEF TakePage, Goto
  <2>2. l \in List /\ batch.page \in Seq(Page) /\ n \in Nat
    BY ListNames DEF TypeOK, BatchRecord
  <2>3. batch'.page = Append(batch.page, h) /\ batch'.next = batch.next
    BY <2>1 DEF TypeOK, BatchRecord
  <2>4. InHands' = InHands
    BY <2>1, OthersKeepPages
  <2>5. BatchSlots' = BatchSlots \cup {<<<<"page", n + 1>>, h>>}
    <3>1. pc[Migrator] \in BeforeRestore /\ pc'[Migrator] \in BeforeRestore
      BY <2>1 DEF BeforeRestore, TypeOK, Thread
    <3>2. /\ BatchPages = 1 .. n /\ BatchPages' = 1 .. n + 1 /\ BatchNexts' = BatchNexts
          /\ batch'.page[n + 1] = h /\ \A i \in 1 .. n : batch'.page[i] = batch.page[i]
      BY <2>2, <2>3, <3>1, SlotsInUse
    <3>3. 1 .. n + 1 = (1 .. n) \cup {n + 1}
      BY <2>2
    <3> QED
      BY <2>3, <3>2, <3>3 DEF BatchSlots
  <2>6. SUFFICES ASSUME Running PROVE Exclusive(list', Hands')
    BY <2>1 DEF OwnInv, Running
  <2>7. list \in Lists /\ Exclusive(list, Hands)
    BY <2>6 DEF OwnInv, TypeOK, Lists
  <2>8. AllBut(list', Hands, h)
    BY <2>1, <2>2, <2>7, TakeOff, SlotsApart DEF Dequeue
  <2>9. Hands' = Hands \cup {<<<<"page", n + 1>>, h>>}
    BY <2>4, <2>5 DEF Hands
  <2> QED
    BY <2>8, <2>9, Grab
<1> QED
  BY <1>1, <1>2

\* TakeNext: the page goes from the free list to the end of next_page[].
LEMMA TakeNextOwn ==
  ASSUME TypeOK, LocalInv, OwnInv, TakeNext
  PROVE  OwnInv'
<1>1. CASE Panic("NULL next_page")
  BY <1>1, PanicOwn
<1>2. CASE ~Panic("NULL next_page")
  <2> DEFINE l == FreeList(Target(batch.to))
             h == Head(list[l])
             n == Len(batch.next)
             label == IF Len(batch.page) < batch.want THEN "take_page" ELSE "protect"
  <2>1. /\ pc[Migrator] = "take_next" /\ UNCHANGED <<cur, panic>>
        /\ list[l] # <<>> /\ Dequeue(l)
        /\ pc' = [pc EXCEPT ![Migrator] = label]
        /\ batch' = [batch EXCEPT !.next = Append(@, h),
                                  !.offset = Append(@, pg[h].devdax_offset)]
    BY <1>2 DEF TakeNext, Goto
  <2>2. l \in List /\ batch.next \in Seq(Page) /\ n \in Nat
    BY ListNames DEF TypeOK, BatchRecord
  <2>3. batch'.next = Append(batch.next, h) /\ batch'.page = batch.page
    BY <2>1 DEF TypeOK, BatchRecord
  <2>4. InHands' = InHands
    BY <2>1, OthersKeepPages
  <2>5. BatchSlots' = BatchSlots \cup {<<<<"next_page", n + 1>>, h>>}
    <3>1. pc[Migrator] \in BeforeRestore /\ pc'[Migrator] \in BeforeRestore
      BY <2>1 DEF BeforeRestore, TypeOK, Thread
    <3>2. /\ BatchNexts = 1 .. n /\ BatchNexts' = 1 .. n + 1 /\ BatchPages' = BatchPages
          /\ batch'.next[n + 1] = h /\ \A i \in 1 .. n : batch'.next[i] = batch.next[i]
      BY <2>2, <2>3, <3>1, SlotsInUse
    <3>3. 1 .. n + 1 = (1 .. n) \cup {n + 1}
      BY <2>2
    <3> QED
      BY <2>3, <3>2, <3>3 DEF BatchSlots
  <2>6. SUFFICES ASSUME Running PROVE Exclusive(list', Hands')
    BY <2>1 DEF OwnInv, Running
  <2>7. list \in Lists /\ Exclusive(list, Hands)
    BY <2>6 DEF OwnInv, TypeOK, Lists
  <2>8. AllBut(list', Hands, h)
    BY <2>1, <2>2, <2>7, TakeOff, SlotsApart DEF Dequeue
  <2>9. Hands' = Hands \cup {<<<<"next_page", n + 1>>, h>>}
    BY <2>4, <2>5 DEF Hands
  <2> QED
    BY <2>8, <2>9, Grab
<1> QED
  BY <1>1, <1>2

\* Restore: the page goes from page[i] to the mmap list of its new tier.
LEMMA RestoreOwn ==
  ASSUME TypeOK, LocalInv, OwnInv, Restore
  PROVE  OwnInv'
<1> DEFINE l == MmapList(Target(batch.to))
           i == batch.i
           h == batch.page[i]
           s == <<"page", i>>
<1>1. /\ pc[Migrator] = "restore" /\ UNCHANGED <<cur, panic, batch>>
      /\ Enqueue(l, h) /\ pc' = [pc EXCEPT ![Migrator] = "restore_next"]
  BY DEF Restore, Goto
<1>2. /\ l \in List /\ h \in Page /\ i \in Nat \ {0}
      /\ Len(batch.page) \in Nat /\ i <= Len(batch.page)
  BY <1>1, ListNames, SizesAssumption DEF TypeOK, BatchRecord, LocalInv, MigratorOK
<1>3. InHands' = InHands
  BY <1>1, OthersKeepPages
<1>4. /\ BatchPages = i .. Len(batch.page) /\ BatchPages' = i + 1 .. Len(batch.page)
      /\ BatchNexts' = BatchNexts
  BY <1>1, SlotsInUse DEF TypeOK, Thread
<1>5. i \in BatchPages /\ BatchPages' = BatchPages \ {i}
  BY <1>2, <1>4
<1>6. <<s, h>> \in BatchSlots /\ BatchSlots' = BatchSlots \ {<<s, h>>}
  BY <1>1, <1>4, <1>5 DEF BatchSlots
<1>7. <<s, h>> \notin InHands
  BY <1>2 DEF InHands
<1>8. Hands' = Hands \ {<<s, h>>} /\ <<s, h>> \in Hands
  BY <1>3, <1>6, <1>7 DEF Hands
<1>9. SUFFICES ASSUME Running PROVE Exclusive(list', Hands')
  BY <1>1 DEF OwnInv, Running
<1>10. list \in Lists /\ Exclusive(list, Hands)
  BY <1>9 DEF OwnInv, TypeOK, Lists
<1>11. AllBut(list, Hands', h)
  BY <1>2, <1>8, <1>10, LetGo, SlotsApart
<1>12. Exclusive([list EXCEPT ![l] = Append(@, h)], Hands')
  BY <1>2, <1>10, <1>11, PutOn
<1> QED
  BY <1>1, <1>12 DEF Enqueue

\* RestoreNext: the page goes from next_page[i] to the free list of the tier
\* that page[i] left; after the last one both arrays are empty.
LEMMA RestoreNextOwn ==
  ASSUME TypeOK, LocalInv, OwnInv, RestoreNext
  PROVE  OwnInv'
<1> DEFINE l == FreeList(Source(batch.to))
           i == batch.i
           h == batch.next[i]
           s == <<"next_page", i>>
           label == IF i < batch.want THEN "restore" ELSE "count"
<1>1. /\ pc[Migrator] = "restore_next" /\ UNCHANGED <<cur, panic>>
      /\ Enqueue(l, h) /\ pc' = [pc EXCEPT ![Migrator] = label]
      /\ batch' = [batch EXCEPT !.i = @ + 1]
  BY DEF RestoreNext, StartCounting, Goto
<1>2. /\ l \in List /\ h \in Page /\ i \in Nat \ {0} /\ i <= batch.want
      /\ Len(batch.page) = batch.want /\ Len(batch.next) = batch.want
      /\ batch.want \in Nat
  BY <1>1, ListNames, SizesAssumption DEF TypeOK, BatchRecord, LocalInv, MigratorOK
<1>3. InHands' = InHands
  BY <1>1, OthersKeepPages
<1>4. batch'.page = batch.page /\ batch'.next = batch.next /\ batch'.i = i + 1
  BY <1>1 DEF TypeOK, BatchRecord
<1>5. /\ BatchPages = i + 1 .. batch.want /\ BatchNexts = i .. batch.want
      /\ BatchPages' = BatchPages /\ BatchNexts' = i + 1 .. batch.want
  <2>1. pc'[Migrator] = label
    BY <1>1 DEF TypeOK, Thread
  <2>2. CASE i < batch.want
    BY <1>1, <1>2, <1>4, <2>1, <2>2, SlotsInUse
  <2>3. CASE i = batch.want
    <3>1. i + 1 .. batch.want = {}
      BY <1>2, <2>3
    <3> QED
      BY <1>1, <1>2, <1>4, <2>1, <2>3, <3>1, SlotsInUse
  <2> QED
    BY <1>2, <2>2, <2>3
<1>6. i \in BatchNexts /\ BatchNexts' = BatchNexts \ {i}
  BY <1>2, <1>5
<1>7. <<s, h>> \in BatchSlots /\ BatchSlots' = BatchSlots \ {<<s, h>>}
  BY <1>4, <1>5, <1>6 DEF BatchSlots
<1>8. <<s, h>> \notin InHands
  BY <1>2 DEF InHands
<1>9. Hands' = Hands \ {<<s, h>>} /\ <<s, h>> \in Hands
  BY <1>3, <1>7, <1>8 DEF Hands
<1>10. SUFFICES ASSUME Running PROVE Exclusive(list', Hands')
  BY <1>1 DEF OwnInv, Running
<1>11. list \in Lists /\ Exclusive(list, Hands)
  BY <1>10 DEF OwnInv, TypeOK, Lists
<1>12. AllBut(list, Hands', h)
  BY <1>2, <1>9, <1>11, LetGo, SlotsApart
<1>13. Exclusive([list EXCEPT ![l] = Append(@, h)], Hands')
  BY <1>2, <1>11, <1>12, PutOn
<1> QED
  BY <1>1, <1>13 DEF Enqueue

\* StoreCounter: after the last update the arrays are empty in fact as well.
LEMMA MigratorStoreOwn ==
  ASSUME TypeOK, LocalInv, OwnInv, StoreCounter(Migrator)
  PROVE  OwnInv'
<1>1. pc[Migrator] = "count" /\ UNCHANGED <<cur, panic, list>>
  BY DEF StoreCounter
<1>2. \/ batch' = batch /\ pc' = pc
      \/ batch' = EmptyBatch(batch.to) /\ pc' = [pc EXCEPT ![Migrator] = "scan"]
  BY DEF StoreCounter, Goto, AfterCounting
<1>3. InHands' = InHands
  BY <1>1, <1>2, OthersKeepPages
<1>4. BatchSlots' = BatchSlots
  <2>1. CASE batch' = batch /\ pc' = pc
    BY <2>1, BatchKept
  <2>2. CASE batch' = EmptyBatch(batch.to) /\ pc' = [pc EXCEPT ![Migrator] = "scan"]
    <3>1. pc'[Migrator] = "scan" /\ batch'.page = <<>> /\ batch'.next = <<>>
      BY <2>2 DEF TypeOK, Thread, EmptyBatch
    <3>2. BatchPages' = {} /\ BatchNexts' = {}
      BY <3>1, SlotsInUse DEF BeforeRestore
    <3> QED
      BY <1>1, <3>2, SlotsInUse DEF BatchSlots
  <2> QED
    BY <1>2, <2>1, <2>2
<1> QED
  BY <1>1, <1>3, <1>4, QuietOwn

-----------------------------------------------------------------------------
(* The theorem.                                                              *)

\* At the start every page is on the free list of its tier, in its place.
LEMMA InitOwn == Init => OwnInv
<1> SUFFICES ASSUME Init PROVE Exclusive(list, Hands)
  BY DEF OwnInv
<1>1. Hands = {}
  <2>1. InHands = {}
    BY ThreadsAssumption DEF Init, InHands, HandLabel, Caller, Thread, FaultThread, Migrator
  <2>2. pc[Migrator] = "scan" /\ batch.page = <<>> /\ batch.next = <<>>
    BY ThreadsAssumption DEF Init, Thread, FaultThread, Migrator, EmptyBatch
  <2>3. BatchPages = {} /\ BatchNexts = {}
    BY <2>2, SlotsInUse DEF BeforeRestore
  <2> QED
    BY <2>1, <2>3 DEF Hands, BatchSlots
<1>2. \A tier \in Tier : /\ list[FreeList(tier)] = InitialFrames(tier)
                         /\ FreeList(tier) \in List
  BY ListNames DEF Init, List, ToList, FreeList, InitialFrames, Tier
<1>3. \A l \in List : (\A tier \in Tier : l # FreeList(tier)) => list[l] = <<>>
  BY DEF Init, List, ToList, FreeList, Tier
<1>4. ASSUME NEW tier \in Tier
      PROVE  /\ FramesIn(tier) \in Nat /\ Len(InitialFrames(tier)) = FramesIn(tier)
             /\ \A j \in 1 .. FramesIn(tier) : InitialFrames(tier)[j] = <<tier, j - 1>>
  <2>1. FramesIn(tier) \in Nat
    BY SizesAssumption DEF FramesIn
  <2> QED
    BY <2>1 DEF InitialFrames
<1>5. ASSUME NEW tier \in Tier, NEW i \in 0 .. FramesIn(tier) - 1
      PROVE  Sole(list, Hands, <<FreeList(tier), i + 1>>, <<tier, i>>)
  <2>1. /\ i + 1 \in 1 .. Len(list[FreeList(tier)])
        /\ list[FreeList(tier)][i + 1] = <<tier, i>>
    BY <1>2, <1>4
  <2>2. Owns(list, Hands, <<FreeList(tier), i + 1>>, <<tier, i>>)
    BY <1>2, <2>1 DEF Owns
  <2>3. ASSUME NEW x, Owns(list, Hands, x, <<tier, i>>)
        PROVE  x = <<FreeList(tier), i + 1>>
    <3>1. PICK l \in List : \E j \in 1 .. Len(list[l]) : x = <<l, j>> /\ list[l][j] = <<tier, i>>
      BY <1>1, <2>3 DEF Owns
    <3>2. PICK j \in 1 .. Len(list[l]) : x = <<l, j>> /\ list[l][j] = <<tier, i>>
      BY <3>1
    <3>3. PICK other \in Tier : l = FreeList(other)
      BY <1>3, <3>2
    <3>4. list[l] = InitialFrames(other) /\ j \in 1 .. FramesIn(other)
      BY <1>2, <1>4, <3>2, <3>3
    <3>5. list[l][j] = <<other, j - 1>> /\ j \in Nat
      BY <1>4, <3>4
    <3>6. other = tier /\ j = i + 1
      BY <3>2, <3>5
    <3> QED
      BY <3>2, <3>3, <3>6
  <2> QED
    BY <2>2, <2>3 DEF Sole
<1>6. ASSUME NEW p \in Page PROVE \E o : Sole(list, Hands, o, p)
  <2>1. \E tier \in Tier : \E i \in 0 .. FramesIn(tier) - 1 : p = <<tier, i>>
    BY DEF Page, Tier, FramesIn
  <2> QED
    BY <1>5, <2>1
<1> QED
  BY <1>6 DEF Exclusive

\* An allocation moves a page from the free list to the mmap list.
LEMMA AllocationOwn ==
  ASSUME TypeOK, LocalInv, OwnInv, NEW t \in Caller, Allocation(t)
  PROVE  OwnInv'
<1>1. "dram" \in Tier /\ "nvm" \in Tier
  BY DEF Tier
<1> QED
  BY <1>1, AllocateOwn, PlaceOwn, MapOwn, PublishOwn, AddPageOwn DEF Allocation

\* Every step preserves the ownership.
LEMMA NextOwn ==
  ASSUME TypeOK, LocalInv, OwnInv, [Next]_vars
  PROVE  OwnInv'
<1>1. ASSUME NEW t \in App, Calls(t) PROVE OwnInv'
  BY <1>1, MmapOwn, TouchOwn, MunmapOwn, RequestOwn DEF Calls
<1>2. ASSUME NEW t \in App, AppStep(t) PROVE OwnInv'
  BY <1>2, AllocationOwn, LoadCounterOwn, StoreCounterOwn, RemovePageOwn, UncountPageOwn,
     UnmapOwn, ChooseOwn, RotateOwn, RotateBackOwn, TakeOwn, QueueOwn, RequestDoneOwn
  DEF AppStep, Counting, Caller, Thread
<1>3. ASSUME FaultStep PROVE OwnInv'
  BY <1>3, ReadFaultOwn, AllocationOwn, WakeOwn DEF FaultStep, Caller
<1>4. ASSUME MigratorStep PROVE OwnInv'
  BY <1>4, ScanOwn, TakePageOwn, TakeNextOwn, ProtectOwn, CopyOwn, RemapOwn, RestoreOwn,
     RestoreNextOwn, LoadCounterOwn, MigratorStoreOwn
  DEF MigratorStep, Counting, Thread
<1>5. CASE UNCHANGED vars
  <2>1. panic' = panic /\ list' = list /\ batch' = batch /\ pc' = pc /\ cur' = cur
    BY <1>5 DEF vars
  <2>2. InHands' = InHands /\ BatchSlots' = BatchSlots
    BY <2>1, BatchKept DEF InHands
  <2> QED
    BY <2>1, <2>2, QuietOwn
<1> QED
  BY <1>1, <1>2, <1>3, <1>4, <1>5 DEF Next

\* The set of owners of module PageManager has one element.
LEMMA OneOwner ==
  ASSUME TypeOK, OwnInv
  PROVE  Ownership
<1> SUFFICES ASSUME Running, NEW p \in Page PROVE Cardinality(Owners(p)) = 1
  BY DEF Ownership
<1>1. \A l \in List : DOMAIN list[l] = 1 .. Len(list[l])
  BY DEF TypeOK
<1>2. \A x : x \in Owners(p) <=> Owns(list, Hands, x, p)
  <2>1. ASSUME NEW x
        PROVE  <<x, p>> \in InHands <=>
                 \E t \in App \cup {FaultThread} :
                   pc[t] \in {"place", "queue", "rotate_back"} /\ cur[t] = p /\ x = <<t, 0>>
    BY DEF InHands, HandLabel, Caller
  <2>2. ASSUME NEW x
        PROVE  <<x, p>> \in BatchSlots <=>
                 \/ \E i \in BatchPages : batch.page[i] = p /\ x = <<"page", i>>
                 \/ \E i \in BatchNexts : batch.next[i] = p /\ x = <<"next_page", i>>
    BY DEF BatchSlots
  <2>3. ASSUME NEW x
        PROVE  x \in Owners(p) <=>
                 \/ \E l \in List : \E i \in DOMAIN list[l] : x = <<l, i>> /\ list[l][i] = p
                 \/ \E t \in App \cup {FaultThread} :
                      pc[t] \in {"place", "queue", "rotate_back"} /\ cur[t] = p /\ x = <<t, 0>>
                 \/ \E i \in BatchPages : batch.page[i] = p /\ x = <<"page", i>>
                 \/ \E i \in BatchNexts : batch.next[i] = p /\ x = <<"next_page", i>>
    <3> DEFINE A == UNION {{<<l, i>> : i \in {j \in DOMAIN list[l] : list[l][j] = p}} : l \in List}
               B == {<<t, 0>> : t \in {u \in App \cup {FaultThread} :
                                  pc[u] \in {"place", "queue", "rotate_back"} /\ cur[u] = p}}
               C == {<<"page", i>> : i \in {j \in BatchPages : batch.page[j] = p}}
               D == {<<"next_page", i>> : i \in {j \in BatchNexts : batch.next[j] = p}}
    <3>1. x \in A <=> \E l \in List : \E i \in DOMAIN list[l] : x = <<l, i>> /\ list[l][i] = p
      OBVIOUS
    <3>2. x \in B <=> \E t \in App \cup {FaultThread} :
                        pc[t] \in {"place", "queue", "rotate_back"} /\ cur[t] = p /\ x = <<t, 0>>
      OBVIOUS
    <3>3. x \in C <=> \E i \in BatchPages : batch.page[i] = p /\ x = <<"page", i>>
      OBVIOUS
    <3>4. x \in D <=> \E i \in BatchNexts : batch.next[i] = p /\ x = <<"next_page", i>>
      OBVIOUS
    <3>5. Owners(p) = A \cup B \cup C \cup D
      BY DEF Owners
    <3> HIDE DEF A, B, C, D
    <3> QED
      BY <3>1, <3>2, <3>3, <3>4, <3>5
  <2> QED
    BY <1>1, <2>1, <2>2, <2>3 DEF Owns, Hands
<1>3. PICK o : Sole(list, Hands, o, p)
  BY DEF OwnInv, Exclusive
<1>4. Owners(p) = {o}
  BY <1>2, <1>3 DEF Sole
<1> QED
  BY <1>4, FS_Singleton

\* However allocations, requests and migrations interleave, no page struct is
\* lost, linked twice or in two hands.
THEOREM EveryPageHasOneOwner == Spec => []Ownership
<1>1. Init => TypeOK /\ LocalInv /\ OwnInv
  BY InitLocal, InitOwn
<1>2. TypeOK /\ LocalInv /\ OwnInv /\ [Next]_vars => (TypeOK /\ LocalInv /\ OwnInv)'
  BY NextLocal, NextOwn
<1>3. TypeOK /\ LocalInv /\ OwnInv => Ownership
  BY OneOwner
<1> QED
  BY <1>1, <1>2, <1>3, PTL DEF Spec

-----------------------------------------------------------------------------
(* Flags: the inductive invariant.                                          *)

TierOfList(l) == IF l \in ToList THEN Source(l)
                 ELSE IF l \in {"dram_free_list", "dram_mmap_list"} THEN "dram"
                 ELSE "nvm"
FreeLists == {"dram_free_list", "nvm_free_list"}

\* With the page structs g, page p may be on list l.
Fits(g, p, l) == /\ (IF g[p].in_dram THEN "dram" ELSE "nvm") = TierOfList(l)
                 /\ g[p].present <=> l \notin FreeLists

\* Every page fits its list.
AllFit(L, g) == \A l \in List : \A i \in 1 .. Len(L[l]) : Fits(g, L[l][i], l)

\* What a thread knows of the page it has dequeued.
HandOK(t) ==
  /\ pc[t] = "place" => ~pg[cur[t]].present
  /\ pc[t] = "queue" => Fits(pg, cur[t], call[t].to)
  /\ pc[t] = "rotate_back" => Fits(pg, cur[t], From(t))

\* The first batch.i - 1 pages have been remapped; then the freed entries
\* follow, one by one.
PageOK(i) == Fits(pg, batch.page[i],
                  IF pc[Migrator] \in {"restore", "restore_next"}
                     \/ (pc[Migrator] = "remap" /\ i < batch.i)
                  THEN MmapList(Target(batch.to)) ELSE batch.to)
NextOK(i) == Fits(pg, batch.next[i],
                  IF pc[Migrator] = "restore_next" /\ i = batch.i
                  THEN FreeList(Source(batch.to)) ELSE FreeList(Target(batch.to)))

BatchOK == (\A i \in BatchPages : PageOK(i)) /\ (\A i \in BatchNexts : NextOK(i))

WrongKind == {"free page of the wrong kind", "mapped page of the wrong kind",
              "page in the wrong tier"}

KindInv == /\ AllFit(list, pg)
           /\ Running => (\A t \in Caller : HandOK(t)) /\ BatchOK
           /\ panic \notin WrongKind

-----------------------------------------------------------------------------
(* Lists and flags in general.                                               *)

\* The lists of a tier and the request lists suit the pages of that tier.
LEMMA ListKinds ==
  /\ \A tier \in Tier : /\ TierOfList(FreeList(tier)) = tier /\ FreeList(tier) \in FreeLists
                        /\ TierOfList(MmapList(tier)) = tier /\ MmapList(tier) \notin FreeLists
  /\ \A to \in ToList : TierOfList(to) = Source(to) /\ to \notin FreeLists
  BY DEF TierOfList, FreeLists, FreeList, MmapList, ToList, Tier

\* The flags of page p are the same.
Kept(g, f, p) == f[p].in_dram = g[p].in_dram /\ f[p].present = g[p].present

\* A page whose flags are the same fits where it did.
LEMMA KeptFits ==
  ASSUME NEW g, NEW f, NEW p, NEW l, Kept(g, f, p), Fits(g, p, l)
  PROVE  Fits(f, p, l)
  BY DEF Kept, Fits

\* Flags that are written are those of a page that is on no list.
LEMMA KeptAllFit ==
  ASSUME NEW L \in Lists, NEW g, NEW f, AllFit(L, g),
         \A l \in List : \A i \in 1 .. Len(L[l]) : Kept(g, f, L[l][i])
  PROVE  AllFit(L, f)
  BY KeptFits DEF AllFit

\* Dequeuing leaves the rest of the list where it was.
LEMMA DequeueFits ==
  ASSUME NEW L \in Lists, NEW g, NEW l \in List, L[l] # <<>>, AllFit(L, g)
  PROVE  AllFit([L EXCEPT ![l] = Tail(@)], g) /\ Fits(g, Head(L[l]), l)
<1> DEFINE M == [L EXCEPT ![l] = Tail(@)]
           n == Len(L[l])
<1>1. /\ L[l] \in Seq(Page) /\ n \in Nat \ {0}
      /\ M[l] = Tail(L[l]) /\ \A m \in List \ {l} : M[m] = L[m]
  BY EmptySeq, HeadTailProperties DEF Lists
<1>2. Len(Tail(L[l])) = n - 1 /\ Head(L[l]) = L[l][1]
  BY <1>1, HeadTailProperties
<1>3. \A i \in 1 .. n - 1 : Tail(L[l])[i] = L[l][i + 1]
  BY <1>1, <1>2, HeadTailProperties
<1>4. ASSUME NEW m \in List, NEW i \in 1 .. Len(M[m])
      PROVE  Fits(g, M[m][i], m)
  <2>1. CASE m = l
    <3>0. i \in 1 .. n - 1
      BY <1>1, <1>2, <2>1
    <3>1. i + 1 \in 1 .. n /\ Tail(L[l])[i] = L[l][i + 1]
      BY <1>1, <1>3, <3>0
    <3>2. Fits(g, L[l][i + 1], l)
      BY <3>1 DEF AllFit
    <3> HIDE DEF M
    <3> QED
      BY <1>1, <2>1, <3>1, <3>2
  <2>2. CASE m # l
    <3>1. M[m] = L[m] /\ i \in 1 .. Len(L[m])
      BY <1>1, <2>2
    <3> QED
      BY <3>1 DEF AllFit
  <2> QED
    BY <2>1, <2>2
<1>5. Fits(g, L[l][1], l)
  BY <1>1 DEF AllFit
<1> QED
  BY <1>2, <1>4, <1>5 DEF AllFit

\* Enqueuing a page that fits keeps every page where it fits.
LEMMA EnqueueFits ==
  ASSUME NEW L \in Lists, NEW g, NEW l \in List, NEW h \in Page, AllFit(L, g), Fits(g, h, l)
  PROVE  AllFit([L EXCEPT ![l] = Append(@, h)], g)
<1> DEFINE M == [L EXCEPT ![l] = Append(@, h)]
           n == Len(L[l])
<1>1. /\ L[l] \in Seq(Page) /\ n \in Nat
      /\ M[l] = Append(L[l], h) /\ \A m \in List \ {l} : M[m] = L[m]
  BY DEF Lists
<1>2. /\ Len(M[l]) = n + 1 /\ M[l][n + 1] = h
      /\ \A i \in 1 .. n : M[l][i] = L[l][i]
  BY <1>1
<1>3. ASSUME NEW m \in List, NEW i \in 1 .. Len(M[m])
      PROVE  Fits(g, M[m][i], m)
  <2>1. CASE m = l /\ i = n + 1
    BY <1>2, <2>1
  <2>2. CASE ~(m = l /\ i = n + 1)
    <3>1. i \in 1 .. Len(L[m]) /\ M[m][i] = L[m][i]
      BY <1>1, <1>2, <2>2
    <3> QED
      BY <3>1 DEF AllFit
  <2> QED
    BY <2>1, <2>2
<1> QED
  BY <1>3 DEF AllFit

-----------------------------------------------------------------------------
(* Steps in general.                                                         *)

\* The death of the process, unless it is by the flags.
LEMMA PanicKind ==
  ASSUME KindInv, NEW why, why # "none", why \notin WrongKind, Panic(why)
  PROVE  KindInv'
  BY DEF KindInv, AllFit, Panic, Running

\* A thread that did not move knows what it knew.
LEMMA HandKept ==
  ASSUME TypeOK, LocalInv, NEW u \in Caller, HandOK(u),
         pc'[u] = pc[u] /\ cur'[u] = cur[u] /\ call'[u] = call[u],
         pc[u] \in HandLabel => Kept(pg, pg', cur[u])
  PROVE  HandOK(u)'
<1>1. From(u)' = From(u)
  BY DEF From
<1> QED
  BY <1>1, KeptFits DEF HandOK, HandLabel, Kept

\* The batch is as it was.
LEMMA BatchKeptOK ==
  ASSUME BatchOK, batch' = batch, pc'[Migrator] = pc[Migrator],
         \A i \in BatchPages : Kept(pg, pg', batch.page[i]),
         \A i \in BatchNexts : Kept(pg, pg', batch.next[i])
  PROVE  BatchOK'
<1>1. BatchPages' = BatchPages /\ BatchNexts' = BatchNexts
  BY DEF BatchPages, BatchNexts
<1>2. ASSUME NEW i \in BatchPages PROVE PageOK(i)'
  BY KeptFits DEF BatchOK, PageOK
<1>3. ASSUME NEW i \in BatchNexts PROVE NextOK(i)'
  BY KeptFits DEF BatchOK, NextOK
<1> QED
  BY <1>1, <1>2, <1>3 DEF BatchOK

\* The slots in use are filled.
LEMMA SlotsArePages ==
  ASSUME TypeOK, LocalInv
  PROVE  /\ \A i \in BatchPages : i \in 1 .. Len(batch.page) /\ batch.page[i] \in Page
         /\ \A i \in BatchNexts : i \in 1 .. Len(batch.next) /\ batch.next[i] \in Page
<1>1. /\ batch.i \in Nat /\ batch.want \in Nat
      /\ batch.page \in Seq(Page) /\ batch.next \in Seq(Page)
  BY SizesAssumption DEF TypeOK, BatchRecord
<1>2. pc[Migrator] \in {"restore", "restore_next"} => batch.i >= 1
  BY <1>1 DEF LocalInv, MigratorOK
<1>3. /\ \A i \in BatchPages : i \in 1 .. Len(batch.page)
      /\ \A i \in BatchNexts : i \in 1 .. Len(batch.next)
  BY <1>1, <1>2 DEF BatchPages, BatchNexts
<1> QED
  BY <1>1, <1>3

\* A thread's step that writes no flags.
LEMMA ThreadKind ==
  ASSUME TypeOK, LocalInv, KindInv, NEW t \in Caller, \A p \in Page : Kept(pg, pg', p),
         panic' = panic, batch' = batch, pc'[Migrator] = pc[Migrator],
         \A u \in Caller \ {t} : pc'[u] = pc[u] /\ cur'[u] = cur[u] /\ call'[u] = call[u],
         AllFit(list', pg), HandOK(t)', list' \in Lists
  PROVE  KindInv'
<1>1. AllFit(list', pg')
  BY KeptAllFit DEF Lists
<1>2. panic' \notin WrongKind
  BY DEF KindInv
<1>3. SUFFICES ASSUME Running PROVE (\A u \in Caller : HandOK(u)') /\ BatchOK'
  BY <1>1, <1>2 DEF KindInv, Running
<1>4. ASSUME NEW u \in Caller PROVE HandOK(u)'
  <2>1. pc[u] \in HandLabel => cur[u] \in Page
    BY DEF LocalInv, AppOK, FaultOK, HandLabel, HoldingLabel, Caller
  <2>2. CASE u = t
    BY <2>2
  <2>3. CASE u # t
    BY <1>3, <2>1, <2>3, HandKept DEF KindInv
  <2> QED
    BY <2>2, <2>3
<1>5. BatchOK'
  BY <1>3, SlotsArePages, BatchKeptOK DEF KindInv
<1> QED
  BY <1>4, <1>5

-----------------------------------------------------------------------------
(* The application threads and the fault thread.                             *)

\* A thread's step that takes, hands over and writes no page.
LEMMA QuietKind ==
  ASSUME TypeOK, LocalInv, KindInv, NEW t \in Caller, UNCHANGED <<panic, list, batch, pg>>,
         \A u \in Thread \ {t} : pc'[u] = pc[u] /\ cur'[u] = cur[u] /\ call'[u] = call[u],
         pc'[t] \notin HandLabel
  PROVE  KindInv'
<1> USE ThreadsAssumption DEF Caller, Thread, FaultThread, Migrator
<1>1. /\ \A p \in Page : Kept(pg, pg', p)
      /\ AllFit(list', pg) /\ list' \in Lists /\ HandOK(t)'
  BY DEF Kept, KindInv, TypeOK, Lists, HandOK, HandLabel
<1> QED
  BY <1>1, ThreadKind

\* Mmap: no page is concerned.
LEMMA MmapKind ==
  ASSUME TypeOK, LocalInv, KindInv, NEW t \in App, NEW lo, NEW hi, NEW populate,
         Mmap(t, lo, hi, populate)
  PROVE  KindInv'
<1>1. /\ UNCHANGED <<panic, list, batch, pg>>
      /\ \A u \in Thread \ {t} : pc'[u] = pc[u] /\ cur'[u] = cur[u] /\ call'[u] = call[u]
      /\ pc'[t] \in {"alloc", "idle"}
  BY DEF Mmap, Goto, TypeOK, Thread
<1> QED
  BY <1>1, QuietKind DEF Caller, HandLabel

\* Touch: no page is concerned.
LEMMA TouchKind ==
  ASSUME TypeOK, LocalInv, KindInv, NEW t \in App, NEW v,
         Touch(t, v)
  PROVE  KindInv'
<1>1. /\ UNCHANGED <<panic, list, batch, pg>>
      /\ \A u \in Thread \ {t} : pc'[u] = pc[u] /\ cur'[u] = cur[u] /\ call'[u] = call[u]
      /\ pc'[t] \in {"faulting"}
  BY DEF Touch, Goto, TypeOK, Thread
<1> QED
  BY <1>1, QuietKind DEF Caller, HandLabel

\* ReadFault: no page is concerned.
LEMMA ReadFaultKind ==
  ASSUME TypeOK, LocalInv, KindInv, NEW t \in App,
         ReadFault(t)
  PROVE  KindInv'
<1>1. /\ UNCHANGED <<panic, list, batch, pg>>
      /\ \A u \in Thread \ {FaultThread} : pc'[u] = pc[u] /\ cur'[u] = cur[u] /\ call'[u] = call[u]
      /\ pc'[FaultThread] \in {"alloc"}
  BY DEF ReadFault, Goto, TypeOK, Thread
<1> QED
  BY <1>1, QuietKind DEF Caller, HandLabel

\* Map: the flags are only read.
LEMMA MapKind ==
  ASSUME TypeOK, LocalInv, KindInv, NEW t \in Caller,
         Map(t)
  PROVE  KindInv'
<1>1. /\ UNCHANGED <<panic, list, batch, pg>>
      /\ \A u \in Thread \ {t} : pc'[u] = pc[u] /\ cur'[u] = cur[u] /\ call'[u] = call[u]
      /\ pc'[t] \in {"publish", "count"}
  BY DEF Map, Goto, TypeOK, Thread, StartCounting, Caller
<1> QED
  BY <1>1, QuietKind DEF Caller, HandLabel

\* Munmap: no page is concerned.
LEMMA MunmapKind ==
  ASSUME TypeOK, LocalInv, KindInv, NEW t \in App, NEW lo, NEW hi,
         Munmap(t, lo, hi)
  PROVE  KindInv'
<1>1. /\ UNCHANGED <<panic, list, batch, pg>>
      /\ \A u \in Thread \ {t} : pc'[u] = pc[u] /\ cur'[u] = cur[u] /\ call'[u] = call[u]
      /\ pc'[t] \in {"munmap"}
  BY DEF Munmap, Goto, TypeOK, Thread
<1> QED
  BY <1>1, QuietKind DEF Caller, HandLabel

\* RemovePage: the table of pages has no flags.
LEMMA RemovePageKind ==
  ASSUME TypeOK, LocalInv, KindInv, NEW t \in App,
         RemovePage(t)
  PROVE  KindInv'
<1>1. /\ UNCHANGED <<panic, list, batch, pg>>
      /\ \A u \in Thread \ {t} : pc'[u] = pc[u] /\ cur'[u] = cur[u] /\ call'[u] = call[u]
      /\ pc'[t] \in {"munmap", "removed"}
  BY DEF RemovePage, Goto, TypeOK, Thread
<1> QED
  BY <1>1, QuietKind DEF Caller, HandLabel

\* UncountPage: the flags are only read.
LEMMA UncountPageKind ==
  ASSUME TypeOK, LocalInv, KindInv, NEW t \in App,
         UncountPage(t)
  PROVE  KindInv'
<1>1. /\ UNCHANGED <<panic, list, batch, pg>>
      /\ \A u \in Thread \ {t} : pc'[u] = pc[u] /\ cur'[u] = cur[u] /\ call'[u] = call[u]
      /\ pc'[t] \in {"count"}
  BY DEF UncountPage, Goto, TypeOK, Thread, StartCounting
<1> QED
  BY <1>1, QuietKind DEF Caller, HandLabel

\* Unmap: no page is concerned.
LEMMA UnmapKind ==
  ASSUME TypeOK, LocalInv, KindInv, NEW t \in App,
         Unmap(t)
  PROVE  KindInv'
<1>1. /\ UNCHANGED <<panic, list, batch, pg>>
      /\ \A u \in Thread \ {t} : pc'[u] = pc[u] /\ cur'[u] = cur[u] /\ call'[u] = call[u]
      /\ pc'[t] \in {"idle"}
  BY DEF Unmap, Goto, TypeOK, Thread
<1> QED
  BY <1>1, QuietKind DEF Caller, HandLabel

\* Request: no page is concerned.
LEMMA RequestKind ==
  ASSUME TypeOK, LocalInv, KindInv, NEW t \in App, NEW to, NEW n, NEW random,
         Request(t, to, n, random)
  PROVE  KindInv'
<1>1. /\ UNCHANGED <<panic, list, batch, pg>>
      /\ \A u \in Thread \ {t} : pc'[u] = pc[u] /\ cur'[u] = cur[u] /\ call'[u] = call[u]
      /\ pc'[t] \in {"request"}
  BY DEF Request, Goto, TypeOK, Thread
<1> QED
  BY <1>1, QuietKind DEF Caller, HandLabel

\* RequestDone: no page is concerned.
LEMMA RequestDoneKind ==
  ASSUME TypeOK, LocalInv, KindInv, NEW t \in App,
         RequestDone(t)
  PROVE  KindInv'
<1>1. /\ UNCHANGED <<panic, list, batch, pg>>
      /\ \A u \in Thread \ {t} : pc'[u] = pc[u] /\ cur'[u] = cur[u] /\ call'[u] = call[u]
      /\ pc'[t] \in {"idle"}
  BY DEF RequestDone, Goto, TypeOK, Thread
<1> QED
  BY <1>1, QuietKind DEF Caller, HandLabel

\* StoreCounter: counters have no flags.
LEMMA StoreCounterKind ==
  ASSUME TypeOK, LocalInv, KindInv, NEW t \in App, StoreCounter(t)
  PROVE  KindInv'
<1> USE ThreadsAssumption DEF Migrator
<1>1. UNCHANGED <<panic, list, batch, pg, cur, call>> /\ pc[t] = "count"
  BY DEF StoreCounter
<1>2. pc' = pc \/ pc' = [pc EXCEPT ![t] = AfterCounting(t)]
  BY DEF StoreCounter, Goto
<1>3. AfterCounting(t) \notin HandLabel /\ "count" \notin HandLabel
  BY DEF AfterCounting, HandLabel
<1>4. (\A u \in Thread \ {t} : pc'[u] = pc[u]) /\ pc'[t] \notin HandLabel
  BY <1>1, <1>2, <1>3 DEF TypeOK, Thread
<1> QED
  BY <1>1, <1>4, QuietKind DEF Caller

\* Publish: the address is not a flag.
LEMMA PublishKind ==
  ASSUME TypeOK, LocalInv, KindInv, NEW t \in Caller, Publish(t)
  PROVE  KindInv'
<1> USE ThreadsAssumption DEF Caller, Thread, FaultThread, Migrator
<1>1. /\ UNCHANGED <<panic, list, batch, cur, call>>
      /\ pg' = [pg EXCEPT ![cur[t]].va = call[t].va] /\ pc' = [pc EXCEPT ![t] = "add"]
  BY DEF Publish, Goto
<1>2. \A p \in Page : Kept(pg, pg', p)
  BY <1>1 DEF Kept, TypeOK, PageRecord
<1>3. AllFit(list', pg) /\ list' \in Lists /\ HandOK(t)'
  BY <1>1 DEF KindInv, TypeOK, Lists, HandOK
<1> QED
  BY <1>1, <1>2, <1>3, ThreadKind DEF TypeOK

\* AddPage: the table of pages has no flags.
LEMMA AddPageKind ==
  ASSUME TypeOK, LocalInv, KindInv, NEW t \in Caller, AddPage(t)
  PROVE  KindInv'
<1>1. CASE Panic("page already tracked")
  BY <1>1, PanicKind DEF WrongKind
<1>2. CASE ~Panic("page already tracked")
  <2>1. /\ UNCHANGED <<panic, list, batch, pg>>
        /\ \A u \in Thread \ {t} : pc'[u] = pc[u] /\ cur'[u] = cur[u] /\ call'[u] = call[u]
        /\ pc'[t] \in {"wake", "alloc", "idle"}
    BY <1>2 DEF AddPage, Goto, TypeOK, Thread, Caller
  <2> QED
    BY <2>1, QuietKind DEF HandLabel
<1> QED
  BY <1>1, <1>2

\* Wake: the threads that wake up have no page.
LEMMA WakeKind ==
  ASSUME TypeOK, LocalInv, KindInv, Wake
  PROVE  KindInv'
<1> USE ThreadsAssumption DEF Caller, Thread, FaultThread, Migrator
<1>1. UNCHANGED <<panic, list, batch, pg, cur, call>>
  BY DEF Wake
<1>2. \A u \in Caller : pc'[u] = pc[u] \/ pc'[u] \in {"poll", "idle"}
  BY DEF Wake
<1>3. \A u \in Caller : HandOK(u) => HandOK(u)'
  BY <1>1, <1>2 DEF HandOK, From
<1>4. pc'[Migrator] = pc[Migrator]
  BY DEF Wake, WaitsFor, LocalInv, MigratorOK, MigratorLabel
<1>5. BatchOK => BatchOK'
  BY <1>1, <1>4, BatchKeptOK DEF Kept
<1> QED
  BY <1>1, <1>3, <1>5 DEF KindInv, Running

\* Choose: only the number of rotations is set.
LEMMA ChooseKind ==
  ASSUME TypeOK, LocalInv, KindInv, NEW t \in App, Choose(t)
  PROVE  KindInv'
<1>1. CASE Panic("division by zero")
  BY <1>1, PanicKind DEF WrongKind
<1>2. CASE ~Panic("division by zero")
  <2>1. /\ UNCHANGED <<panic, list, batch, pg>>
        /\ \A u \in Thread \ {t} : pc'[u] = pc[u] /\ cur'[u] = cur[u] /\ call'[u] = call[u]
        /\ pc'[t] \in {"take", "rotate"}
    BY <1>2 DEF Choose, Goto, TypeOK, Thread
  <2> QED
    BY <2>1, QuietKind DEF HandLabel, Caller
<1> QED
  BY <1>1, <1>2

\* LoadCounter: counters have no flags.
LEMMA LoadCounterKind ==
  ASSUME TypeOK, LocalInv, KindInv, NEW t \in Thread, LoadCounter(t)
  PROVE  KindInv'
<1>1. UNCHANGED <<panic, list, batch, pg, pc, cur, call>>
  BY DEF LoadCounter
<1>2. \A u \in Caller : HandOK(u) => HandOK(u)'
  BY <1>1 DEF HandOK, From
<1>3. BatchOK => BatchOK'
  BY <1>1, BatchKeptOK DEF Kept
<1> QED
  BY <1>1, <1>2, <1>3 DEF KindInv, Running

\* Allocate: a free page is of its list's tier and not present, so neither
\* assertion fails.
LEMMA AllocateKind ==
  ASSUME TypeOK, LocalInv, KindInv, NEW t \in Caller, NEW tier \in Tier, Allocate(t, tier)
  PROVE  KindInv'
<1> USE ThreadsAssumption DEF Caller, Thread, FaultThread, Migrator
<1> DEFINE l == FreeList(tier)
           h == Head(list[l])
<1>1. /\ l \in List /\ TierOfList(l) = tier /\ l \in FreeLists
      /\ list \in Lists /\ AllFit(list, pg)
  BY ListNames, ListKinds DEF TypeOK, Lists, KindInv
<1>2. CASE list[l] = <<>>
  <2>1. CASE Panic("out of memory")
    BY <2>1, PanicKind DEF WrongKind
  <2>2. CASE ~Panic("out of memory")
    <3>1. UNCHANGED <<panic, list, batch, pg, cur, call>> /\ pc' = [pc EXCEPT ![t] = "alloc_nvm"]
      BY <1>2, <2>2 DEF Allocate, Goto
    <3> QED
      BY <3>1, QuietKind DEF TypeOK, HandLabel
  <2> QED
    BY <2>1, <2>2
<1>3. CASE list[l] # <<>>
  <2>1. Fits(pg, h, l) /\ AllFit([list EXCEPT ![l] = Tail(@)], pg)
    BY <1>1, <1>3, DequeueFits
  <2>2. TierOf(h) = tier /\ ~pg[h].present
    BY <1>1, <2>1 DEF Fits, TierOf
  <2>3. /\ Dequeue(l) /\ UNCHANGED <<panic, batch, pg, call>>
        /\ cur' = [cur EXCEPT ![t] = h] /\ pc' = [pc EXCEPT ![t] = "place"]
    BY <1>3, <2>2 DEF Allocate, Goto
  <2>4. list' \in Lists
    BY <1>1, <1>3, <2>3, DequeueType DEF Lists
  <2>5. \A p \in Page : Kept(pg, pg', p)
    BY <2>3 DEF Kept
  <2>6. HandOK(t)'
    BY <2>2, <2>3 DEF HandOK, TypeOK
  <2> QED
    BY <2>1, <2>3, <2>4, <2>5, <2>6, ThreadKind DEF Dequeue, TypeOK
<1> QED
  BY <1>2, <1>3

\* Rotate: the page came from the list it goes back to.
LEMMA RotateKind ==
  ASSUME TypeOK, LocalInv, KindInv, NEW t \in App, Rotate(t)
  PROVE  KindInv'
<1> USE ThreadsAssumption DEF Caller, Thread, FaultThread, Migrator
<1>1. CASE Panic("NULL enqueued")
  BY <1>1, PanicKind DEF WrongKind
<1>2. CASE ~Panic("NULL enqueued")
  <2> DEFINE l == From(t)
             h == Head(list[l])
  <2>1. /\ list[l] # <<>> /\ Dequeue(l) /\ UNCHANGED <<panic, batch, pg>>
        /\ cur' = [cur EXCEPT ![t] = h] /\ pc' = [pc EXCEPT ![t] = "rotate_back"]
        /\ call' = [call EXCEPT ![t].choose = @ - 1]
    BY <1>2 DEF Rotate, Goto
  <2>2. l \in List /\ list \in Lists /\ AllFit(list, pg)
    BY ListNames DEF TypeOK, Lists, KindInv
  <2>3. Fits(pg, h, l) /\ AllFit([list EXCEPT ![l] = Tail(@)], pg)
    BY <2>1, <2>2, DequeueFits
  <2>4. list' \in Lists
    BY <2>1, <2>2, DequeueType DEF Lists
  <2>5. \A p \in Page : Kept(pg, pg', p)
    BY <2>1 DEF Kept
  <2>6. call'[t].to = call[t].to
    BY <2>1 DEF TypeOK, CallRecord
  <2>7. HandOK(t)'
    BY <2>1, <2>3, <2>6 DEF HandOK, TypeOK, From
  <2> QED
    BY <2>1, <2>3, <2>4, <2>5, <2>7, ThreadKind DEF Dequeue, TypeOK
<1> QED
  BY <1>1, <1>2

\* Take: a mapped page is of its list's tier and present, so the assertions of
\* the requests do not fail, and it suits the request list.
LEMMA TakeKind ==
  ASSUME TypeOK, LocalInv, KindInv, NEW t \in App, Take(t)
  PROVE  KindInv'
<1> USE ThreadsAssumption DEF Caller, Thread, FaultThread, Migrator
<1> DEFINE l == From(t)
           h == Head(list[l])
<1>1. /\ l \in List /\ list \in Lists /\ AllFit(list, pg)
      /\ call[t].to \in ToList /\ Source(call[t].to) \in Tier
  BY ListNames DEF TypeOK, Lists, KindInv, CallRecord
<1>2. /\ TierOfList(l) = Source(call[t].to) /\ l \notin FreeLists
      /\ TierOfList(call[t].to) = Source(call[t].to) /\ call[t].to \notin FreeLists
  BY <1>1, ListKinds DEF From
<1>3. CASE list[l] = <<>>
  <2>1. /\ UNCHANGED <<panic, list, batch, pg, cur>> /\ pc' = [pc EXCEPT ![t] = "request"]
        /\ call' = [call EXCEPT ![t].left = @ - 1]
    BY <1>3 DEF Take, Goto, NextIteration
  <2> QED
    BY <2>1, QuietKind DEF TypeOK, HandLabel
<1>4. CASE list[l] # <<>>
  <2>1. Fits(pg, h, l) /\ AllFit([list EXCEPT ![l] = Tail(@)], pg)
    BY <1>1, <1>4, DequeueFits
  <2>2. TierOf(h) = Source(call[t].to) /\ pg[h].present /\ Fits(pg, h, call[t].to)
    BY <1>2, <2>1 DEF Fits, TierOf
  <2>3. /\ Dequeue(l) /\ UNCHANGED <<panic, batch, pg>>
        /\ cur' = [cur EXCEPT ![t] = h] /\ pc' = [pc EXCEPT ![t] = "queue"]
        /\ call' = [call EXCEPT ![t].left = @ - 1]
    BY <1>4, <2>2 DEF Take, Goto, NextIteration
  <2>4. list' \in Lists
    BY <1>1, <1>4, <2>3, DequeueType DEF Lists
  <2>5. \A p \in Page : Kept(pg, pg', p)
    BY <2>3 DEF Kept
  <2>6. call'[t].to = call[t].to
    BY <2>3 DEF TypeOK, CallRecord
  <2>7. HandOK(t)'
    BY <2>2, <2>3, <2>6 DEF HandOK, TypeOK
  <2> QED
    BY <2>1, <2>3, <2>4, <2>5, <2>7, ThreadKind DEF Dequeue, TypeOK
<1> QED
  BY <1>3, <1>4

\* A thread that is not dead is running.
LEMMA Alive ==
  ASSUME DeadOK, NEW t \in Thread, pc[t] # "dead"
  PROVE  Running
  BY DEF DeadOK

\* RotateBack: the page goes back where it was.
LEMMA RotateBackKind ==
  ASSUME TypeOK, LocalInv, DeadOK, KindInv, NEW t \in App, RotateBack(t)
  PROVE  KindInv'
<1> USE ThreadsAssumption DEF Caller, Thread, FaultThread, Migrator
<1> DEFINE l == From(t)
           h == cur[t]
           label == IF call[t].choose = 0 THEN "take" ELSE "rotate"
<1>1. /\ pc[t] = "rotate_back" /\ Enqueue(l, h) /\ UNCHANGED <<panic, batch, pg, call>>
      /\ cur' = [cur EXCEPT ![t] = NoPage] /\ pc' = [pc EXCEPT ![t] = label]
  BY DEF RotateBack, Goto
<1>2. Running
  BY <1>1, Alive
<1>3. l \in List /\ h \in Page /\ list \in Lists /\ AllFit(list, pg) /\ Fits(pg, h, l)
  BY <1>1, <1>2, ListNames
  DEF TypeOK, Lists, KindInv, HandOK, LocalInv, AppOK, HoldingLabel
<1>4. AllFit(list', pg) /\ list' \in Lists
  BY <1>1, <1>3, EnqueueFits, EnqueueType DEF Enqueue, Lists
<1>5. (\A p \in Page : Kept(pg, pg', p)) /\ HandOK(t)'
  BY <1>1 DEF Kept, HandOK, TypeOK
<1> QED
  BY <1>1, <1>4, <1>5, ThreadKind DEF TypeOK

\* Queue: the page suits the list of the request.
LEMMA QueueKind ==
  ASSUME TypeOK, LocalInv, DeadOK, KindInv, NEW t \in App, Queue(t)
  PROVE  KindInv'
<1> USE ThreadsAssumption DEF Caller, Thread, FaultThread, Migrator
<1> DEFINE l == call[t].to
           h == cur[t]
<1>1. /\ pc[t] = "queue" /\ Enqueue(l, h) /\ UNCHANGED <<panic, batch, pg, call>>
      /\ cur' = [cur EXCEPT ![t] = NoPage] /\ pc' = [pc EXCEPT ![t] = "count"]
  BY DEF Queue, StartCounting, Goto
<1>2. Running
  BY <1>1, Alive
<1>3. l \in List /\ h \in Page /\ list \in Lists /\ AllFit(list, pg) /\ Fits(pg, h, l)
  BY <1>1, <1>2, ListNames
  DEF TypeOK, Lists, KindInv, HandOK, LocalInv, AppOK, HoldingLabel, CallRecord
<1>4. AllFit(list', pg) /\ list' \in Lists
  BY <1>1, <1>3, EnqueueFits, EnqueueType DEF Enqueue, Lists
<1>5. (\A p \in Page : Kept(pg, pg', p)) /\ HandOK(t)'
  BY <1>1 DEF Kept, HandOK, TypeOK
<1> QED
  BY <1>1, <1>4, <1>5, ThreadKind DEF TypeOK

-----------------------------------------------------------------------------
(* Steps that write flags.                                                   *)

\* A page in a slot is on no list and in no other slot.
LEMMA AloneInSlot ==
  ASSUME TypeOK, OwnInv, Running, NEW s, NEW h \in Page, <<s, h>> \in Hands
  PROVE  /\ \A l \in List : \A i \in 1 .. Len(list[l]) : list[l][i] # h
         /\ \A x : <<x, h>> \in Hands => x = s
<1> DEFINE G == Hands \ {<<s, h>>}
<1>1. Slot(s) /\ list \in Lists /\ Exclusive(list, Hands)
  BY SlotsApart DEF OwnInv, TypeOK, Lists
<1>2. AllBut(list, G, h)
  BY <1>1, LetGo
<1>3. \A x : ~Owns(list, G, x, h)
  BY <1>2 DEF AllBut
<1>4. ASSUME NEW l \in List, NEW i \in 1 .. Len(list[l]), list[l][i] = h PROVE FALSE
  <2>1. Owns(list, G, <<l, i>>, h)
    BY <1>4 DEF Owns
  <2> QED
    BY <1>3, <2>1
<1>5. ASSUME NEW x, <<x, h>> \in Hands PROVE x = s
  <2>1. x # s => Owns(list, G, x, h)
    BY <1>5 DEF Owns
  <2> QED
    BY <1>3, <2>1
<1> QED
  BY <1>4, <1>5

\* The slots of threads and of the batch.
LEMMA SlotsFilled ==
  /\ \A t \in Caller : pc[t] \in HandLabel => <<<<t, 0>>, cur[t]>> \in Hands
  /\ \A i \in BatchPages : <<<<"page", i>>, batch.page[i]>> \in Hands
  /\ \A i \in BatchNexts : <<<<"next_page", i>>, batch.next[i]>> \in Hands
  BY DEF Hands, InHands, BatchSlots

\* Place: the page is of its tier, and now present.
LEMMA PlaceKind ==
  ASSUME TypeOK, LocalInv, DeadOK, OwnInv, KindInv, NEW t \in Caller, Place(t)
  PROVE  KindInv'
<1> USE ThreadsAssumption DEF Caller, Thread, FaultThread, Migrator
<1> DEFINE h == cur[t]
           l == MmapList(TierOf(h))
<1>1. /\ pc[t] = "place" /\ Enqueue(l, h) /\ UNCHANGED <<panic, batch, cur, call>>
      /\ pc' = [pc EXCEPT ![t] = "map"] /\ pg' = [pg EXCEPT ![h].present = TRUE]
  BY DEF Place, Goto
<1>2. Running /\ h \in Page
  BY <1>1, Alive DEF LocalInv, AppOK, FaultOK, HoldingLabel
<1>3. /\ \A m \in List : \A i \in 1 .. Len(list[m]) : list[m][i] # h
      /\ \A x : <<x, h>> \in Hands => x = <<t, 0>>
  <2>1. <<<<t, 0>>, h>> \in Hands
    BY <1>1, SlotsFilled DEF HandLabel
  <2> QED
    BY <1>2, <2>1, AloneInSlot
<1>4. (\A p \in Page \ {h} : Kept(pg, pg', p)) /\ Fits(pg', h, l)
  <2>1. TierOf(h) \in Tier
    BY DEF TierOf, Tier
  <2>2. TierOfList(l) = TierOf(h) /\ l \notin FreeLists
    BY <2>1, ListKinds
  <2>3. pg'[h].in_dram = pg[h].in_dram /\ pg'[h].present
    BY <1>1, <1>2 DEF TypeOK, PageRecord
  <2> QED
    BY <1>1, <2>2, <2>3 DEF Kept, Fits, TierOf, TypeOK
<1>5. AllFit(list', pg')
  <2>1. l \in List /\ list \in Lists /\ AllFit(list, pg)
    BY ListNames DEF TypeOK, Lists, KindInv
  <2>2. \A m \in List : \A i \in 1 .. Len(list[m]) : Kept(pg, pg', list[m][i])
    BY <1>3, <1>4, <2>1 DEF Lists
  <2>3. AllFit(list, pg')
    BY <2>1, <2>2, KeptAllFit
  <2> QED
    BY <1>1, <1>2, <1>4, <2>1, <2>3, EnqueueFits DEF Enqueue
<1>6. ASSUME NEW u \in Caller PROVE HandOK(u)'
  <2>1. CASE u = t
    BY <1>1, <2>1 DEF HandOK, TypeOK
  <2>2. CASE u # t
    <3>1. pc'[u] = pc[u] /\ cur'[u] = cur[u] /\ call'[u] = call[u]
      BY <1>1, <2>2 DEF TypeOK
    <3>2. pc[u] \in HandLabel => cur[u] \in Page \ {h}
      BY <1>3, <2>2, SlotsFilled DEF LocalInv, AppOK, FaultOK, HandLabel, HoldingLabel
    <3> QED
      BY <1>2, <1>4, <3>1, <3>2, HandKept DEF KindInv
  <2> QED
    BY <2>1, <2>2
<1>7. BatchOK'
  <2>1. pc'[Migrator] = pc[Migrator]
    BY <1>1 DEF TypeOK
  <2>2. \A i \in BatchPages : batch.page[i] \in Page \ {h}
    BY <1>3, SlotsFilled, SlotsFromOne, SlotsArePages
  <2>3. \A i \in BatchNexts : batch.next[i] \in Page \ {h}
    BY <1>3, SlotsFilled, SlotsFromOne, SlotsArePages
  <2> QED
    BY <1>1, <1>2, <1>4, <2>1, <2>2, <2>3, BatchKeptOK DEF KindInv
<1> QED
  BY <1>1, <1>5, <1>6, <1>7 DEF KindInv

-----------------------------------------------------------------------------
(* The migration thread.                                                     *)

\* A step that leaves the other threads' pages alone.
LEMMA MigratorKind ==
  ASSUME TypeOK, LocalInv, KindInv, UNCHANGED <<panic, cur, call>>,
         pc' = pc \/ \E label : pc' = [pc EXCEPT ![Migrator] = label],
         \A u \in Caller : Running /\ pc[u] \in HandLabel => Kept(pg, pg', cur[u]),
         AllFit(list', pg'), Running => BatchOK'
  PROVE  KindInv'
<1> USE ThreadsAssumption DEF Caller, Thread, FaultThread, Migrator
<1>1. ASSUME Running, NEW u \in Caller PROVE HandOK(u)'
  <2>1. pc'[u] = pc[u] /\ cur'[u] = cur[u] /\ call'[u] = call[u]
    BY DEF TypeOK
  <2> QED
    BY <1>1, <2>1, HandKept DEF KindInv
<1> QED
  BY <1>1 DEF KindInv, Running

\* Scan: the batch is empty, and stays so.
LEMMA ScanKind ==
  ASSUME TypeOK, LocalInv, KindInv, Scan
  PROVE  KindInv'
<1>1. pc[Migrator] = "scan" /\ UNCHANGED <<cur, call, panic, list, pg>>
  BY DEF Scan
<1>2. batch.page = <<>> /\ batch.next = <<>>
  BY <1>1 DEF LocalInv, MigratorOK, EmptyBatch
<1>3. \/ batch' = EmptyBatch(NextLoop(batch.to)) /\ pc' = pc
      \/ /\ batch' = [batch EXCEPT !.want = AsUnsignedMin(num[batch.to], NUM_BATCHS)]
         /\ pc' = [pc EXCEPT ![Migrator] = "take_page"]
  BY DEF Scan, Goto
<1>4. batch'.page = <<>> /\ batch'.next = <<>>
  BY <1>2, <1>3 DEF EmptyBatch, TypeOK, BatchRecord
<1>5. pc'[Migrator] \in BeforeRestore
  BY <1>1, <1>3 DEF BeforeRestore, TypeOK, Thread
<1>6. BatchPages' = {} /\ BatchNexts' = {}
  BY <1>4, <1>5, SlotsInUse
<1>7. BatchOK'
  BY <1>6 DEF BatchOK
<1> QED
  BY <1>1, <1>3, <1>7, MigratorKind DEF Kept, KindInv

\* TakePage: a page of a request list is of the tier it is moved from.
LEMMA TakePageKind ==
  ASSUME TypeOK, LocalInv, DeadOK, KindInv, TakePage
  PROVE  KindInv'
<1>1. CASE Panic("NULL page")
  BY <1>1, PanicKind DEF WrongKind
<1>2. CASE ~Panic("NULL page")
  <2> DEFINE l == batch.to
             h == Head(list[l])
             n == Len(batch.page)
  <2>1. /\ pc[Migrator] = "take_page" /\ UNCHANGED <<cur, call, panic, pg>>
        /\ list[l] # <<>> /\ Dequeue(l)
        /\ pc' = [pc EXCEPT ![Migrator] = "take_next"]
        /\ batch' = [batch EXCEPT !.page = Append(@, h)]
    BY <1>2 DEF TakePage, Goto
  <2>2. /\ l \in List /\ batch.page \in Seq(Page) /\ n \in Nat
        /\ list \in Lists /\ AllFit(list, pg)
    BY ListNames DEF TypeOK, BatchRecord, Lists, KindInv
  <2>3. batch'.page = Append(batch.page, h) /\ batch'.next = batch.next /\ batch'.to = batch.to
    BY <2>1 DEF TypeOK, BatchRecord
  <2>4. Fits(pg, h, l) /\ AllFit(list', pg)
    BY <2>1, <2>2, DequeueFits DEF Dequeue
  <2>5. pc[Migrator] \in BeforeRestore /\ pc'[Migrator] = "take_next" /\ "take_next" \in BeforeRestore
    BY <2>1 DEF BeforeRestore, TypeOK, Thread
  <2>6. /\ BatchPages = 1 .. n /\ BatchPages' = 1 .. n + 1 /\ BatchNexts' = BatchNexts
        /\ batch'.page[n + 1] = h /\ \A i \in 1 .. n : batch'.page[i] = batch.page[i]
    BY <2>2, <2>3, <2>5, SlotsInUse
  <2>7. Running /\ BatchOK
    BY <2>1, Alive DEF Thread, KindInv
  <2>8. ASSUME NEW i \in BatchPages' PROVE PageOK(i)'
    <3>1. CASE i = n + 1
      BY <2>1, <2>3, <2>4, <2>5, <2>6, <3>1 DEF PageOK
    <3>2. CASE i # n + 1
      <4>1. i \in BatchPages /\ batch'.page[i] = batch.page[i]
        BY <2>2, <2>6, <3>2
      <4> QED
        BY <2>1, <2>3, <2>5, <2>7, <4>1 DEF BatchOK, PageOK
    <3> QED
      BY <3>1, <3>2
  <2>9. ASSUME NEW i \in BatchNexts' PROVE NextOK(i)'
    BY <2>1, <2>3, <2>5, <2>6, <2>7 DEF BatchOK, NextOK
  <2>10. BatchOK'
    BY <2>8, <2>9 DEF BatchOK
  <2> QED
    BY <2>1, <2>4, <2>10, MigratorKind DEF Kept
<1> QED
  BY <1>1, <1>2

\* TakeNext: a free page of the tier that page[i] is moved to.
LEMMA TakeNextKind ==
  ASSUME TypeOK, LocalInv, DeadOK, KindInv, TakeNext
  PROVE  KindInv'
<1>1. CASE Panic("NULL next_page")
  BY <1>1, PanicKind DEF WrongKind
<1>2. CASE ~Panic("NULL next_page")
  <2> DEFINE l == FreeList(Target(batch.to))
             h == Head(list[l])
             n == Len(batch.next)
             label == IF Len(batch.page) < batch.want THEN "take_page" ELSE "protect"
  <2>1. /\ pc[Migrator] = "take_next" /\ UNCHANGED <<cur, call, panic, pg>>
        /\ list[l] # <<>> /\ Dequeue(l)
        /\ pc' = [pc EXCEPT ![Migrator] = label]
        /\ batch' = [batch EXCEPT !.next = Append(@, h),
                                  !.offset = Append(@, pg[h].devdax_offset)]
    BY <1>2 DEF TakeNext, Goto
  <2>2. /\ l \in List /\ batch.next \in Seq(Page) /\ n \in Nat
        /\ list \in Lists /\ AllFit(list, pg)
    BY ListNames DEF TypeOK, BatchRecord, Lists, KindInv
  <2>3. batch'.next = Append(batch.next, h) /\ batch'.page = batch.page /\ batch'.to = batch.to
    BY <2>1 DEF TypeOK, BatchRecord
  <2>4. Fits(pg, h, l) /\ AllFit(list', pg)
    BY <2>1, <2>2, DequeueFits DEF Dequeue
  <2>5. /\ pc[Migrator] \in BeforeRestore /\ pc'[Migrator] \in {"take_page", "protect"}
        /\ {"take_page", "protect"} \subseteq BeforeRestore
    BY <2>1 DEF BeforeRestore, TypeOK, Thread
  <2>6. /\ BatchNexts = 1 .. n /\ BatchNexts' = 1 .. n + 1 /\ BatchPages' = BatchPages
        /\ batch'.next[n + 1] = h /\ \A i \in 1 .. n : batch'.next[i] = batch.next[i]
    BY <2>2, <2>3, <2>5, SlotsInUse
  <2>7. Running /\ BatchOK
    BY <2>1, Alive DEF Thread, KindInv
  <2>8. ASSUME NEW i \in BatchNexts' PROVE NextOK(i)'
    <3>1. CASE i = n + 1
      BY <2>1, <2>3, <2>4, <2>5, <2>6, <3>1 DEF NextOK
    <3>2. CASE i # n + 1
      <4>1. i \in BatchNexts /\ batch'.next[i] = batch.next[i]
        BY <2>2, <2>6, <3>2
      <4> QED
        BY <2>1, <2>3, <2>5, <2>7, <4>1 DEF BatchOK, NextOK
    <3> QED
      BY <3>1, <3>2
  <2>9. ASSUME NEW i \in BatchPages' PROVE PageOK(i)'
    BY <2>1, <2>3, <2>5, <2>6, <2>7 DEF BatchOK, PageOK
  <2>10. BatchOK'
    BY <2>8, <2>9 DEF BatchOK
  <2> QED
    BY <2>1, <2>4, <2>10, MigratorKind DEF Kept
<1> QED
  BY <1>1, <1>2

\* A batch on its way from one loop to the next, with its flags unwritten.
LEMMA LoopKind ==
  ASSUME TypeOK, LocalInv, DeadOK, KindInv, NEW label, UNCHANGED <<cur, call, panic, pg, list>>,
         pc' = [pc EXCEPT ![Migrator] = label],
         pc[Migrator] \in {"protect", "copy"}, label \in {"protect", "copy", "remap"},
         batch'.page = batch.page, batch'.next = batch.next, batch'.to = batch.to,
         label = "remap" => batch'.i = 1
  PROVE  KindInv'
<1>1. pc'[Migrator] = label /\ {"protect", "copy", "remap"} \subseteq BeforeRestore
  BY DEF BeforeRestore, TypeOK, Thread
<1>2. /\ BatchPages' = BatchPages /\ BatchNexts' = BatchNexts
      /\ BatchPages = 1 .. Len(batch.page)
  BY <1>1, SlotsInUse
<1>3. Running /\ BatchOK
  BY Alive DEF Thread, KindInv
<1>4. ASSUME NEW i \in BatchPages' PROVE PageOK(i)'
  <2>1. ~(label = "remap" /\ i < batch'.i)
    BY <1>2
  <2> QED
    BY <1>1, <1>2, <1>3, <2>1 DEF BatchOK, PageOK
<1>5. ASSUME NEW i \in BatchNexts' PROVE NextOK(i)'
  BY <1>1, <1>2, <1>3 DEF BatchOK, NextOK
<1>6. BatchOK'
  BY <1>4, <1>5 DEF BatchOK
<1> QED
  BY <1>6, MigratorKind DEF Kept, KindInv

\* Protect: the flags are not written.
LEMMA ProtectKind ==
  ASSUME TypeOK, LocalInv, DeadOK, KindInv, Protect
  PROVE  KindInv'
<1>1. CASE Panic("va is zero") \/ Panic("UFFDIO_WRITEPROTECT failed")
  BY <1>1, PanicKind DEF WrongKind
<1>2. CASE ~(Panic("va is zero") \/ Panic("UFFDIO_WRITEPROTECT failed"))
  <2> DEFINE label == IF batch.i < batch.want THEN "protect" ELSE "copy"
             n     == IF batch.i < batch.want THEN batch.i + 1 ELSE 1
  <2>1. /\ pc[Migrator] = "protect" /\ UNCHANGED <<cur, call, panic, list, pg>>
        /\ pc' = [pc EXCEPT ![Migrator] = label] /\ batch' = [batch EXCEPT !.i = n]
    BY <1>2 DEF Protect, LoopOver, Goto
  <2>2. batch'.page = batch.page /\ batch'.next = batch.next /\ batch'.to = batch.to
    BY <2>1 DEF TypeOK, BatchRecord
  <2> QED
    BY <2>1, <2>2, LoopKind
<1> QED
  BY <1>1, <1>2

\* Copy: every page of the batch is in the tier it is moved from, so the
\* assertion does not fail.
LEMMA CopyKind ==
  ASSUME TypeOK, LocalInv, DeadOK, KindInv, Copy
  PROVE  KindInv'
<1>1. CASE Panic("offset beyond the device")
  BY <1>1, PanicKind DEF WrongKind
<1>2. CASE ~Panic("offset beyond the device")
  <2>1. /\ pc[Migrator] = "copy" /\ batch.i = 1
        /\ Len(batch.page) = batch.want /\ "copy" \in BeforeRestore
    BY DEF Copy, LocalInv, MigratorOK, BeforeRestore
  <2>2. Running /\ BatchOK /\ BatchPages = 1 .. batch.want
    BY <2>1, Alive, SlotsInUse DEF Thread, KindInv
  <2>3. ASSUME NEW j \in 1 .. batch.want PROVE TierOf(batch.page[j]) = Source(batch.to)
    <3>1. Fits(pg, batch.page[j], batch.to)
      BY <2>1, <2>2 DEF BatchOK, PageOK
    <3>2. TierOfList(batch.to) = Source(batch.to)
      BY ListKinds DEF TypeOK, BatchRecord
    <3> QED
      BY <3>1, <3>2 DEF Fits, TierOf
  <2>4. /\ UNCHANGED <<cur, call, panic, list, pg, batch>>
        /\ pc' = [pc EXCEPT ![Migrator] = "remap"]
    BY <1>2, <2>3 DEF Copy, Goto
  <2> QED
    BY <2>1, <2>4, LoopKind
<1> QED
  BY <1>1, <1>2

\* What the migration thread writes in slot s of the batch, it writes in a page
\* that no other thread, list or slot has.
LEMMA WriteInSlot ==
  ASSUME TypeOK, LocalInv, OwnInv, KindInv, Running,
         NEW s, NEW h \in Page, <<s, h>> \in Hands, \A u \in Caller : s # <<u, 0>>,
         \A p \in Page \ {h} : Kept(pg, pg', p)
  PROVE  /\ AllFit(list, pg')
         /\ \A u \in Caller : pc[u] \in HandLabel => Kept(pg, pg', cur[u])
         /\ \A i \in BatchPages : s # <<"page", i>> => Kept(pg, pg', batch.page[i])
         /\ \A i \in BatchNexts : s # <<"next_page", i>> => Kept(pg, pg', batch.next[i])
<1>1. /\ \A l \in List : \A i \in 1 .. Len(list[l]) : list[l][i] # h
      /\ \A x : <<x, h>> \in Hands => x = s
  BY AloneInSlot
<1>2. AllFit(list, pg')
  <2>1. list \in Lists /\ AllFit(list, pg)
    BY DEF TypeOK, Lists, KindInv
  <2>2. \A l \in List : \A i \in 1 .. Len(list[l]) : Kept(pg, pg', list[l][i])
    BY <1>1, <2>1 DEF Lists
  <2> QED
    BY <2>1, <2>2, KeptAllFit
<1>3. ASSUME NEW u \in Caller, pc[u] \in HandLabel PROVE Kept(pg, pg', cur[u])
  <2>1. cur[u] \in Page
    BY <1>3 DEF LocalInv, AppOK, FaultOK, HandLabel, HoldingLabel, Caller
  <2> QED
    BY <1>1, <1>3, <2>1, SlotsFilled
<1>4. ASSUME NEW i \in BatchPages, s # <<"page", i>> PROVE Kept(pg, pg', batch.page[i])
  BY <1>1, <1>4, SlotsFilled, SlotsArePages
<1>5. ASSUME NEW i \in BatchNexts, s # <<"next_page", i>> PROVE Kept(pg, pg', batch.next[i])
  BY <1>1, <1>5, SlotsFilled, SlotsArePages
<1> QED
  BY <1>2, <1>3, <1>4, <1>5

\* Remap: the page is now of the tier it is moved to.
LEMMA RemapKind ==
  ASSUME TypeOK, LocalInv, DeadOK, OwnInv, KindInv, Remap
  PROVE  KindInv'
<1> USE ThreadsAssumption DEF Caller, Thread, FaultThread, Migrator
<1> DEFINE label == IF batch.i < batch.want THEN "remap" ELSE "restore"
           n     == IF batch.i < batch.want THEN batch.i + 1 ELSE 1
           i     == batch.i
           h     == batch.page[i]
           dst   == Target(batch.to)
<1>1. /\ pc[Migrator] = "remap" /\ UNCHANGED <<cur, call, panic, list>>
      /\ pc' = [pc EXCEPT ![Migrator] = label] /\ batch' = [batch EXCEPT !.i = n]
      /\ pg' = [pg EXCEPT ![h].in_dram = (dst = "dram"), ![h].devdax_offset = batch.offset[i]]
  BY DEF Remap, LoopOver, Goto
<1>2. /\ batch'.page = batch.page /\ batch'.next = batch.next /\ batch'.to = batch.to
      /\ batch'.i = n /\ pc'[Migrator] = label
  BY <1>1 DEF TypeOK, BatchRecord
<1>3. /\ batch.want \in Nat /\ i \in 1 .. batch.want
      /\ Len(batch.page) = batch.want /\ Len(batch.next) = batch.want
  BY <1>1, SizesAssumption DEF LocalInv, MigratorOK, TypeOK, BatchRecord
<1>4. /\ BatchPages = 1 .. batch.want /\ BatchNexts = 1 .. batch.want
      /\ BatchPages' = BatchPages /\ BatchNexts' = BatchNexts
  BY <1>1, <1>2, <1>3, SlotsInUse DEF BeforeRestore
<1>5. Running /\ BatchOK /\ h \in Page
  BY <1>1, <1>3, <1>4, Alive, SlotsArePages DEF KindInv
<1>6. \A p \in Page \ {h} : Kept(pg, pg', p)
  BY <1>1 DEF Kept, TypeOK
<1>7. Fits(pg', h, MmapList(dst))
  <2>1. Fits(pg, h, batch.to)
    BY <1>1, <1>3, <1>4, <1>5 DEF BatchOK, PageOK
  <2>2. /\ dst \in Tier /\ batch.to \notin FreeLists
        /\ TierOfList(MmapList(dst)) = dst /\ MmapList(dst) \notin FreeLists
    BY ListNames, ListKinds DEF TypeOK, BatchRecord
  <2>3. pg'[h].in_dram = (dst = "dram") /\ pg'[h].present = pg[h].present
    BY <1>1, <1>5 DEF TypeOK, PageRecord
  <2> QED
    BY <2>1, <2>2, <2>3 DEF Fits, Tier
<1>8. /\ AllFit(list, pg')
      /\ \A u \in Caller : pc[u] \in HandLabel => Kept(pg, pg', cur[u])
      /\ \A j \in BatchPages : j # i => Kept(pg, pg', batch.page[j])
      /\ \A j \in BatchNexts : Kept(pg, pg', batch.next[j])
  <2>1. <<<<"page", i>>, h>> \in Hands /\ \A u \in Caller : <<"page", i>> # <<u, 0>>
    BY <1>3, <1>4, SlotsFilled
  <2>2. \A j : <<"page", i>> # <<"next_page", j>>
    OBVIOUS
  <2>3. \A j : j # i => <<"page", i>> # <<"page", j>>
    OBVIOUS
  <2> HIDE DEF i, h
  <2> QED
    BY <1>5, <1>6, <2>1, <2>2, <2>3, WriteInSlot
<1>9. ASSUME NEW j \in BatchPages' PROVE PageOK(j)'
  <2>1. CASE j = i
    <3>1. pc'[Migrator] = "restore" \/ (pc'[Migrator] = "remap" /\ i < batch'.i)
      BY <1>2, <1>3
    <3> QED
      BY <1>2, <1>7, <2>1, <3>1 DEF PageOK
  <2>2. CASE j # i
    <3>1. pc'[Migrator] = "restore" => j < i
      BY <1>2, <1>3, <1>4, <2>2
    <3>2. pc'[Migrator] = "remap" => (j < i <=> j < batch'.i)
      BY <1>2, <1>3, <1>4, <2>2
    <3>3. PageOK(j)
      BY <1>4, <1>5 DEF BatchOK
    <3>4. pc'[Migrator] \in {"remap", "restore"}
      BY <1>2
    <3>5. Fits(pg, batch.page[j], IF j < i THEN MmapList(dst) ELSE batch.to)
      BY <1>1, <3>3 DEF PageOK
    <3>6. Fits(pg', batch.page[j], IF j < i THEN MmapList(dst) ELSE batch.to)
      BY <1>4, <1>8, <2>2, <3>5, KeptFits
    <3> QED
      BY <1>2, <3>1, <3>2, <3>4, <3>6 DEF PageOK
  <2> QED
    BY <2>1, <2>2
<1>10. ASSUME NEW j \in BatchNexts' PROVE NextOK(j)'
  <2>1. NextOK(j) /\ Kept(pg, pg', batch.next[j])
    BY <1>4, <1>5, <1>8 DEF BatchOK
  <2>2. Fits(pg, batch.next[j], FreeList(dst))
    BY <1>1, <2>1 DEF NextOK
  <2>3. Fits(pg', batch.next[j], FreeList(dst))
    BY <2>1, <2>2, KeptFits
  <2> QED
    BY <1>2, <2>3 DEF NextOK
<1>11. BatchOK'
  BY <1>9, <1>10 DEF BatchOK
<1> QED
  BY <1>1, <1>8, <1>11, MigratorKind

\* Restore: page[i] suits the mmap list of its new tier; next_page[i] is a free
\* page of the tier that page[i] left.
LEMMA RestoreKind ==
  ASSUME TypeOK, LocalInv, DeadOK, OwnInv, KindInv, Restore
  PROVE  KindInv'
<1> USE ThreadsAssumption DEF Caller, Thread, FaultThread, Migrator
<1> DEFINE i == batch.i
           h == batch.page[i]
           m == batch.next[i]
           l == MmapList(Target(batch.to))
           src == Source(batch.to)
<1>1. /\ pc[Migrator] = "restore" /\ UNCHANGED <<cur, call, panic, batch>>
      /\ Enqueue(l, h) /\ pc' = [pc EXCEPT ![Migrator] = "restore_next"]
      /\ pg' = [pg EXCEPT ![m].devdax_offset = batch.offset[i], ![m].present = FALSE,
                          ![m].in_dram = (src = "dram")]
  BY DEF Restore, Goto, FreedTier
<1>2. /\ pc'[Migrator] = "restore_next" /\ i \in Nat \ {0} /\ l \in List
      /\ i \in BatchPages /\ i \in BatchNexts
      /\ BatchPages' = BatchPages \ {i} /\ BatchNexts' = BatchNexts
  <2>1. /\ pc'[Migrator] = "restore_next" /\ batch.want \in Nat /\ i \in 1 .. batch.want
        /\ Len(batch.page) = batch.want /\ Len(batch.next) = batch.want
    BY <1>1, SizesAssumption DEF LocalInv, MigratorOK, TypeOK, BatchRecord
  <2>2. /\ BatchPages = i .. batch.want /\ BatchNexts = i .. batch.want
        /\ BatchPages' = i + 1 .. batch.want /\ BatchNexts' = i .. batch.want
    BY <1>1, <2>1, SlotsInUse
  <2> QED
    BY <2>1, <2>2, ListNames
<1>3. Running /\ BatchOK /\ h \in Page /\ m \in Page
  BY <1>1, <1>2, Alive, SlotsArePages DEF KindInv
<1>4. \A p \in Page \ {m} : Kept(pg, pg', p)
  BY <1>1 DEF Kept, TypeOK
<1>5. Fits(pg', m, FreeList(src))
  <2>1. src \in Tier /\ TierOfList(FreeList(src)) = src /\ FreeList(src) \in FreeLists
    BY ListNames, ListKinds
  <2>2. pg \in [Page -> PageRecord] /\ m \in Page
    BY <1>3 DEF TypeOK
  <2>3. pg' = [pg EXCEPT ![m].devdax_offset = batch.offset[i], ![m].present = FALSE,
                         ![m].in_dram = (src = "dram")]
    BY <1>1
  <2> HIDE DEF i, h, m, l, src
  <2>4. pg'[m].in_dram = (src = "dram") /\ pg'[m].present = FALSE
    BY <2>2, <2>3 DEF PageRecord
  <2> QED
    BY <2>1, <2>4 DEF Fits, Tier
<1>6. /\ AllFit(list, pg')
      /\ \A u \in Caller : pc[u] \in HandLabel => Kept(pg, pg', cur[u])
      /\ \A j \in BatchPages : Kept(pg, pg', batch.page[j])
      /\ \A j \in BatchNexts : j # i => Kept(pg, pg', batch.next[j])
  <2>1. <<<<"next_page", i>>, m>> \in Hands /\ \A u \in Caller : <<"next_page", i>> # <<u, 0>>
    BY <1>2, SlotsFilled
  <2>2. \A j : <<"next_page", i>> # <<"page", j>>
    OBVIOUS
  <2>3. \A j : j # i => <<"next_page", i>> # <<"next_page", j>>
    OBVIOUS
  <2> HIDE DEF i, m
  <2> QED
    BY <1>3, <1>4, <2>1, <2>2, <2>3, WriteInSlot
<1>7. ASSUME NEW j \in BatchPages PROVE Fits(pg', batch.page[j], l)
  <2>1. Fits(pg, batch.page[j], l)
    BY <1>1, <1>3 DEF BatchOK, PageOK
  <2> QED
    BY <1>6, <2>1, KeptFits
<1>8. AllFit(list', pg')
  <2>1. list \in Lists /\ Fits(pg', h, l)
    BY <1>2, <1>7 DEF TypeOK, Lists
  <2> QED
    BY <1>1, <1>2, <1>3, <1>6, <2>1, EnqueueFits DEF Enqueue
<1>9. ASSUME NEW j \in BatchPages' PROVE PageOK(j)'
  BY <1>1, <1>2, <1>7 DEF PageOK
<1>10. ASSUME NEW j \in BatchNexts' PROVE NextOK(j)'
  <2>1. CASE j = i
    BY <1>1, <1>2, <1>5, <2>1 DEF NextOK
  <2>2. CASE j # i
    <3>1. Fits(pg, batch.next[j], FreeList(Target(batch.to)))
      BY <1>1, <1>2, <1>3 DEF BatchOK, NextOK
    <3>2. Fits(pg', batch.next[j], FreeList(Target(batch.to)))
      BY <1>2, <1>6, <2>2, <3>1, KeptFits
    <3> QED
      BY <1>1, <2>2, <3>2 DEF NextOK
  <2> QED
    BY <2>1, <2>2
<1>11. BatchOK'
  BY <1>9, <1>10 DEF BatchOK
<1> QED
  BY <1>1, <1>6, <1>8, <1>11, MigratorKind

\* RestoreNext: next_page[i] suits the free list of the tier page[i] left.
LEMMA RestoreNextKind ==
  ASSUME TypeOK, LocalInv, DeadOK, KindInv, RestoreNext
  PROVE  KindInv'
<1> USE ThreadsAssumption DEF Caller, Thread, FaultThread, Migrator
<1> DEFINE i == batch.i
           h == batch.next[i]
           l == FreeList(Source(batch.to))
           label == IF i < batch.want THEN "restore" ELSE "count"
<1>1. /\ pc[Migrator] = "restore_next" /\ UNCHANGED <<cur, call, panic, pg>>
      /\ Enqueue(l, h) /\ pc' = [pc EXCEPT ![Migrator] = label]
      /\ batch' = [batch EXCEPT !.i = @ + 1]
  BY DEF RestoreNext, StartCounting, Goto
<1>2. /\ batch'.page = batch.page /\ batch'.next = batch.next /\ batch'.to = batch.to
      /\ batch'.i = i + 1 /\ pc'[Migrator] = label
  BY <1>1 DEF TypeOK, BatchRecord
<1>3. /\ batch.want \in Nat /\ i \in 1 .. batch.want
      /\ Len(batch.page) = batch.want /\ Len(batch.next) = batch.want
  BY <1>1, SizesAssumption DEF LocalInv, MigratorOK, TypeOK, BatchRecord
<1>4. /\ BatchPages = i + 1 .. batch.want /\ BatchNexts = i .. batch.want
      /\ label = "restore" =>
           BatchPages' = i + 1 .. batch.want /\ BatchNexts' = i + 1 .. batch.want
      /\ label = "count" => BatchPages' = {} /\ BatchNexts' = {}
  BY <1>1, <1>2, <1>3, SlotsInUse
<1>5. Running /\ BatchOK
  BY <1>1, Alive DEF KindInv
<1>6. AllFit(list', pg')
  <2>1. i \in BatchNexts
    BY <1>3, <1>4
  <2>2. /\ h \in Page /\ l \in List /\ list \in Lists /\ AllFit(list, pg)
    BY <2>1, SlotsArePages, ListNames DEF TypeOK, Lists, KindInv
  <2>3. Fits(pg, h, l)
    BY <1>1, <1>5, <2>1 DEF BatchOK, NextOK
  <2> QED
    BY <1>1, <2>2, <2>3, EnqueueFits DEF Enqueue
<1>7. BatchOK'
  <2>1. CASE label = "count"
    BY <1>4, <2>1 DEF BatchOK
  <2>2. CASE label = "restore"
    <3>1. ASSUME NEW j \in BatchPages' PROVE PageOK(j)'
      <4>1. PageOK(j)
        BY <1>4, <1>5, <2>2 DEF BatchOK
      <4> QED
        BY <1>1, <1>2, <2>2, <4>1 DEF PageOK
    <3>2. ASSUME NEW j \in BatchNexts' PROVE NextOK(j)'
      <4>1. j \in BatchNexts /\ j # i
        BY <1>3, <1>4, <2>2
      <4> QED
        BY <1>1, <1>2, <1>5, <2>2, <4>1 DEF BatchOK, NextOK
    <3> QED
      BY <3>1, <3>2 DEF BatchOK
  <2> QED
    BY <2>1, <2>2
<1> QED
  BY <1>1, <1>6, <1>7, MigratorKind DEF Kept

\* StoreCounter: the batch has been handed back.
LEMMA MigratorStoreKind ==
  ASSUME TypeOK, LocalInv, KindInv, StoreCounter(Migrator)
  PROVE  KindInv'
<1>1. pc[Migrator] = "count" /\ UNCHANGED <<cur, call, panic, list, pg>>
  BY DEF StoreCounter
<1>2. \/ batch' = batch /\ pc' = pc
      \/ batch' = EmptyBatch(batch.to) /\ pc' = [pc EXCEPT ![Migrator] = "scan"]
  BY DEF StoreCounter, Goto, AfterCounting
<1>3. BatchPages' = {} /\ BatchNexts' = {}
  <2>1. CASE batch' = batch /\ pc' = pc
    BY <1>1, <2>1, SlotsInUse
  <2>2. CASE batch' = EmptyBatch(batch.to) /\ pc' = [pc EXCEPT ![Migrator] = "scan"]
    <3>1. pc'[Migrator] = "scan" /\ batch'.page = <<>> /\ batch'.next = <<>>
      BY <2>2 DEF TypeOK, Thread, EmptyBatch
    <3> QED
      BY <3>1, SlotsInUse DEF BeforeRestore
  <2> QED
    BY <1>2, <2>1, <2>2
<1>4. BatchOK'
  BY <1>3 DEF BatchOK
<1> QED
  BY <1>1, <1>2, <1>4, MigratorKind DEF Kept, KindInv

-----------------------------------------------------------------------------
(* The theorems.                                                             *)

\* At the start the free pages are of their lists' tiers, and not present.
LEMMA InitKind == Init => KindInv
<1> SUFFICES ASSUME Init PROVE KindInv
  OBVIOUS
<1> USE ThreadsAssumption DEF Caller, Thread, FaultThread, Migrator
<1>1. ASSUME NEW l \in List, NEW i \in 1 .. Len(list[l]) PROVE Fits(pg, list[l][i], l)
  <2>1. PICK tier \in Tier : l = FreeList(tier)
    BY <1>1 DEF Init, List, ToList, FreeList, Tier
  <2>2. list[l] = InitialFrames(tier) /\ FramesIn(tier) \in Nat
    BY <1>1, <2>1, SizesAssumption DEF Init, FreeList, FramesIn, Tier
  <2>3. i \in 1 .. FramesIn(tier) /\ list[l][i] = <<tier, i - 1>>
    BY <2>2 DEF InitialFrames
  <2>4. i - 1 \in 0 .. FramesIn(tier) - 1
    BY <2>2, <2>3
  <2>5. <<tier, i - 1>> \in Page
    BY <2>4 DEF Page, FramesIn, Tier
  <2> DEFINE p == <<tier, i - 1>>
  <2>6. pg[p].in_dram = (p[1] = "dram") /\ ~pg[p].present
    <3>1. pg = [q \in Page |-> [va |-> 0, devdax_offset |-> InitialOffset(q),
                               in_dram |-> q[1] = "dram", present |-> FALSE]]
      BY DEF Init
    <3> HIDE DEF p
    <3> QED
      BY <2>5, <3>1 DEF p
  <2>7. TierOfList(l) = tier /\ l \in FreeLists
    BY <2>1, ListKinds
  <2>8. p[1] = tier /\ list[l][i] = p
    BY <2>3
  <2> QED
    BY <2>6, <2>7, <2>8 DEF Fits, Tier
<1>2. \A t \in Caller : HandOK(t)
  BY DEF Init, HandOK
<1>3. BatchOK
  <2>1. pc[Migrator] = "scan" /\ batch.page = <<>> /\ batch.next = <<>>
    BY DEF Init, EmptyBatch
  <2>2. BatchPages = {} /\ BatchNexts = {}
    BY <2>1, SlotsInUse DEF BeforeRestore
  <2> QED
    BY <2>2 DEF BatchOK
<1> QED
  BY <1>1, <1>2, <1>3 DEF KindInv, AllFit, WrongKind, Init

\* An allocation makes a free page a mapped one.
LEMMA AllocationKind ==
  ASSUME TypeOK, LocalInv, DeadOK, OwnInv, KindInv, NEW t \in Caller, Allocation(t)
  PROVE  KindInv'
<1>1. "dram" \in Tier /\ "nvm" \in Tier
  BY DEF Tier
<1> QED
  BY <1>1, AllocateKind, PlaceKind, MapKind, PublishKind, AddPageKind DEF Allocation

\* Every step preserves the agreement of flags, lists and uses.
LEMMA NextKind ==
  ASSUME TypeOK, LocalInv, DeadOK, OwnInv, KindInv, [Next]_vars
  PROVE  KindInv'
<1>1. ASSUME NEW t \in App, Calls(t) PROVE KindInv'
  BY <1>1, MmapKind, TouchKind, MunmapKind, RequestKind DEF Calls
<1>2. ASSUME NEW t \in App, AppStep(t) PROVE KindInv'
  BY <1>2, AllocationKind, LoadCounterKind, StoreCounterKind, RemovePageKind, UncountPageKind,
     UnmapKind, ChooseKind, RotateKind, RotateBackKind, TakeKind, QueueKind, RequestDoneKind
  DEF AppStep, Counting, Caller, Thread
<1>3. ASSUME FaultStep PROVE KindInv'
  BY <1>3, ReadFaultKind, AllocationKind, WakeKind DEF FaultStep, Caller
<1>4. ASSUME MigratorStep PROVE KindInv'
  BY <1>4, ScanKind, TakePageKind, TakeNextKind, ProtectKind, CopyKind, RemapKind, RestoreKind,
     RestoreNextKind, LoadCounterKind, MigratorStoreKind
  DEF MigratorStep, Counting, Thread
<1>5. CASE UNCHANGED vars
  <2>1. UNCHANGED <<panic, list, batch, pg, pc, cur, call>>
    BY <1>5 DEF vars
  <2>2. \A u \in Caller : HandOK(u) => HandOK(u)'
    BY <2>1 DEF HandOK, From
  <2>3. BatchOK => BatchOK'
    BY <2>1, BatchKeptOK DEF Kept
  <2> QED
    BY <2>1, <2>2, <2>3 DEF KindInv, Running
<1> QED
  BY <1>1, <1>2, <1>3, <1>4, <1>5 DEF Next

\* The invariant of the flags holds in every reachable state.
THEOREM KindInvariant == Spec => [](IInv /\ OwnInv /\ KindInv)
<1>1. Init => IInv /\ OwnInv /\ KindInv
  BY InitLocal, InitCount, InitOwn, InitKind DEF IInv
<1>2. IInv /\ OwnInv /\ KindInv /\ [Next]_vars => (IInv /\ OwnInv /\ KindInv)'
  BY NextLocal, NextCount, NextOwn, NextKind DEF IInv, CountInv
<1> QED
  BY <1>1, <1>2, PTL DEF Spec

\* A page on a list always has the flags that the users of the list assert.
THEOREM FlagsMatchLists == Spec => []KindsMatchLists
<1>1. IInv /\ KindInv => KindsMatchLists
  <2> SUFFICES ASSUME TypeOK, AllFit(list, pg), NEW l \in List, NEW i \in DOMAIN list[l]
               PROVE  /\ TierOf(list[l][i]) = TierOfList(l)
                      /\ pg[list[l][i]].present <=> l \notin {"dram_free_list", "nvm_free_list"}
    BY DEF IInv, KindInv, KindsMatchLists, TierOfList
  <2>1. DOMAIN list[l] = 1 .. Len(list[l])
    BY DEF TypeOK
  <2> QED
    BY <2>1 DEF AllFit, Fits, TierOf, FreeLists
<1> QED
  BY <1>1, KindInvariant, PTL

\* The assertions of pebs_allocate_page, of the four requests and of
\* hemem_migrate_* on the flags of a page never fail.
THEOREM FlagAssertionsNeverFail == Spec => [](panic \notin WrongKind)
<1>1. KindInv => panic \notin WrongKind
  BY DEF KindInv
<1> QED
  BY <1>1, KindInvariant, PTL

-----------------------------------------------------------------------------
(* The tiers keep their sizes: while a batch is moved, the number of page    *)
(* structs that say DRAM drifts by the pages remapped and not yet paid for   *)
(* by an entry that was freed; when the batch is done the drift is zero.     *)

DramPages == {p \in Page : pg[p].in_dram}

\* The pages of the batch that have their new tier while the entry they are
\* exchanged with still has it as well.
Moved == CASE pc[Migrator] = "remap"        -> batch.i - 1
           [] pc[Migrator] = "restore"      -> batch.want - batch.i + 1
           [] pc[Migrator] = "restore_next" -> batch.want - batch.i
           [] OTHER                         -> 0

Drift == IF Source(batch.to) = Target(batch.to) THEN 0
         ELSE IF Target(batch.to) = "dram" THEN Moved ELSE 0 - Moved

TierInv == Running => Cardinality(DramPages) = FASTMEM_PAGES + Drift

-----------------------------------------------------------------------------
(* Counting pages.                                                           *)

Frames(tier) == {<<tier, i>> : i \in 0 .. FramesIn(tier) - 1}

\* A tier has as many page structs as frames.
LEMMA FramesCount ==
  ASSUME NEW tier
  PROVE  IsFiniteSet(Frames(tier)) /\ Cardinality(Frames(tier)) = FramesIn(tier)
<1> DEFINE S == 0 .. FramesIn(tier) - 1
           f == [i \in S |-> <<tier, i>>]
<1>1. FramesIn(tier) \in Nat
  BY SizesAssumption DEF FramesIn
<1>2. IsFiniteSet(S) /\ Cardinality(S) = FramesIn(tier)
  BY <1>1, FS_Interval
<1>3. f \in Bijection(S, Frames(tier))
  BY DEF Frames, Bijection, Injection, Surjection, IsInjective
<1> QED
  BY <1>2, <1>3, FS_Bijection DEF ExistsBijection

\* There are finitely many pages.
LEMMA PagesFinite == IsFiniteSet(Page)
<1>1. Page = Frames("dram") \cup Frames("nvm")
  BY DEF Page, Frames, FramesIn
<1> QED
  BY <1>1, FramesCount, FS_Union

\* The flag of one page is written.
LEMMA OneFlag ==
  ASSUME TypeOK, NEW h \in Page, \A p \in Page \ {h} : pg'[p].in_dram = pg[p].in_dram
  PROVE  /\ Cardinality(DramPages) \in Nat /\ Cardinality(DramPages') \in Nat
         /\ pg'[h].in_dram /\ ~pg[h].in_dram =>
              Cardinality(DramPages') = Cardinality(DramPages) + 1
         /\ ~pg'[h].in_dram /\ pg[h].in_dram =>
              Cardinality(DramPages') = Cardinality(DramPages) - 1
         /\ (pg'[h].in_dram <=> pg[h].in_dram) => DramPages' = DramPages
<1>1. IsFiniteSet(DramPages) /\ IsFiniteSet(DramPages')
  BY PagesFinite, FS_Subset DEF DramPages
<1>2. Cardinality(DramPages) \in Nat /\ Cardinality(DramPages') \in Nat
  BY <1>1, FS_CardinalityType
<1>3. ASSUME pg'[h].in_dram, ~pg[h].in_dram
      PROVE  Cardinality(DramPages') = Cardinality(DramPages) + 1
  <2>1. DramPages' = DramPages \cup {h} /\ h \notin DramPages
    BY <1>3 DEF DramPages
  <2> QED
    BY <1>1, <2>1, FS_AddElement
<1>4. ASSUME ~pg'[h].in_dram, pg[h].in_dram
      PROVE  Cardinality(DramPages') = Cardinality(DramPages) - 1
  <2>1. DramPages' = DramPages \ {h} /\ h \in DramPages
    BY <1>4 DEF DramPages
  <2> QED
    BY <1>1, <2>1, FS_RemoveElement
<1>5. (pg'[h].in_dram <=> pg[h].in_dram) => DramPages' = DramPages
  BY DEF DramPages
<1> QED
  BY <1>2, <1>3, <1>4, <1>5

-----------------------------------------------------------------------------
(* Steps that write no flag in_dram.                                         *)

\* The process dies, or no tier changes and the batch does not go on.
Neutral ==
  \/ panic' # "none"
  \/ /\ panic' = panic
     /\ \A p \in Page : pg'[p].in_dram = pg[p].in_dram
     /\ batch' = batch /\ pc'[Migrator] = pc[Migrator]

\* Such a step keeps the tiers as they are.
LEMMA NeutralTier ==
  ASSUME TierInv, Neutral
  PROVE  TierInv'
<1>1. CASE panic' # "none"
  BY <1>1 DEF TierInv, Running
<1>2. CASE panic' = "none"
  <2>1. DramPages' = DramPages
    BY <1>2 DEF Neutral, DramPages
  <2>2. Drift' = Drift
    BY <1>2 DEF Neutral, Drift, Moved
  <2> QED
    BY <1>2, <2>1, <2>2 DEF Neutral, TierInv, Running
<1> QED
  BY <1>1, <1>2

\* A call writes no page.
LEMMA CallsNeutral ==
  ASSUME TypeOK, NEW t \in App, Calls(t)
  PROVE  Neutral
<1> USE ThreadsAssumption DEF Thread, FaultThread, Migrator, Goto, Neutral, TypeOK
<1>1. ASSUME NEW lo, NEW hi, NEW populate, Mmap(t, lo, hi, populate) PROVE Neutral
  BY <1>1 DEF Mmap
<1>2. ASSUME NEW v, Touch(t, v) PROVE Neutral
  BY <1>2 DEF Touch
<1>3. ASSUME NEW lo, NEW hi, Munmap(t, lo, hi) PROVE Neutral
  BY <1>3 DEF Munmap
<1>4. ASSUME NEW to, NEW n, NEW random, Request(t, to, n, random) PROVE Neutral
  BY <1>4 DEF Request
<1> QED
  BY <1>1, <1>2, <1>3, <1>4 DEF Calls

\* An allocation writes the fields va and present.
LEMMA AllocationNeutral ==
  ASSUME TypeOK, LocalInv, NEW t \in Caller, Allocation(t)
  PROVE  Neutral
<1> USE ThreadsAssumption
    DEF Thread, Caller, FaultThread, Migrator, Goto, StartCounting, Neutral, TypeOK, Panic
<1>1. ASSUME NEW tier, Allocate(t, tier) PROVE Neutral
  BY <1>1 DEF Allocate
<1>2. ASSUME Place(t) PROVE Neutral
  <2>1. cur[t] \in Page
    BY <1>2 DEF Place, LocalInv, AppOK, FaultOK, HoldingLabel
  <2> QED
    BY <1>2, <2>1 DEF Place, PageRecord
<1>3. ASSUME Map(t) PROVE Neutral
  BY <1>3 DEF Map
<1>4. ASSUME Publish(t) PROVE Neutral
  <2>1. cur[t] \in Page
    BY <1>4 DEF Publish, LocalInv, AppOK, FaultOK, HoldingLabel
  <2> QED
    BY <1>4, <2>1 DEF Publish, PageRecord
<1>5. ASSUME AddPage(t) PROVE Neutral
  BY <1>5 DEF AddPage
<1> QED
  BY <1>1, <1>2, <1>3, <1>4, <1>5 DEF Allocation

\* The rest of an application thread's steps write no page.
LEMMA AppStepNeutral ==
  ASSUME TypeOK, LocalInv, NEW t \in App, AppStep(t)
  PROVE  Neutral
<1> USE ThreadsAssumption
    DEF Thread, FaultThread, Migrator, Goto, StartCounting, Neutral, TypeOK, Panic
<1>1. ASSUME LoadCounter(t) PROVE Neutral
  BY <1>1 DEF LoadCounter
<1>2. ASSUME StoreCounter(t) PROVE Neutral
  BY <1>2 DEF StoreCounter
<1>3. ASSUME RemovePage(t) PROVE Neutral
  BY <1>3 DEF RemovePage
<1>4. ASSUME UncountPage(t) PROVE Neutral
  BY <1>4 DEF UncountPage
<1>5. ASSUME Unmap(t) PROVE Neutral
  BY <1>5 DEF Unmap
<1>6. ASSUME Choose(t) PROVE Neutral
  BY <1>6 DEF Choose
<1>7. ASSUME Rotate(t) PROVE Neutral
  BY <1>7 DEF Rotate
<1>8. ASSUME RotateBack(t) PROVE Neutral
  BY <1>8 DEF RotateBack
<1>9. ASSUME Take(t) PROVE Neutral
  BY <1>9 DEF Take
<1>10. ASSUME Queue(t) PROVE Neutral
  BY <1>10 DEF Queue
<1>11. ASSUME RequestDone(t) PROVE Neutral
  BY <1>11 DEF RequestDone
<1>12. ASSUME Allocation(t) PROVE Neutral
  BY <1>12, AllocationNeutral DEF Caller
<1> QED
  BY <1>1, <1>2, <1>3, <1>4, <1>5, <1>6, <1>7, <1>8, <1>9, <1>10, <1>11, <1>12
  DEF AppStep, Counting

\* Nor do the fault thread's.
LEMMA FaultStepNeutral ==
  ASSUME TypeOK, LocalInv, FaultStep
  PROVE  Neutral
<1> USE ThreadsAssumption DEF Thread, FaultThread, Migrator, Goto, Neutral, TypeOK
<1>1. ASSUME NEW t \in App, ReadFault(t) PROVE Neutral
  BY <1>1 DEF ReadFault
<1>2. ASSUME Wake PROVE Neutral
  BY <1>2 DEF Wake, WaitsFor, LocalInv, MigratorOK, MigratorLabel
<1>3. ASSUME Allocation(FaultThread) PROVE Neutral
  BY <1>3, AllocationNeutral DEF Caller
<1> QED
  BY <1>1, <1>2, <1>3 DEF FaultStep

-----------------------------------------------------------------------------
(* The migration thread.                                                     *)

\* Before the first page is remapped and after the last entry is freed nothing
\* is in between.
LEMMA MigratorTier ==
  ASSUME TypeOK, LocalInv, DeadOK, OwnInv, KindInv, TierInv, MigratorStep
  PROVE  TierInv'
<1> USE ThreadsAssumption DEF Thread, FaultThread, Migrator
<1>1. CASE panic' # "none"
  BY <1>1 DEF TierInv, Running
<1>2. CASE panic' = "none"
  <2>1. Running /\ Cardinality(DramPages) = FASTMEM_PAGES + Drift
    <3>1. pc[Migrator] # "dead"
      BY DEF MigratorStep, Scan, TakePage, TakeNext, Protect, Copy, Remap, Restore, RestoreNext,
             Counting, LoadCounter, StoreCounter
    <3> QED
      BY <3>1, Alive DEF TierInv
  <2>2. ASSUME pg' = pg, Moved = 0, Moved' = 0 PROVE TierInv'
    <3>1. Drift = 0 /\ Drift' = 0 /\ DramPages' = DramPages
      BY <2>2 DEF Drift, DramPages
    <3> QED
      BY <2>1, <3>1 DEF TierInv
  <2>3. ASSUME Scan PROVE TierInv'
    BY <2>2, <2>3 DEF Scan, Goto, Moved, TypeOK
  <2>4. ASSUME TakePage PROVE TierInv'
    BY <1>2, <2>2, <2>4 DEF TakePage, Goto, Moved, TypeOK, Panic
  <2>5. ASSUME TakeNext PROVE TierInv'
    BY <1>2, <2>2, <2>5 DEF TakeNext, Goto, Moved, TypeOK, Panic
  <2>6. ASSUME Protect PROVE TierInv'
    BY <1>2, <2>2, <2>6 DEF Protect, LoopOver, Goto, Moved, TypeOK, Panic
  <2>7. ASSUME Copy PROVE TierInv'
    <3>1. pc'[Migrator] = "remap" /\ batch' = batch /\ pg' = pg /\ pc[Migrator] = "copy"
      BY <1>2, <2>7 DEF Copy, Goto, TypeOK, Panic
    <3>2. batch.i = 1
      BY <3>1 DEF LocalInv, MigratorOK
    <3> QED
      BY <2>2, <3>1, <3>2 DEF Moved
  <2>8. ASSUME Counting(Migrator) PROVE TierInv'
    <3>1. pg' = pg /\ pc[Migrator] = "count" /\ pc'[Migrator] \in {"count", "scan"}
      BY <2>8 DEF Counting, LoadCounter, StoreCounter, Goto, AfterCounting, TypeOK
    <3> QED
      BY <2>2, <3>1 DEF Moved
  <2>9. ASSUME Remap PROVE TierInv'
    <3> DEFINE h   == batch.page[batch.i]
               dst == Target(batch.to)
               src == Source(batch.to)
    <3>1. /\ pc[Migrator] = "remap" /\ batch.want \in Nat /\ batch.i \in 1 .. batch.want
          /\ Len(batch.page) = batch.want
      BY <2>9, SizesAssumption DEF Remap, LocalInv, MigratorOK, TypeOK, BatchRecord
    <3>2. batch.i \in BatchPages
      BY <3>1, SlotsInUse DEF BeforeRestore
    <3>3. h \in Page /\ PageOK(batch.i)
      BY <2>1, <3>2, SlotsArePages DEF KindInv, BatchOK
    <3>4. dst \in Tier /\ src \in Tier
      BY ListNames
    <3>5. pg[h].in_dram <=> src = "dram"
      <4>1. TierOfList(batch.to) = src
        BY ListKinds DEF TypeOK, BatchRecord
      <4> QED
        BY <3>1, <3>3, <3>4, <4>1 DEF PageOK, Fits, Tier
    <3>6. /\ pg'[h].in_dram <=> dst = "dram"
          /\ \A p \in Page \ {h} : pg'[p].in_dram = pg[p].in_dram
      BY <2>9, <3>3 DEF Remap, TypeOK, PageRecord
    <3>7. batch'.to = batch.to /\ Moved = batch.i - 1 /\ Moved' = batch.i
      <4>1. batch'.to = batch.to /\ batch'.want = batch.want
        BY <2>9 DEF Remap, LoopOver, TypeOK, BatchRecord
      <4>2. CASE batch.i < batch.want
        <5>1. pc'[Migrator] = "remap" /\ batch'.i = batch.i + 1
          BY <2>9, <4>2 DEF Remap, LoopOver, Goto, TypeOK, BatchRecord
        <5> QED
          BY <3>1, <4>1, <5>1 DEF Moved
      <4>3. CASE ~(batch.i < batch.want)
        <5>1. pc'[Migrator] = "restore" /\ batch'.i = 1
          BY <2>9, <4>3 DEF Remap, LoopOver, Goto, TypeOK, BatchRecord
        <5> QED
          BY <3>1, <4>1, <4>3, <5>1 DEF Moved
      <4> QED
        BY <4>2, <4>3
    <3>8. /\ Cardinality(DramPages) \in Nat /\ Cardinality(DramPages') \in Nat
          /\ pg'[h].in_dram /\ ~pg[h].in_dram =>
               Cardinality(DramPages') = Cardinality(DramPages) + 1
          /\ ~pg'[h].in_dram /\ pg[h].in_dram =>
               Cardinality(DramPages') = Cardinality(DramPages) - 1
          /\ (pg'[h].in_dram <=> pg[h].in_dram) => DramPages' = DramPages
      BY <3>3, <3>6, OneFlag
    <3>9. Cardinality(DramPages') = FASTMEM_PAGES + Drift'
      <4>1. Drift' = IF src = dst THEN 0 ELSE IF dst = "dram" THEN Moved' ELSE 0 - Moved'
        BY <3>7 DEF Drift
      <4>2. Drift = IF src = dst THEN 0 ELSE IF dst = "dram" THEN Moved ELSE 0 - Moved
        BY DEF Drift
      <4> HIDE DEF src, dst, h
      <4>3. CASE src = dst
        BY <2>1, <3>5, <3>6, <3>8, <4>1, <4>2, <4>3
      <4>4. CASE src = "dram" /\ dst = "nvm"
        <5>1. Cardinality(DramPages') = Cardinality(DramPages) - 1
          BY <3>5, <3>6, <3>8, <4>4
        <5>2. Drift = 0 - Moved /\ Drift' = 0 - Moved'
          BY <4>1, <4>2, <4>4
        <5>3. batch.i \in Int
          BY <3>1
        <5>4. Drift' = Drift - 1 /\ Drift \in Int
          BY <3>7, <5>2, <5>3
        <5> QED
          BY <2>1, <5>1, <5>4, SizesAssumption
      <4>5. CASE src = "nvm" /\ dst = "dram"
        BY <2>1, <3>1, <3>5, <3>6, <3>7, <3>8, <4>1, <4>2, <4>5, SizesAssumption
      <4> QED
        BY <3>4, <4>3, <4>4, <4>5 DEF Tier
    <3> QED
      BY <3>9 DEF TierInv
  <2>10. ASSUME Restore PROVE TierInv'
    <3> DEFINE m   == batch.next[batch.i]
               dst == Target(batch.to)
               src == Source(batch.to)
    <3>1. /\ pc[Migrator] = "restore" /\ batch.want \in Nat /\ batch.i \in 1 .. batch.want
          /\ Len(batch.next) = batch.want
      BY <2>10, SizesAssumption DEF Restore, LocalInv, MigratorOK, TypeOK, BatchRecord
    <3>2. batch.i \in BatchNexts
      BY <3>1, SlotsInUse
    <3>3. m \in Page /\ NextOK(batch.i)
      BY <2>1, <3>2, SlotsArePages DEF KindInv, BatchOK
    <3>4. dst \in Tier /\ src \in Tier
      BY ListNames
    <3>5. pg[m].in_dram <=> dst = "dram"
      <4>1. TierOfList(FreeList(dst)) = dst
        BY <3>4, ListKinds
      <4> QED
        BY <3>1, <3>3, <3>4, <4>1 DEF NextOK, Fits, Tier
    <3>6. /\ pg'[m].in_dram <=> src = "dram"
          /\ \A p \in Page \ {m} : pg'[p].in_dram = pg[p].in_dram
      BY <2>10, <3>3 DEF Restore, FreedTier, TypeOK, PageRecord
    <3>7. /\ batch'.to = batch.to
          /\ Moved = batch.want - batch.i + 1 /\ Moved' = batch.want - batch.i
      BY <2>10, <3>1 DEF Restore, Goto, Moved, TypeOK
    <3>8. /\ Cardinality(DramPages) \in Nat /\ Cardinality(DramPages') \in Nat
          /\ pg'[m].in_dram /\ ~pg[m].in_dram =>
               Cardinality(DramPages') = Cardinality(DramPages) + 1
          /\ ~pg'[m].in_dram /\ pg[m].in_dram =>
               Cardinality(DramPages') = Cardinality(DramPages) - 1
          /\ (pg'[m].in_dram <=> pg[m].in_dram) => DramPages' = DramPages
      BY <3>3, <3>6, OneFlag
    <3>9. Cardinality(DramPages') = FASTMEM_PAGES + Drift'
      <4>1. Drift' = IF src = dst THEN 0 ELSE IF dst = "dram" THEN Moved' ELSE 0 - Moved'
        BY <3>7 DEF Drift
      <4>2. Drift = IF src = dst THEN 0 ELSE IF dst = "dram" THEN Moved ELSE 0 - Moved
        BY DEF Drift
      <4> HIDE DEF src, dst, m
      <4>3. CASE src = dst
        BY <2>1, <3>5, <3>6, <3>8, <4>1, <4>2, <4>3
      <4>4. CASE src = "dram" /\ dst = "nvm"
        BY <2>1, <3>1, <3>5, <3>6, <3>7, <3>8, <4>1, <4>2, <4>4, SizesAssumption
      <4>5. CASE src = "nvm" /\ dst = "dram"
        BY <2>1, <3>1, <3>5, <3>6, <3>7, <3>8, <4>1, <4>2, <4>5, SizesAssumption
      <4> QED
        BY <3>4, <4>3, <4>4, <4>5 DEF Tier
    <3> QED
      BY <3>9 DEF TierInv
  <2>11. ASSUME RestoreNext PROVE TierInv'
    <3>1. /\ pc[Migrator] = "restore_next" /\ batch.want \in Nat /\ batch.i \in 1 .. batch.want
      BY <2>11, SizesAssumption DEF RestoreNext, LocalInv, MigratorOK, TypeOK, BatchRecord
    <3>2. /\ pg' = pg /\ batch'.to = batch.to /\ batch'.want = batch.want
          /\ batch'.i = batch.i + 1
          /\ pc'[Migrator] = IF batch.i < batch.want THEN "restore" ELSE "count"
      BY <2>11 DEF RestoreNext, StartCounting, Goto, TypeOK, BatchRecord
    <3>3. Moved' = Moved
      BY <3>1, <3>2 DEF Moved
    <3>4. Drift' = Drift /\ DramPages' = DramPages
      BY <3>2, <3>3 DEF Drift, DramPages
    <3> QED
      BY <2>1, <3>4 DEF TierInv
  <2> QED
    BY <2>3, <2>4, <2>5, <2>6, <2>7, <2>8, <2>9, <2>10, <2>11 DEF MigratorStep
<1> QED
  BY <1>1, <1>2

-----------------------------------------------------------------------------
(* The theorem.                                                              *)

\* At the start the DRAM pages are those of the DRAM frames.
LEMMA InitTier == Init => TierInv
<1> SUFFICES ASSUME Init PROVE Cardinality(DramPages) = FASTMEM_PAGES + Drift
  BY DEF TierInv
<1>1. pg = [p \in Page |-> [va |-> 0, devdax_offset |-> InitialOffset(p),
                            in_dram |-> p[1] = "dram", present |-> FALSE]]
  BY DEF Init
<1>2. DramPages = Frames("dram")
  <2>1. \A p \in Page : pg[p].in_dram <=> p[1] = "dram"
    BY <1>1
  <2> QED
    BY <2>1 DEF DramPages, Page, Frames, FramesIn
<1>3. Drift = 0
  <2>1. pc[Migrator] = "scan"
    BY ThreadsAssumption DEF Init, Thread, FaultThread, Migrator
  <2> QED
    BY <2>1 DEF Drift, Moved
<1> QED
  BY <1>2, <1>3, FramesCount, SizesAssumption DEF FramesIn

\* Every step keeps the tiers' sizes up to the drift.
LEMMA NextTier ==
  ASSUME TypeOK, LocalInv, DeadOK, OwnInv, KindInv, TierInv, [Next]_vars
  PROVE  TierInv'
<1>1. CASE Next
  BY <1>1, CallsNeutral, AppStepNeutral, FaultStepNeutral, NeutralTier, MigratorTier DEF Next
<1>2. CASE UNCHANGED vars
  BY <1>2, NeutralTier DEF Neutral, vars
<1> QED
  BY <1>1, <1>2

\* Between two batches as many page structs say DRAM as there are DRAM frames,
\* whatever has been moved.
THEOREM TiersKeepTheirSizes == Spec => []TiersConserved
<1> DEFINE J == IInv /\ OwnInv /\ KindInv
<1>1. Init => TierInv
  BY InitTier
<1>2. J /\ TierInv /\ [Next]_vars => TierInv'
  BY NextTier DEF IInv, CountInv
<1>3. J /\ TierInv => TiersConserved
  <2> SUFFICES ASSUME DeadOK, TierInv, pc[Migrator] \in {"scan", "count"}
               PROVE  Cardinality(DramPages) = FASTMEM_PAGES
    BY DEF IInv, CountInv, TiersConserved, DramPages
  <2>1. Running
    BY Alive DEF Thread
  <2>2. Drift = 0
    BY DEF Drift, Moved
  <2> QED
    BY <2>1, <2>2, SizesAssumption DEF TierInv
<1>4. Spec => []J
  BY KindInvariant
<1> HIDE DEF J
<1> QED
  BY <1>1, <1>2, <1>3, <1>4, PTL DEF Spec

=============================================================================
