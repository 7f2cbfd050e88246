--------------------------- MODULE MigrationProofs ---------------------------
(***************************************************************************)
(* While pages move under the application's stores: the steps of Migration *)
(* are steps of PageManager, so that everything proved of PageManager holds *)
(* of it; a page is write-protected only while the migration thread has it  *)
(* in a marked batch; and handle_wp_fault always finds its page.            *)
(*                                                                          *)
(* The reason for the last is not local: a thread is held on a page that    *)
(* the batch protects, such a page has an address, and a page that has one  *)
(* is in the table or in the hand of a thread that is about to add it; that  *)
(* thread is the fault thread, which reads no fault before it has, or the   *)
(* thread whose own mmap has not returned, and nobody stores to its region. *)
(***************************************************************************)
EXTENDS Migration, PageManagerTrackProofs

-----------------------------------------------------------------------------
(* The inductive invariant.                                                  *)

\* The variables the argument speaks of.
MemTypeOK ==
  /\ protected \in [VA -> BOOLEAN] /\ moving \in BOOLEAN
  /\ store \in [App -> (VA \X Value) \cup {None}]
  /\ asleep \subseteq App

\* Address v is tracked, or the fault thread is about to track it.
Pending(v) == Tracked(v) \/ (pc[FaultThread] = "add" /\ call[FaultThread].va = v)

\* A store goes to a mapped page that no mmap is populating.
StoreOK == \A t \in App : store[t] # None =>
  /\ vm[store[t][1]] # Unmapped
  /\ \A u \in App : InRegion(store[t][1], u) => call[u].op = "touch"

\* A thread is held on a page that handle_wp_fault will find.
SleepOK == \A t \in asleep : store[t] # None /\ Pending(store[t][1])

\* Entry j of the batch has been protected and not yet remapped.
Between(j) == \/ pc[Migrator] = "protect" /\ j < batch.i
              \/ pc[Migrator] = "copy"
              \/ pc[Migrator] = "remap" /\ j >= batch.i

\* A protected page is between the two loops of the migration thread.
ShieldOK ==
  /\ moving => pc[Migrator] \in {"protect", "copy", "remap", "restore"}
  /\ \A v \in VA : protected[v] =>
       moving /\ \E j \in 1 .. Len(batch.page) : Between(j) /\ pg[batch.page[j]].va = v

\* What PageManager knows of its own steps.
Base == /\ Known /\ CountInv /\ TrackInv /\ OpsOK
        /\ Running => KnownVa

MemInv == /\ Base /\ MemTypeOK
          /\ Running => StoreOK /\ SleepOK /\ ShieldOK
          /\ ProtectedOnlyInMoves /\ FaultingPageTracked

\* Every step of PageManager preserves what it knows.
LEMMA NextBase ==
  ASSUME Base, [Next]_vars
  PROVE  Base'
<1>1. TypeOK' /\ LocalInv' /\ CountInv' /\ OwnInv' /\ KindInv' /\ TrackInv' /\ OpsOK'
  BY NextLocal, NextCount, NextOwn, NextKind, NextTrack, NextOps DEF Base, Known
<1>2. (Running => KnownVa)'
  BY KeepsItsPages, NextKnownVa, NobodyCalls DEF Base
<1> QED
  BY <1>1, <1>2 DEF Base, Known, CountInv

-----------------------------------------------------------------------------
(* The steps are steps of PageManager.                                       *)

\* handle_wp_fault finds the page it looks for.
LEMMA FaultFindsPage ==
  ASSUME MemInv, NEW t \in App, ReadWpFault(t)
  PROVE  UNCHANGED vars
<1>1. Running
  BY Alive DEF MemInv, Base, Known, ReadWpFault, BetweenFaults, Thread
<1>2. t \in asleep /\ pc[FaultThread] = "poll"
  BY DEF ReadWpFault, BetweenFaults
<1>3. Tracked(store[t][1])
  BY <1>1, <1>2 DEF MemInv, SleepOK, Pending
<1> QED
  BY <1>3 DEF ReadWpFault, Tracked

\* The steps of the application's threads and of the fault thread.
OtherStep == (\E t \in App : Calls(t) \/ AppStep(t)) \/ FaultStep

\* Whatever the threads and the fault thread do is a step of PageManager, or
\* none, and leaves the protection of pages to the migration thread.
LEMMA ThreadSteps ==
  ASSUME MemInv, MemNext, ~MoveStep
  PROVE  UNCHANGED <<protected, moving>> /\ (OtherStep \/ UNCHANGED vars)
<1>1. ASSUME NEW t \in App, Call(t) PROVE UNCHANGED <<protected, moving>> /\ OtherStep
  <2>1. 1 \in VA /\ NumVA \in VA /\ 1 <= NumVA
    BY SizesAssumption, SlotsAssumption DEF VA
  <2>2. \A populate \in BOOLEAN : (populate \/ "touch" \in Ops) /\ Mmap(t, 1, NumVA, populate) => Calls(t)
    BY <2>1 DEF Calls
  <2>3. \A to \in Kinds, n \in 1 .. MaxPagesNum : Request(t, to, n, FALSE) => Calls(t)
    BY DEF Calls
  <2> QED
    BY <1>1, <2>2, <2>3 DEF Call, OtherStep, memvars
<1>2. ASSUME NEW t \in App \cup {FaultThread}, AllocationStep(t)
      PROVE  UNCHANGED <<protected, moving>> /\ (Allocation(t) \/ UNCHANGED vars)
  BY <1>2 DEF AllocationStep, MapZeroed, ClearNewPage, TrackPage, Allocation, memvars
<1>3. ASSUME NEW t \in App, ThreadStep(t)
      PROVE  UNCHANGED <<protected, moving>> /\ (OtherStep \/ UNCHANGED vars)
  <2>1. CASE FinishStore(t) \/ StoreIsHeld(t)
    BY <2>1 DEF FinishStore, StoreIsHeld
  <2>2. CASE StoreMisses(t)
    <3>1. store[t][1] \in VA
      BY <2>2 DEF StoreMisses, Tries, MemInv, MemTypeOK
    <3> QED
      BY <2>2, <3>1 DEF StoreMisses, OtherStep, Calls, memvars
  <2>3. CASE AllocationStep(t)
    BY <1>2, <2>3 DEF OtherStep, AppStep
  <2>4. CASE (Counting(t) \/ Take(t) \/ Queue(t) \/ RequestDone(t)) /\ UNCHANGED memvars
    BY <2>4 DEF OtherStep, AppStep, memvars
  <2> QED
    BY <1>3, <2>1, <2>2, <2>3, <2>4 DEF ThreadStep
<1>4. ASSUME NEW t \in App, NEW v \in VA, NEW x \in Value, StartStore(t, v, x)
      PROVE  UNCHANGED <<protected, moving>> /\ UNCHANGED vars
  BY <1>4 DEF StartStore
<1>5. HandleFault => UNCHANGED <<protected, moving>> /\ (OtherStep \/ UNCHANGED vars)
  <2>1. ASSUME NEW t \in App, ReadWpFault(t)
        PROVE  UNCHANGED <<protected, moving>> /\ UNCHANGED vars
    BY <2>1, FaultFindsPage DEF ReadWpFault, memvars
  <2>2. EndOfMove \/ WakeStores => UNCHANGED <<protected, moving>> /\ UNCHANGED vars
    BY DEF EndOfMove, WakeStores
  <2> QED
    BY <1>2, <2>1, <2>2 DEF HandleFault, OtherStep, FaultStep, memvars
<1> QED
  BY <1>1, <1>3, <1>4, <1>5 DEF MemNext

\* The migration thread's steps around the moves are those of PageManager.
LEMMA MoveSteps ==
  ASSUME MoveStep
  PROVE  MigratorStep \/ UNCHANGED vars
  BY DEF MoveStep, SetMigrating, ProtectPage, CopyBatch, RemapPage, ClearMigrating, MigratorStep

\* Every step is one of PageManager, or none.
LEMMA StepsRefine ==
  ASSUME MemInv, [MemNext]_allvars
  PROVE  [Next]_vars
<1>1. OtherStep \/ MigratorStep => Next
  BY DEF OtherStep, Next
<1> QED
  BY <1>1, ThreadSteps, MoveSteps DEF allvars

-----------------------------------------------------------------------------
(* What a step of PageManager leaves as it is.                               *)

\* Nothing is taken out of the table, and what the fault thread is about to
\* track is tracked in the end.
LEMMA PendingStays ==
  ASSUME Base, Next, Running', NEW v \in VA, Pending(v)
  PROVE  Pending(v)'
<1> USE ThreadsAssumption DEF Base, Known, Caller, Thread
<1>1. Running /\ Track /\ ~Died /\ TypeOK
  BY OnlyRunning DEF TrackInv, Died, Panic, Running
<1>2. v # 0
  BY DEF VA
<1>3. ASSUME hashed \subseteq hashed', Tracked(v) PROVE Tracked(v)'
  <2>1. PICK p \in hashed : pg[p].va = v
    BY <1>3 DEF Tracked
  <2>2. pg'[p].va = v
    BY <1>1, <1>2, <2>1, AddressesStay DEF TypeOK
  <2> QED
    BY <1>3, <2>1, <2>2 DEF Tracked
<1>4. ASSUME NEW t \in App PROVE ~RemovePage(t) /\ ~Unmap(t)
  BY <1>4, NobodyCalls, KeepsItsPages DEF RemovePage, Unmap
<1>5. hashed \subseteq hashed'
  <2>1. ASSUME NEW t \in Caller, Place(t) \/ Map(t) \/ Publish(t) \/ AddPage(t)
        PROVE  hashed \subseteq hashed'
    BY <2>1 DEF Place, Map, Publish, AddPage, Panic
  <2>2. ASSUME NEW t \in App, NEW lo \in VA, NEW hi \in VA, NEW populate \in BOOLEAN,
               Mmap(t, lo, hi, populate)
        PROVE  hashed \subseteq hashed'
    BY <2>2 DEF Mmap
  <2>3. Remap \/ Restore => hashed \subseteq hashed'
    BY DEF Remap, Restore
  <2> QED
    BY <1>1, <1>4, <2>1, <2>2, <2>3, StepKinds DEF Aside
<1>6. SUFFICES ASSUME ~Tracked(v), pc[FaultThread] = "add", call[FaultThread].va = v
               PROVE  Pending(v)'
  BY <1>3, <1>5 DEF Pending
<1>7. CASE Aside
  BY <1>6, <1>7 DEF Aside, Pending, Backed, Has
<1>8. ASSUME NEW t \in Caller, t # FaultThread, \E label : pc' = [pc EXCEPT ![t] = label],
             call'[FaultThread] = call[FaultThread]
      PROVE  Pending(v)'
  BY <1>1, <1>6, <1>8 DEF Pending, TypeOK
<1>9. ASSUME NEW t \in App, NEW lo \in VA, NEW hi \in VA, NEW populate \in BOOLEAN,
             Mmap(t, lo, hi, populate)
      PROVE  Pending(v)'
  <2>1. call'[FaultThread] = call[FaultThread]
    BY <1>1, <1>9 DEF Mmap, TypeOK
  <2> QED
    BY <1>8, <1>9, <2>1 DEF Mmap, Goto
<1>10. ASSUME NEW t \in Caller, t # FaultThread, Place(t) \/ Map(t) \/ Publish(t) \/ AddPage(t)
       PROVE  Pending(v)'
  <2>1. ~Panic("page already tracked")
    BY <1>1 DEF Died
  <2>2. call'[FaultThread] = call[FaultThread]
    BY <1>1, <1>10, <2>1 DEF Place, Map, Publish, AddPage, TypeOK
  <2> QED
    BY <1>8, <1>10, <2>1, <2>2 DEF Place, Map, Publish, AddPage, Goto, StartCounting
<1>11. ~Place(FaultThread) /\ ~Map(FaultThread) /\ ~Publish(FaultThread)
  BY <1>6 DEF Place, Map, Publish
<1>12. CASE AddPage(FaultThread)
  <2>1. ~Panic("page already tracked")
    BY <1>1 DEF Died
  <2>2. hashed' = hashed \cup {cur[FaultThread]} /\ pg' = pg
    BY <1>12, <2>1 DEF AddPage
  <2>3. pg[cur[FaultThread]].va = v
    BY <1>1, <1>6 DEF Track, HasOK, Has
  <2> QED
    BY <2>2, <2>3 DEF Pending, Tracked
<1>13. CASE Remap \/ Restore
  <2>1. pc'[FaultThread] = pc[FaultThread] /\ call' = call
    BY <1>1, <1>13 DEF Remap, Restore, LoopOver, Goto, TypeOK, FaultThread, Migrator
  <2> QED
    BY <1>6, <2>1 DEF Pending
<1> QED
  BY <1>1, <1>4, <1>7, <1>9, <1>10, <1>11, <1>12, <1>13, StepKinds

\* A mapped page stays mapped.
LEMMA MappedStays ==
  ASSUME Base, Next, Running', NEW v \in VA, vm[v] # Unmapped
  PROVE  vm'[v] # Unmapped
<1> USE ThreadsAssumption DEF Base, Known, Caller, Thread
<1>1. ~Died /\ vm \in [VA -> Frame \cup {Unmapped, Reserved}] /\ Unmapped # Reserved
  BY DEF Died, Panic, Running, TypeOK, Unmapped, Reserved
<1>2. ASSUME NEW t \in App PROVE ~RemovePage(t) /\ ~Unmap(t)
  BY <1>2, NobodyCalls, KeepsItsPages DEF RemovePage, Unmap
<1>3. ASSUME NEW t \in App, NEW lo \in VA, NEW hi \in VA, NEW populate \in BOOLEAN,
             Mmap(t, lo, hi, populate)
      PROVE  vm'[v] # Unmapped
  BY <1>1, <1>3 DEF Mmap
<1>4. ASSUME NEW a \in Tier, NEW b, NEW w, vm' = [vm EXCEPT ![w] = <<a, b>>]
      PROVE  vm'[v] # Unmapped
  <2>1. <<a, b>> # Unmapped
    BY DEF Tier, Unmapped
  <2> QED
    BY <1>1, <1>4, <2>1
<1>5. ASSUME NEW t \in Caller, Place(t) \/ Map(t) \/ Publish(t) \/ AddPage(t)
      PROVE  vm'[v] # Unmapped
  <2>1. ASSUME Map(t) PROVE vm'[v] # Unmapped
    <3>1. vm' = [vm EXCEPT ![call[t].va] = <<TierOf(cur[t]), pg[cur[t]].devdax_offset>>]
      BY <2>1 DEF Map, FrameOf
    <3>2. TierOf(cur[t]) \in Tier
      BY DEF TierOf, Tier
    <3> QED
      BY <1>4, <3>1, <3>2
  <2> QED
    BY <1>5, <2>1 DEF Place, Publish, AddPage, Panic
<1>6. Remap => vm'[v] # Unmapped
  <2>1. Target(batch.to) \in Tier
    BY DEF Target, Tier
  <2> QED
    BY <1>4, <2>1 DEF Remap
<1>7. Restore => vm'[v] # Unmapped
  BY DEF Restore
<1> QED
  BY <1>1, <1>2, <1>3, <1>5, <1>6, <1>7, StepKinds DEF Aside

\* No mmap begins to work on a mapped address.
LEMMA NobodyMoves ==
  ASSUME Base, Next, Running', NEW v \in VA, vm[v] # Unmapped,
         NEW u \in App, InRegion(v, u)'
  PROVE  call'[u].op = "touch" \/ (InRegion(v, u) /\ call'[u].op = call[u].op)
<1> USE ThreadsAssumption DEF Base, Known, Thread
<1>1. /\ ~Died /\ pc \in [Thread -> Label] /\ call \in [Thread -> CallRecord]
  BY DEF Died, Panic, Running, TypeOK
<1>2. ASSUME NEW t \in Thread,
             \/ call' = call
             \/ call' = [call EXCEPT ![t].va = @ + 1]
             \/ call' = [call EXCEPT ![t].left = @ - 1]
             \/ \E c : call' = [call EXCEPT ![t].choose = c]
             \/ t = FaultThread /\ \E r : call' = [call EXCEPT ![t] = r]
      PROVE  call'[u].op = call[u].op /\ call'[u].lo = call[u].lo /\ call'[u].hi = call[u].hi
  BY <1>1, <1>2 DEF CallRecord
<1>3. ASSUME NEW t \in Thread, pc[t] # "idle",
             pc' = pc \/ \E label : pc' = [pc EXCEPT ![t] = label],
             \/ call' = call
             \/ call' = [call EXCEPT ![t].va = @ + 1]
             \/ call' = [call EXCEPT ![t].left = @ - 1]
             \/ \E c : call' = [call EXCEPT ![t].choose = c]
             \/ t = FaultThread /\ \E r : call' = [call EXCEPT ![t] = r]
      PROVE  InRegion(v, u) /\ call'[u].op = call[u].op
  <2>1. call'[u].op = call[u].op /\ call'[u].lo = call[u].lo /\ call'[u].hi = call[u].hi
    BY <1>2, <1>3
  <2>2. pc'[u] # "idle" => pc[u] # "idle"
    BY <1>1, <1>3
  <2> QED
    BY <2>1, <2>2 DEF InRegion
<1>4. ASSUME NEW t \in App, Calls(t)
      PROVE  call'[u].op = "touch" \/ (InRegion(v, u) /\ call'[u].op = call[u].op)
  <2>1. CASE t # u
    <3>1. call'[u] = call[u] /\ pc'[u] = pc[u]
      BY <1>1, <1>4, <2>1 DEF Calls, Mmap, Touch, Munmap, Request, Goto
    <3> QED
      BY <3>1 DEF InRegion
  <2>2. ASSUME NEW lo \in VA, NEW hi \in VA, NEW populate, t = u, Mmap(t, lo, hi, populate)
        PROVE  FALSE
    <3>1. call'[u] = RegionCall("mmap", lo, hi) /\ v \notin lo .. hi
      BY <1>1, <2>2 DEF Mmap
    <3> QED
      BY <3>1 DEF InRegion, RegionCall
  <2>3. ASSUME NEW w \in VA, t = u, Touch(t, w) PROVE call'[u].op = "touch"
    BY <1>1, <2>3 DEF Touch, RegionCall
  <2>4. ASSUME NEW lo \in VA, NEW hi \in VA PROVE ~Munmap(t, lo, hi)
    BY KeepsItsPages DEF Munmap
  <2>5. ASSUME NEW to, NEW n, NEW random, t = u, Request(t, to, n, random) PROVE FALSE
    BY <1>1, <2>5 DEF Request, RequestCall, InRegion
  <2> QED
    BY <1>4, <2>1, <2>2, <2>3, <2>4, <2>5 DEF Calls
<1>5. ASSUME NEW t \in Caller, Allocation(t) PROVE InRegion(v, u) /\ call'[u].op = call[u].op
  BY <1>1, <1>3, <1>5
  DEF Allocation, Allocate, Place, Map, Publish, AddPage, StartCounting, Goto, Died, Caller
<1>6. ASSUME NEW t \in Thread, Counting(t) PROVE InRegion(v, u) /\ call'[u].op = call[u].op
  BY <1>1, <1>3, <1>6 DEF Counting, LoadCounter, StoreCounter, Goto
<1>7. ASSUME NEW t \in App, AppStep(t) PROVE InRegion(v, u) /\ call'[u].op = call[u].op
  <2>1. CASE RemovePage(t) \/ UncountPage(t) \/ Unmap(t)
    BY <1>1, <1>3, <2>1 DEF RemovePage, UncountPage, Unmap, StartCounting, Goto
  <2>2. CASE Choose(t) \/ Rotate(t) \/ RotateBack(t)
    BY <1>1, <1>3, <2>2 DEF Choose, Rotate, RotateBack, Goto, Died
  <2>3. CASE Take(t) \/ Queue(t) \/ RequestDone(t)
    BY <1>1, <1>3, <2>3 DEF Take, Queue, RequestDone, NextIteration, StartCounting, Goto, Died
  <2> QED
    BY <1>5, <1>6, <1>7, <2>1, <2>2, <2>3 DEF AppStep, Caller
<1>8. CASE FaultStep
  <2>1. CASE Wake
    <3>1. call' = call /\ (pc'[u] # "idle" => pc[u] # "idle")
      BY <1>1, <2>1 DEF Wake
    <3> QED
      BY <3>1 DEF InRegion
  <2>2. ASSUME NEW t \in App, ReadFault(t) PROVE InRegion(v, u) /\ call'[u].op = call[u].op
    BY <1>3, <2>2 DEF ReadFault, Goto
  <2> QED
    BY <1>5, <1>8, <2>1, <2>2 DEF FaultStep, Caller
<1>9. CASE MigratorStep
  <2>1. CASE Scan \/ TakePage \/ TakeNext
    BY <1>1, <1>3, <2>1 DEF Scan, TakePage, TakeNext, Goto, Died
  <2>2. CASE Protect \/ Copy \/ Remap
    BY <1>1, <1>3, <2>2 DEF Protect, Copy, Remap, LoopOver, Goto, Died
  <2>3. CASE Restore \/ RestoreNext
    BY <1>1, <1>3, <2>3 DEF Restore, RestoreNext, StartCounting, Goto
  <2> QED
    BY <1>6, <1>9, <2>1, <2>2, <2>3 DEF MigratorStep
<1> QED
  BY <1>4, <1>7, <1>8, <1>9 DEF Next

-----------------------------------------------------------------------------
(* Stores and the threads that are held.                                     *)

\* Who has an address published is about to track it.
LEMMA ShieldedIsPending ==
  ASSUME MemInv, Running, NEW t \in App, store[t] # None, protected[store[t][1]]
  PROVE  Pending(store[t][1])
<1> USE ThreadsAssumption DEF Base, Known, Caller, Thread
<1> DEFINE v == store[t][1]
<1>1. v \in VA /\ Track /\ KnownVa /\ StoreOK /\ ShieldOK /\ TypeOK /\ LocalInv
  BY DEF MemInv, MemTypeOK, TrackInv
<1>2. PICK j \in 1 .. Len(batch.page) : pg[batch.page[j]].va = v
  BY <1>1 DEF ShieldOK
<1>3. v # 0 /\ batch.page[j] \in Page
  BY <1>1 DEF VA, TypeOK, BatchRecord
<1>4. CASE batch.page[j] \in hashed
  BY <1>2, <1>4 DEF Pending, Tracked
<1>5. ASSUME NEW u \in Caller, pc[u] = "add", cur[u] = batch.page[j]
      PROVE  Pending(v)
  <2>1. call[u].va = v /\ Fills(u)
    BY <1>1, <1>2, <1>5 DEF Track, HasOK, Has, Fills
  <2>2. ASSUME u # FaultThread PROVE FALSE
    <3>1. u \in App /\ call[u].op = "mmap"
      BY <1>1, <1>5, <2>2 DEF LocalInv, AppOK, MmapLabel
    <3>2. call[u].lo <= v /\ v <= call[u].hi
      BY <1>1, <2>1 DEF Track, FillOK
    <3>3. v \in call[u].lo .. call[u].hi
      <4>1. call[u].lo \in Nat /\ call[u].hi \in Nat /\ v \in Nat
        <5>1. call[u] \in CallRecord
          BY <1>1, <3>1 DEF TypeOK
        <5>2. v \in Nat
          BY <1>1, SizesAssumption DEF VA
        <5> QED
          BY <5>1, <5>2 DEF CallRecord
      <4> QED
        BY <3>2, <4>1
    <3>4. InRegion(v, u)
      BY <1>5, <3>1, <3>3 DEF InRegion
    <3> QED
      BY <1>1, <3>1, <3>4 DEF StoreOK
  <2> QED
    BY <1>5, <2>1, <2>2 DEF Pending
<1> QED
  BY <1>1, <1>2, <1>3, <1>4, <1>5 DEF KnownVa

\* Stores that go on are to pages that stay mapped and tracked.
LEMMA StoresGoOn ==
  ASSUME MemInv, Next \/ UNCHANGED vars, Running, Running',
         asleep' \subseteq asleep,
         \A t \in App : store'[t] = store[t] \/ (store'[t] = None /\ t \notin asleep)
  PROVE  StoreOK' /\ SleepOK'
<1>1. Base /\ StoreOK /\ SleepOK /\ \A t \in App : store[t] # None => store[t][1] \in VA
  BY DEF MemInv, MemTypeOK
<1>2. ASSUME NEW t \in App, store'[t] # None, NEW v, v = store[t][1]
      PROVE  /\ store'[t] = store[t] /\ vm'[v] # Unmapped
             /\ \A u \in App : InRegion(v, u)' => call'[u].op = "touch"
  <2>1. store'[t] = store[t] /\ v \in VA /\ vm[v] # Unmapped
        /\ \A u \in App : InRegion(v, u) => call[u].op = "touch"
    BY <1>1, <1>2 DEF StoreOK
  <2>2. CASE Next
    BY <1>1, <2>1, <2>2, MappedStays, NobodyMoves
  <2>3. CASE UNCHANGED vars
    BY <2>1, <2>3 DEF vars, InRegion
  <2> QED
    BY <2>1, <2>2, <2>3
<1>3. ASSUME NEW t \in asleep', NEW v, v = store[t][1]
      PROVE  store'[t] # None /\ store'[t] = store[t] /\ Pending(v)'
  <2>1. t \in asleep /\ t \in App /\ store'[t] = store[t] /\ store[t] # None
        /\ Pending(v) /\ v \in VA
    BY <1>1, <1>3 DEF MemInv, MemTypeOK, SleepOK
  <2>2. CASE UNCHANGED vars
    BY <2>1, <2>2 DEF vars, Pending, Tracked
  <2> QED
    BY <1>1, <2>1, <2>2, PendingStays
<1>4. StoreOK'
  BY <1>2 DEF StoreOK, InRegion
<1>5. SleepOK'
  BY <1>3 DEF SleepOK, Pending, Tracked
<1> QED
  BY <1>4, <1>5

\* The steps of the application's threads and of the fault thread.
LEMMA ThreadStores ==
  ASSUME MemInv, MemNext, ~MoveStep, Running, Running'
  PROVE  StoreOK' /\ SleepOK'
<1>1. Next \/ UNCHANGED vars
  BY StepsRefine DEF vars
<1>2. /\ StoreOK /\ SleepOK /\ asleep \subseteq App
      /\ \A t \in App : store[t] # None => store[t] \in VA \X Value
      /\ store \in [App -> (VA \X Value) \cup {None}]
  BY DEF MemInv, MemTypeOK
<1>3. ASSUME asleep' \subseteq asleep, store' = store PROVE StoreOK' /\ SleepOK'
  BY <1>1, <1>3, StoresGoOn
<1>4. ASSUME NEW t \in App, Call(t) PROVE StoreOK' /\ SleepOK'
  BY <1>3, <1>4 DEF Call, memvars
<1>5. ASSUME NEW t, AllocationStep(t) PROVE StoreOK' /\ SleepOK'
  BY <1>3, <1>5 DEF AllocationStep, MapZeroed, ClearNewPage, TrackPage, memvars
<1>6. ASSUME NEW t \in App, ThreadStep(t) PROVE StoreOK' /\ SleepOK'
  <2>1. CASE FinishStore(t)
    <3>1. /\ asleep' = asleep /\ t \notin asleep
          /\ \A u \in App : store'[u] = store[u] \/ (store'[u] = None /\ u \notin asleep)
      BY <1>2, <2>1 DEF FinishStore, Tries
    <3> QED
      BY <1>1, <3>1, StoresGoOn
  <2>2. CASE StoreIsHeld(t)
    <3>1. /\ asleep' = asleep \cup {t} /\ UNCHANGED <<vars, store>>
          /\ store[t] # None /\ protected[store[t][1]]
      BY <2>2 DEF StoreIsHeld, Tries
    <3>2. \A u \in asleep' : store[u] # None /\ Pending(store[u][1])
      BY <1>2, <3>1, ShieldedIsPending DEF SleepOK
    <3>3. SleepOK'
      BY <3>1, <3>2 DEF SleepOK, Pending, Tracked, vars
    <3>4. StoreOK'
      BY <1>2, <3>1 DEF StoreOK, InRegion, vars
    <3> QED
      BY <3>3, <3>4
  <2>3. CASE StoreMisses(t)
    BY <1>3, <2>3 DEF StoreMisses, memvars
  <2>4. CASE (Counting(t) \/ Take(t) \/ Queue(t) \/ RequestDone(t)) /\ UNCHANGED memvars
    BY <1>3, <2>4 DEF memvars
  <2> QED
    BY <1>5, <1>6, <2>1, <2>2, <2>3, <2>4 DEF ThreadStep
<1>7. ASSUME NEW t \in App, NEW v \in VA, NEW x \in Value, StartStore(t, v, x)
      PROVE  StoreOK' /\ SleepOK'
  <2>1. /\ UNCHANGED <<vars, asleep>> /\ store[t] = None /\ store'[t] = <<v, x>>
        /\ \A u \in App : u # t => store'[u] = store[u]
        /\ vm[v] # Unmapped /\ \A u \in App : InRegion(v, u) => call[u].op = "touch"
    BY <1>2, <1>7 DEF StartStore
  <2>2. StoreOK'
    <3>1. ASSUME NEW u \in App, store'[u] # None, NEW w, w = store'[u][1]
          PROVE  /\ vm[w] # Unmapped
                 /\ \A r \in App : InRegion(w, r) => call[r].op = "touch"
      BY <1>2, <2>1, <3>1 DEF StoreOK
    <3> QED
      BY <2>1, <3>1 DEF StoreOK, InRegion, vars
  <2>3. SleepOK'
    <3>1. \A u \in asleep : store'[u] = store[u] /\ store[u] # None /\ Pending(store[u][1])
      BY <1>2, <2>1 DEF SleepOK
    <3> QED
      BY <2>1, <3>1 DEF SleepOK, Pending, Tracked, vars
  <2> QED
    BY <2>2, <2>3
<1>8. CASE HandleFault
  <2>1. ASSUME NEW t \in App, ReadWpFault(t) PROVE StoreOK' /\ SleepOK'
    BY <1>3, <2>1 DEF ReadWpFault, memvars
  <2>2. CASE EndOfMove \/ WakeStores
    BY <1>3, <2>2 DEF EndOfMove, WakeStores
  <2> QED
    BY <1>3, <1>5, <1>8, <2>1, <2>2 DEF HandleFault, memvars
<1> QED
  BY <1>4, <1>6, <1>7, <1>8 DEF MemNext

\* The migration thread's steps start and end no store.
LEMMA MoveStores ==
  ASSUME MemInv, MoveStep, Running, Running'
  PROVE  StoreOK' /\ SleepOK'
<1>1. Next \/ UNCHANGED vars
  BY MoveSteps DEF Next
<1>2. UNCHANGED <<store, asleep>>
  BY DEF MoveStep, SetMigrating, ProtectPage, CopyBatch, RemapPage, ClearMigrating, memvars
<1> QED
  BY <1>1, <1>2, StoresGoOn

-----------------------------------------------------------------------------
(* Protection.                                                               *)

\* Steps of other threads: the batch and the addresses of its pages stay.
LEMMA ThreadShield ==
  ASSUME MemInv, MemNext, ~MoveStep, Running, Running'
  PROVE  ShieldOK'
<1>1. ShieldOK /\ Base /\ TypeOK /\ UNCHANGED <<protected, moving>> /\ ~Died
  BY ThreadSteps DEF MemInv, Base, Known, Died, Panic, Running
<1>2. batch' = batch /\ pc'[Migrator] = pc[Migrator]
  <2>1. OtherStep => batch' = batch /\ pc'[Migrator] = pc[Migrator]
    BY <1>1, OthersKeepBatch DEF Base, OtherStep
  <2> QED
    BY <2>1, ThreadSteps DEF vars
<1>3. \A p \in Page : pg[p].va # 0 => pg'[p].va = pg[p].va
  <2>1. Next \/ UNCHANGED vars
    BY StepsRefine DEF vars
  <2> QED
    BY <1>1, <2>1, AddressesStay DEF Base, vars
<1>4. \A j \in 1 .. Len(batch.page) : batch.page[j] \in Page
  BY <1>1 DEF TypeOK, BatchRecord
<1>5. \A j : Between(j)' <=> Between(j)
  BY <1>2 DEF Between
<1>6. ASSUME NEW v \in VA, protected[v]
      PROVE  moving /\ \E j \in 1 .. Len(batch.page) : Between(j) /\ pg'[batch.page[j]].va = v
  <2>1. PICK j \in 1 .. Len(batch.page) : Between(j) /\ pg[batch.page[j]].va = v
    BY <1>1, <1>6 DEF ShieldOK
  <2>2. v # 0
    BY SizesAssumption DEF VA
  <2>3. pg'[batch.page[j]].va = v
    BY <1>3, <1>4, <2>1, <2>2
  <2> QED
    BY <1>1, <1>6, <2>1, <2>3 DEF ShieldOK
<1>7. moving' => pc'[Migrator] \in {"protect", "copy", "remap", "restore"}
  BY <1>1, <1>2 DEF ShieldOK
<1>8. \A v \in VA : protected'[v] =>
        moving' /\ \E j \in 1 .. Len(batch'.page) : Between(j)' /\ pg'[batch'.page[j]].va = v
  BY <1>1, <1>2, <1>5, <1>6
<1> QED
  BY <1>7, <1>8 DEF ShieldOK

\* The steps of the migration thread: pages are protected one by one, the
\* whole batch is copied, and remapping takes the protection away one by one.
LEMMA MoveShield ==
  ASSUME MemInv, MoveStep, Running, Running'
  PROVE  ShieldOK'
<1> USE ThreadsAssumption DEF Thread, Goto
<1>1. /\ ShieldOK /\ KnownVa /\ LocalInv /\ TypeOK /\ ~Died /\ protected \in [VA -> BOOLEAN]
      /\ pc \in [Thread -> Label] /\ pg \in [Page -> PageRecord] /\ batch \in BatchRecord
  BY DEF MemInv, MemTypeOK, Base, Known, Died, Panic, Running, TypeOK
<1>2. /\ batch.i \in Nat /\ batch.want \in Nat /\ Len(batch.page) \in Nat
      /\ \A j \in 1 .. Len(batch.page) : batch.page[j] \in Page
  BY <1>1, SizesAssumption DEF BatchRecord
<1>3. pc[Migrator] \in {"protect", "copy", "remap", "restore"} =>
        Len(batch.page) = batch.want /\ batch.i \in 1 .. batch.want
  BY <1>1 DEF LocalInv, MigratorOK
<1>4. ASSUME ~moving, moving' = moving, protected' = protected PROVE ShieldOK'
  BY <1>1, <1>4 DEF ShieldOK
<1>5. CASE SetMigrating
  <2>1. /\ pc'[Migrator] = "protect" /\ protected' = protected /\ ~moving
    BY <1>5 DEF SetMigrating, vars
  <2>2. \A v \in VA : ~protected[v]
    BY <1>1, <2>1 DEF ShieldOK
  <2> QED
    BY <2>1, <2>2 DEF ShieldOK
<1>6. CASE ProtectPage
  <2> DEFINE h == batch.page[batch.i]
  <2>1. /\ pc[Migrator] = "protect" /\ UNCHANGED <<pg, moving>> /\ moving
        /\ batch' = [batch EXCEPT !.i = IF @ < batch.want THEN @ + 1 ELSE 1]
        /\ pc'[Migrator] = IF batch.i < batch.want THEN "protect" ELSE "copy"
        /\ protected' = [protected EXCEPT ![pg[h].va] = TRUE]
    BY <1>1, <1>6 DEF ProtectPage, Protect, LoopOver, Shielded, Died
  <2>2. /\ batch'.page = batch.page
        /\ batch'.i = IF batch.i < batch.want THEN batch.i + 1 ELSE 1
    BY <1>1, <2>1 DEF BatchRecord
  <2>3. ASSUME NEW v \in VA, protected'[v]
        PROVE  \E j \in 1 .. batch.i : j \in 1 .. Len(batch.page) /\ pg[batch.page[j]].va = v
    <3>1. CASE v = pg[h].va
      BY <1>2, <1>3, <2>1, <3>1
    <3>2. CASE v # pg[h].va
      <4>1. protected[v]
        BY <1>1, <2>1, <2>3, <3>2
      <4>2. PICK j \in 1 .. Len(batch.page) : Between(j) /\ pg[batch.page[j]].va = v
        BY <1>1, <4>1 DEF ShieldOK
      <4> QED
        BY <1>2, <2>1, <4>2 DEF Between
    <3> QED
      BY <3>1, <3>2
  <2>4. \A j \in 1 .. batch.i : Between(j)'
    BY <1>2, <1>3, <2>1, <2>2 DEF Between
  <2> HIDE DEF h
  <2> QED
    BY <2>1, <2>2, <2>3, <2>4 DEF ShieldOK
<1>7. CASE CopyBatch
  <2>1. /\ pc[Migrator] = "copy" /\ UNCHANGED <<pg, moving, protected, batch>>
        /\ pc'[Migrator] = "remap" /\ batch.i = 1
    BY <1>1, <1>7 DEF CopyBatch, Copy, Died, LocalInv, MigratorOK
  <2>2. \A j \in 1 .. Len(batch.page) : Between(j)'
    BY <1>2, <2>1 DEF Between
  <2> QED
    BY <1>1, <2>1, <2>2 DEF ShieldOK
<1>8. CASE RemapPage
  <2> DEFINE h   == batch.page[batch.i]
             off == batch.offset[batch.i]
             dst == Target(batch.to)
  <2>1. /\ pc[Migrator] = "remap" /\ moving' = moving
        /\ batch' = [batch EXCEPT !.i = IF @ < batch.want THEN @ + 1 ELSE 1]
        /\ pc'[Migrator] = IF batch.i < batch.want THEN "remap" ELSE "restore"
        /\ protected' = [protected EXCEPT ![pg[h].va] = FALSE]
        /\ pg' = [pg EXCEPT ![h].in_dram = (dst = "dram"), ![h].devdax_offset = off]
    BY <1>1, <1>8 DEF RemapPage, Remap, LoopOver
  <2>2. /\ batch'.page = batch.page
        /\ batch'.i = IF batch.i < batch.want THEN batch.i + 1 ELSE 1
    BY <1>1, <2>1 DEF BatchRecord
  <2>3. \A p \in Page : pg'[p].va = pg[p].va
    <3> HIDE DEF h, off, dst
    <3> QED
      BY <1>1, <2>1 DEF PageRecord
  <2>4. \A v \in VA : protected'[v] => protected[v] /\ v # pg[h].va
    BY <1>1, <2>1
  <2>5. ASSUME NEW v \in VA, protected'[v]
        PROVE  /\ moving /\ batch.i < batch.want
               /\ \E j \in 1 .. Len(batch.page) : j >= batch.i + 1 /\ pg'[batch.page[j]].va = v
    <3>1. PICK j \in 1 .. Len(batch.page) : Between(j) /\ pg[batch.page[j]].va = v
      BY <1>1, <2>4, <2>5 DEF ShieldOK
    <3>2. j >= batch.i /\ j # batch.i
      BY <2>1, <2>4, <2>5, <3>1 DEF Between
    <3>3. pg'[batch.page[j]].va = v
      BY <1>2, <2>3, <3>1
    <3>4. j >= batch.i + 1 /\ batch.i < batch.want
      BY <1>2, <1>3, <2>1, <3>2
    <3>5. moving
      BY <1>1, <2>4, <2>5 DEF ShieldOK
    <3> QED
      BY <3>3, <3>4, <3>5
  <2> HIDE DEF h, off, dst
  <2>6. batch.i < batch.want => \A j : j >= batch.i + 1 => Between(j)'
    BY <2>1, <2>2 DEF Between
  <2>7. \A v \in VA : protected'[v] =>
          moving' /\ \E j \in 1 .. Len(batch'.page) : Between(j)' /\ pg'[batch'.page[j]].va = v
    BY <2>1, <2>2, <2>5, <2>6
  <2>8. moving' => pc'[Migrator] \in {"protect", "copy", "remap", "restore"}
    BY <2>1
  <2> QED
    BY <2>7, <2>8 DEF ShieldOK
<1>9. CASE ClearMigrating
  <2>1. /\ pc[Migrator] = "restore" /\ ~moving' /\ protected' = protected
    BY <1>9 DEF ClearMigrating, Migrated
  <2>2. \A v \in VA : ~protected[v]
    BY <1>1, <2>1 DEF ShieldOK, Between
  <2> QED
    BY <2>1, <2>2 DEF ShieldOK
<1>10. CASE /\ Scan \/ TakePage \/ TakeNext \/ (Restore /\ ~moving) \/ RestoreNext
               \/ Counting(Migrator)
            /\ UNCHANGED memvars
  <2>1. ~moving
    BY <1>1, <1>10
    DEF ShieldOK, Scan, TakePage, TakeNext, RestoreNext, Counting, LoadCounter, StoreCounter
  <2> QED
    BY <1>4, <1>10, <2>1 DEF memvars
<1> QED
  BY <1>5, <1>6, <1>7, <1>8, <1>9, <1>10 DEF MoveStep

-----------------------------------------------------------------------------
(* The death of the process.                                                 *)

\* The steps of PageManager have causes of death of their own.
LEMMA DyingSteps ==
  ASSUME Next
  PROVE  \/ panic' = panic
         \/ \E why : /\ Panic(why) /\ why # "none"
                     /\ why # "write-protect fault on an untracked page"
<1> SUFFICES ASSUME \A why : Panic(why) => \/ why = "none"
                                           \/ why = "write-protect fault on an untracked page"
             PROVE  panic' = panic
  OBVIOUS
<1>1. ASSUME NEW t, Allocation(t) PROVE panic' = panic
  BY <1>1 DEF Allocation, Allocate, Place, Map, Publish, AddPage
<1>2. ASSUME NEW t, Counting(t) PROVE panic' = panic
  BY <1>2 DEF Counting, LoadCounter, StoreCounter
<1>3. ASSUME NEW t \in App, Calls(t) PROVE panic' = panic
  BY <1>3 DEF Calls, Mmap, Touch, Munmap, Request
<1>4. ASSUME NEW t \in App, AppStep(t) PROVE panic' = panic
  BY <1>1, <1>2, <1>4
  DEF AppStep, RemovePage, UncountPage, Unmap, Choose, Rotate, RotateBack, Take, Queue, RequestDone
<1>5. FaultStep => panic' = panic
  BY <1>1 DEF FaultStep, ReadFault, Wake
<1>6. MigratorStep => panic' = panic
  BY <1>2
  DEF MigratorStep, Scan, TakePage, TakeNext, Protect, Copy, Remap, Restore, RestoreNext
<1> QED
  BY <1>3, <1>4, <1>5, <1>6 DEF Next

\* A dead process takes no step.
LEMMA OnlyAlive ==
  ASSUME MemInv, MemNext
  PROVE  Running
<1> USE Alive DEF Base, Known, MemInv, Thread
<1>1. Next => Running
  BY OnlyRunning
<1>2. ASSUME NEW t \in App, ThreadStep(t), UNCHANGED vars PROVE Running
  <2>1. ASSUME FinishStore(t) \/ StoreIsHeld(t) \/ StoreMisses(t) PROVE Running
    BY <2>1 DEF FinishStore, StoreIsHeld, StoreMisses, Tries
  <2>2. ASSUME AllocationStep(t) PROVE Running
    BY <1>1, <2>2
    DEF AllocationStep, MapZeroed, ClearNewPage, TrackPage, Next, AppStep, Allocation
  <2>3. ASSUME Counting(t) \/ Take(t) \/ Queue(t) \/ RequestDone(t) PROVE Running
    BY <1>1, <2>3 DEF Next, AppStep
  <2> QED
    BY <1>2, <2>1, <2>2, <2>3 DEF ThreadStep
<1>3. ASSUME NEW t \in App, Call(t) PROVE Running
  BY <1>3 DEF Call, Mmap, Request
<1>4. ASSUME NEW t \in App, NEW v, NEW x, StartStore(t, v, x) PROVE Running
  BY <1>4 DEF StartStore
<1>5. ASSUME HandleFault PROVE Running
  <2>1. ASSUME NEW t \in App, ReadWpFault(t) PROVE Running
    BY <2>1 DEF ReadWpFault, BetweenFaults
  <2>2. ASSUME AllocationStep(FaultThread) PROVE Running
    BY <1>1, <2>2
    DEF AllocationStep, MapZeroed, ClearNewPage, TrackPage, Next, FaultStep, Allocation
  <2>3. ASSUME NEW t \in App, ReadFault(t) PROVE Running
    BY <2>3 DEF ReadFault
  <2> QED
    BY <1>5, <2>1, <2>2, <2>3 DEF HandleFault, EndOfMove, WakeStores, Wake
<1>6. ASSUME MoveStep PROVE Running
  <2>1. ASSUME SetMigrating \/ ClearMigrating PROVE Running
    BY <2>1 DEF SetMigrating, ClearMigrating, Migrated
  <2>2. ASSUME ProtectPage \/ CopyBatch \/ RemapPage PROVE Running
    BY <1>1, <2>2 DEF ProtectPage, CopyBatch, RemapPage, Next, MigratorStep
  <2>3. ASSUME Scan \/ TakePage \/ TakeNext \/ Restore \/ RestoreNext \/ Counting(Migrator)
        PROVE  Running
    BY <1>1, <2>3 DEF Next, MigratorStep
  <2> QED
    BY <1>6, <2>1, <2>2, <2>3 DEF MoveStep
<1>7. ASSUME NEW t \in App, ThreadStep(t) PROVE Running
  BY <1>1, <1>2, <1>7, ThreadSteps, StepsRefine DEF MemNext
<1> QED
  BY <1>3, <1>4, <1>5, <1>6, <1>7 DEF MemNext

\* When the process dies, protection and batch stay as they are.
LEMMA DeathKeepsMarks ==
  ASSUME MemInv, MemNext, ~Running'
  PROVE  UNCHANGED <<protected, moving, batch, pg>>
<1>1. panic' # panic
  BY OnlyAlive DEF Running
<1>2. Next
  BY <1>1, StepsRefine DEF vars
<1>3. batch' = batch /\ pg' = pg
  BY <1>1, <1>2, DyingSteps DEF Panic
<1>4. CASE ~MoveStep
  BY <1>3, <1>4, ThreadSteps
<1>5. CASE MoveStep
  <2>1. ~SetMigrating /\ ~ClearMigrating /\ ~RemapPage
    BY <1>1 DEF SetMigrating, ClearMigrating, RemapPage, Remap, vars
  <2> QED
    BY <1>3, <1>5, <2>1 DEF MoveStep, ProtectPage, CopyBatch, memvars
<1> QED
  BY <1>4, <1>5

-----------------------------------------------------------------------------
(* The invariant, and what follows from it.                                  *)

\* The variables keep their types.
LEMMA NextMemType ==
  ASSUME MemInv, MemNext
  PROVE  MemTypeOK'
<1> USE DEF MemTypeOK
<1>1. MemTypeOK
  BY DEF MemInv
<1>2. ASSUME UNCHANGED <<protected, moving, store>>, asleep' \subseteq App PROVE MemTypeOK'
  BY <1>1, <1>2
<1>3. ASSUME NEW t \in App, Call(t) PROVE MemTypeOK'
  BY <1>1, <1>2, <1>3 DEF Call, memvars
<1>4. ASSUME NEW t, AllocationStep(t) PROVE MemTypeOK'
  BY <1>1, <1>2, <1>4 DEF AllocationStep, MapZeroed, ClearNewPage, TrackPage, memvars
<1>5. ASSUME NEW t \in App, ThreadStep(t) PROVE MemTypeOK'
  <2>1. CASE FinishStore(t)
    BY <1>1, <2>1 DEF FinishStore
  <2>2. CASE StoreIsHeld(t)
    BY <1>1, <1>2, <2>2 DEF StoreIsHeld
  <2>3. CASE UNCHANGED memvars
    BY <1>1, <1>2, <2>3 DEF memvars
  <2> QED
    BY <1>4, <1>5, <2>1, <2>2, <2>3 DEF ThreadStep, StoreMisses
<1>6. ASSUME NEW t \in App, NEW v \in VA, NEW x \in Value, StartStore(t, v, x) PROVE MemTypeOK'
  BY <1>1, <1>6 DEF StartStore
<1>7. HandleFault => MemTypeOK'
  BY <1>1, <1>2, <1>4 DEF HandleFault, ReadWpFault, EndOfMove, WakeStores, memvars
<1>8. MoveStep => MemTypeOK'
  <2>1. SetMigrating \/ ClearMigrating => MemTypeOK'
    BY <1>1 DEF SetMigrating, ClearMigrating
  <2>2. ProtectPage => MemTypeOK'
    BY <1>1 DEF ProtectPage, Shielded
  <2>3. CopyBatch => MemTypeOK'
    BY <1>1, <1>2 DEF CopyBatch
  <2>4. RemapPage => MemTypeOK'
    BY <1>1 DEF RemapPage
  <2> QED
    BY <1>1, <1>2, <2>1, <2>2, <2>3, <2>4 DEF MoveStep, memvars
<1> QED
  BY <1>3, <1>5, <1>6, <1>7, <1>8 DEF MemNext

\* Nothing is stored, held or protected when the library starts.
LEMMA InitMem == MemInit => Init /\ MemInv
<1> USE ThreadsAssumption DEF Thread, FaultThread, Migrator
<1> SUFFICES ASSUME MemInit PROVE Init /\ MemInv
  OBVIOUS
<1>1. Init /\ Base
  BY InitLocal, InitCount, InitOwn, InitKind, InitTrack, InitOps, InitMatch
  DEF MemInit, Base, Known, CountInv
<1>2. MemTypeOK
  BY DEF MemInit, MemTypeOK
<1>3. StoreOK /\ SleepOK /\ ShieldOK /\ ProtectedOnlyInMoves
  BY DEF MemInit, StoreOK, SleepOK, ShieldOK, ProtectedOnlyInMoves
<1>4. FaultingPageTracked
  BY <1>1 DEF Init, FaultingPageTracked
<1> QED
  BY <1>1, <1>2, <1>3, <1>4 DEF MemInv

\* Every step preserves the invariant.
LEMMA NextMem ==
  ASSUME MemInv, [MemNext]_allvars
  PROVE  MemInv'
<1>1. CASE UNCHANGED allvars
  <2>1. UNCHANGED <<protected, moving, store, asleep>> /\ UNCHANGED vars
    BY <1>1 DEF allvars, memvars
  <2>2. Base' /\ MemTypeOK'
    BY <2>1, NextBase DEF MemInv, MemTypeOK
  <2>3. UNCHANGED <<pg, vm, pc, call, batch, hashed, panic>>
    BY <2>1 DEF vars
  <2>4. (Running => StoreOK /\ SleepOK)'
    BY <2>1, <2>3 DEF MemInv, Running, StoreOK, SleepOK, InRegion, Pending, Tracked
  <2>5. (Running => ShieldOK)'
    BY <2>1, <2>3 DEF MemInv, Running, ShieldOK, Between
  <2>6. ProtectedOnlyInMoves' /\ FaultingPageTracked'
    BY <2>1, <2>3 DEF MemInv, ProtectedOnlyInMoves, BatchOf, FaultingPageTracked
  <2> QED
    BY <2>2, <2>4, <2>5, <2>6 DEF MemInv
<1>2. CASE MemNext
  <2>1. Running
    BY <1>2, OnlyAlive
  <2>2. Base'
    BY <1>2, StepsRefine, NextBase DEF MemInv
  <2>3. FaultingPageTracked'
    <3>1. Next \/ UNCHANGED vars
      BY <1>2, StepsRefine DEF vars
    <3> QED
      BY <3>1, DyingSteps DEF MemInv, FaultingPageTracked, Panic, vars
  <2>4. CASE Running'
    <3>1. StoreOK' /\ SleepOK' /\ ShieldOK'
      BY <1>2, <2>1, <2>4, ThreadStores, MoveStores, ThreadShield, MoveShield
    <3>2. ProtectedOnlyInMoves'
      <4>1. \A j \in 1 .. Len(batch'.page) : batch'.page[j] \in BatchOf'
        BY <2>2 DEF BatchOf, Base, Known, TypeOK, BatchRecord
      <4> QED
        BY <3>1, <4>1 DEF ShieldOK, ProtectedOnlyInMoves
    <3> QED
      BY <1>2, <2>2, <2>3, <3>1, <3>2, NextMemType DEF MemInv
  <2>5. CASE ~Running'
    <3>1. ProtectedOnlyInMoves'
      BY <1>2, <2>5, DeathKeepsMarks DEF MemInv, ProtectedOnlyInMoves, BatchOf
    <3> QED
      BY <1>2, <2>2, <2>3, <2>5, <3>1, NextMemType DEF MemInv
  <2> QED
    BY <2>4, <2>5
<1> QED
  BY <1>1, <1>2

\* The joint invariant of page bookkeeping, stores and protection.
THEOREM MemInvariant == MemSpec => []MemInv
  BY InitMem, NextMem, PTL DEF MemSpec

\* With stores, write protection and the fault thread's second duty, the page
\* bookkeeping behaves as PageManager says: what is proved of its Spec holds
\* while the application stores to pages that are being moved.
THEOREM MovesKeepBookkeeping == MemSpec => Spec
<1>1. MemInit => Init
  BY InitMem
<1>2. MemInv /\ [MemNext]_allvars => [Next]_vars
  BY StepsRefine
<1> QED
  BY <1>1, <1>2, MemInvariant, PTL DEF MemSpec, Spec

\* A page is write-protected only while the migration thread has it in its
\* batch, between the two loops over `migrating' (pebs.c:59-62).
THEOREM PagesAreUnprotectedAgain == MemSpec => []ProtectedOnlyInMoves
  BY MemInvariant, PTL DEF MemInv

\* handle_wp_fault finds the page of every fault (hemem.c:919), although a
\* page can be requested, taken and protected before it is in the table.
THEOREM FaultsFindTheirPage == MemSpec => []FaultingPageTracked
  BY MemInvariant, PTL DEF MemInv

=============================================================================
