------------------------- MODULE PageManagerProofs -------------------------
(***************************************************************************)
(* Type correctness of PageManager.  TypeOK is not inductive: a thread that *)
(* is about to use its page pointer must have one, the batch must be filled *)
(* as far as its loops have come, and a critical section must have updates  *)
(* left.  LocalInv says so, thread by thread.                               *)
(***************************************************************************)
EXTENDS PageManager, FiniteSetTheorems, SequenceTheorems, TLAPS

-----------------------------------------------------------------------------
(* What each thread knows at each of its labels.                            *)

AppLabel == {"idle", "faulting", "alloc", "alloc_nvm", "place", "map", "count",
             "publish", "add", "munmap", "removed", "request", "rotate",
             "rotate_back", "take", "queue", "dead"}
FaultLabel == {"poll", "alloc", "alloc_nvm", "place", "map", "publish", "add", "wake",
               "dead"}
MigratorLabel == {"scan", "take_page", "take_next", "protect", "copy", "remap",
                  "restore", "restore_next", "count", "dead"}
MmapLabel     == {"alloc", "alloc_nvm", "place", "map", "publish", "add"}
RequestLabel  == {"request", "rotate", "rotate_back", "take", "queue"}
HoldingLabel  == {"place", "map", "publish", "add", "rotate_back", "queue", "removed"}

\* An application thread runs the code of its call, has a page in its local
\* variable `page' when it is about to use it, and knows what is left of its
\* critical section.
AppOK(t) ==
  /\ pc[t] \in AppLabel
  /\ pc[t] \in MmapLabel => call[t].op = "mmap"
  /\ pc[t] \in {"munmap", "removed"} => call[t].op = "munmap"
  /\ pc[t] \in RequestLabel => call[t].op = "request"
  /\ pc[t] = "rotate" => call[t].choose > 0
  /\ pc[t] \in {"rotate", "rotate_back", "take"} => call[t].left > 0
  /\ pc[t] \in HoldingLabel => cur[t] \in Page
  /\ pc[t] = "count" =>
       \/ /\ call[t].op = "request"
          /\ \/ upd[t] = <<[counter |-> call[t].to, delta |-> 1],
                           [counter |-> From(t), delta |-> -1]>>
             \/ upd[t] = <<[counter |-> From(t), delta |-> -1]>>
       \/ /\ call[t].op \in {"mmap", "munmap"}
          /\ call[t].op = "mmap" => cur[t] \in Page
          /\ Len(upd[t]) \in 1 .. 2
          /\ \A i \in 1 .. Len(upd[t]) : upd[t][i].counter \notin ToList

\* The fault thread has a page when it is about to use it.
FaultOK == /\ pc[FaultThread] \in FaultLabel
           /\ pc[FaultThread] \in HoldingLabel => cur[FaultThread] \in Page

\* The arrays of the batch are filled as far as the loops have come, and the
\* last of the migration thread's counter updates is that of its request list.
MigratorOK ==
  /\ pc[Migrator] \in MigratorLabel
  /\ pc[Migrator] = "scan" => batch = EmptyBatch(batch.to)
  /\ pc[Migrator] = "take_page" =>
       /\ Len(batch.page) < batch.want /\ batch.i = 1
       /\ Len(batch.next) = Len(batch.page) /\ Len(batch.offset) = Len(batch.page)
  /\ pc[Migrator] = "take_next" =>
       /\ Len(batch.page) \in 1 .. batch.want /\ batch.i = 1
       /\ Len(batch.next) = Len(batch.page) - 1
       /\ Len(batch.offset) = Len(batch.page) - 1
  /\ pc[Migrator] \in {"protect", "copy", "remap", "restore", "restore_next"} =>
       /\ Len(batch.page) = batch.want /\ batch.i \in 1 .. batch.want
       /\ Len(batch.next) = batch.want /\ Len(batch.offset) = batch.want
  /\ pc[Migrator] = "copy" => batch.i = 1
  /\ pc[Migrator] = "count" =>
       /\ Len(batch.page) = batch.want
       /\ Len(upd[Migrator]) \in 1 .. 4
       /\ \A i \in 1 .. Len(upd[Migrator]) - 1 : upd[Migrator][i].counter \notin ToList
       /\ upd[Migrator][Len(upd[Migrator])] = [counter |-> batch.to, delta |-> -batch.want]

LocalInv == (\A t \in App : AppOK(t)) /\ FaultOK /\ MigratorOK

-----------------------------------------------------------------------------
(* Type correctness: the operators the actions are built from.              *)

\* The list operators name lists; From and the lists of a tier are not
\* request lists.
LEMMA ListNames ==
  /\ \A tier : FreeList(tier) \in List \ ToList /\ MmapList(tier) \in List \ ToList
  /\ \A to : Source(to) \in Tier /\ Target(to) \in Tier
  /\ \A t : From(t) \in List \ ToList
  /\ ToList \subseteq List
  BY DEF FreeList, MmapList, List, ToList, Source, Target, Tier, From

\* Linking and unlinking a page keep every list a list of pages.
LEMMA EnqueueType ==
  ASSUME TypeOK, NEW l \in List, NEW p \in Page, Enqueue(l, p)
  PROVE  list' \in [List -> Seq(Page)]
  BY DEF TypeOK, Enqueue

\* Unlinking a page from a list that is not empty keeps every list a list of pages.
LEMMA DequeueType ==
  ASSUME TypeOK, NEW l \in List, list[l] # <<>>
  PROVE  /\ Head(list[l]) \in Page
         /\ Dequeue(l) => list' \in [List -> Seq(Page)]
<1>1. list \in [List -> Seq(Page)] /\ list[l] \in Seq(Page)
  BY DEF TypeOK
<1>2. Head(list[l]) \in Page /\ Tail(list[l]) \in Seq(Page)
  BY <1>1, HeadTailProperties
<1> QED
  BY <1>1, <1>2 DEF Dequeue

\* The calls' records have their type, and so have their updated fields.
LEMMA CallType ==
  /\ \A lo, hi \in VA : \A op \in {"mmap", "touch", "munmap"} :
       RegionCall(op, lo, hi) \in CallRecord
  /\ \A to \in ToList, n \in Nat, random \in BOOLEAN :
       RequestCall(to, n, random) \in CallRecord
  BY SizesAssumption DEF RegionCall, RequestCall, CallRecord, ToList, VA

\* A call record keeps its type when one of its fields is set.
LEMMA CallFields ==
  ASSUME NEW r \in CallRecord, NEW n \in Nat
  PROVE  /\ [r EXCEPT !.left = n] \in CallRecord
         /\ [r EXCEPT !.va = n] \in CallRecord
         /\ [r EXCEPT !.choose = n] \in CallRecord
  BY DEF CallRecord

\* The batch keeps its type when one of its fields is set.
LEMMA BatchFields ==
  ASSUME NEW b \in BatchRecord
  PROVE  /\ \A n \in Nat : [b EXCEPT !.i = n] \in BatchRecord
         /\ \A m \in 0 .. NUM_BATCHS : [b EXCEPT !.want = m] \in BatchRecord
         /\ \A s \in Seq(Page) : [b EXCEPT !.page = s] \in BatchRecord
         /\ \A s \in Seq(Page), o \in Seq(Nat) :
              [b EXCEPT !.next = s, !.offset = o] \in BatchRecord
  BY DEF BatchRecord

\* The migration thread starts each loop with an empty batch of a request list.
LEMMA EmptyType == \A to \in ToList : EmptyBatch(to) \in BatchRecord /\ NextLoop(to) \in ToList
  BY SizesAssumption DEF EmptyBatch, BatchRecord, NextLoop, ToList

\* The loops over a region advance its address.
LEMMA CallVa ==
  ASSUME TypeOK, NEW t \in Thread
  PROVE  [call EXCEPT ![t].va = @ + 1] \in [Thread -> CallRecord]
<1>1. call \in [Thread -> CallRecord]
  BY DEF TypeOK
<1>2. call[t] \in CallRecord /\ call[t].va + 1 \in Nat
  BY <1>1 DEF CallRecord
<1>3. [call[t] EXCEPT !.va = call[t].va + 1] \in CallRecord
  BY <1>2, CallFields
<1>4. [call EXCEPT ![t].va = @ + 1] = [call EXCEPT ![t] = [call[t] EXCEPT !.va = call[t].va + 1]]
  BY <1>1
<1> QED
  BY <1>1, <1>3, <1>4

\* A request that has iterations left may do one.
LEMMA CallLeft ==
  ASSUME TypeOK, NEW t \in Thread, call[t].left > 0
  PROVE  [call EXCEPT ![t].left = @ - 1] \in [Thread -> CallRecord]
<1>1. call \in [Thread -> CallRecord]
  BY DEF TypeOK
<1>2. call[t] \in CallRecord /\ call[t].left - 1 \in Nat
  BY <1>1 DEF CallRecord
<1>3. [call[t] EXCEPT !.left = call[t].left - 1] \in CallRecord
  BY <1>2, CallFields
<1>4. [call EXCEPT ![t].left = @ - 1] = [call EXCEPT ![t] = [call[t] EXCEPT !.left = call[t].left - 1]]
  BY <1>1
<1> QED
  BY <1>1, <1>3, <1>4

\* A request may set the number of its rotations.
LEMMA CallChoose ==
  ASSUME TypeOK, NEW t \in Thread, NEW c \in Nat
  PROVE  [call EXCEPT ![t].choose = c] \in [Thread -> CallRecord]
<1>1. call \in [Thread -> CallRecord]
  BY DEF TypeOK
<1>2. [call[t] EXCEPT !.choose = c] \in CallRecord
  BY <1>1, CallFields
<1>3. [call EXCEPT ![t].choose = c] = [call EXCEPT ![t] = [call[t] EXCEPT !.choose = c]]
  BY <1>1
<1> QED
  BY <1>1, <1>2, <1>3

\* The updates of a critical section have their type.
LEMMA PairType ==
  ASSUME NEW a \in List, NEW b \in List, NEW m \in Int, NEW n \in Int
  PROVE  <<[counter |-> a, delta |-> m], [counter |-> b, delta |-> n]>> \in Seq(UpdateRecord)
  BY DEF UpdateRecord

\* The migration thread's last update is that of the request list, and the
\* only one of a request list.
LEMMA MigrationUpdatesEnd ==
  ASSUME NEW to \in ToList, NEW n \in Nat
  PROVE  LET u == MigrationUpdates(to, n)
         IN /\ u \in Seq(UpdateRecord)
            /\ Len(u) \in 2 .. 4
            /\ \A i \in 1 .. Len(u) - 1 : u[i].counter \notin ToList
            /\ u[Len(u)] = [counter |-> to, delta |-> -n]
<1> DEFINE src  == Source(to)
           dst  == Target(to)
           up   == <<[counter |-> MmapList(dst), delta |-> n]>>
           free == IF src = dst THEN <<>>
                   ELSE <<[counter |-> FreeList(src), delta |-> n],
                          [counter |-> FreeList(dst), delta |-> -n]>>
           done == <<[counter |-> to, delta |-> -n]>>
<1>1. up \in Seq(UpdateRecord) /\ Len(up) = 1 /\ up[1].counter \notin ToList
  BY ListNames DEF UpdateRecord
<1>2. /\ free \in Seq(UpdateRecord) /\ Len(free) \in {0, 2}
      /\ \A i \in 1 .. Len(free) : free[i].counter \notin ToList
  <2>1. CASE src = dst
    BY <2>1
  <2>2. CASE src # dst
    BY <2>2, ListNames, PairType
  <2> QED
    BY <2>1, <2>2
<1>3. /\ done \in Seq(UpdateRecord) /\ Len(done) = 1
      /\ done[1] = [counter |-> to, delta |-> -n]
  BY ListNames DEF UpdateRecord
<1>4. MigrationUpdates(to, n) = (up \o free) \o done
  BY DEF MigrationUpdates
<1> HIDE DEF up, free, done
<1> DEFINE before == up \o free
<1>5. /\ before \in Seq(UpdateRecord) /\ Len(before) \in {1, 3}
      /\ \A i \in 1 .. Len(before) : before[i].counter \notin ToList
  <2>1. /\ before \in Seq(UpdateRecord) /\ Len(before) = 1 + Len(free)
        /\ \A i \in 1 .. 1 + Len(free) :
             before[i] = IF i <= 1 THEN up[i] ELSE free[i - 1]
    BY <1>1, <1>2, ConcatProperties
  <2> QED
    BY <1>1, <1>2, <2>1
<1> HIDE DEF before
<1> DEFINE all == before \o done
<1>6. /\ all \in Seq(UpdateRecord) /\ Len(all) = Len(before) + 1
      /\ all[Len(before) + 1] = done[1]
      /\ \A i \in 1 .. Len(before) : all[i] = before[i]
  <2>1. /\ all \in Seq(UpdateRecord) /\ Len(all) = Len(before) + Len(done)
        /\ \A i \in 1 .. Len(before) + Len(done) :
             all[i] = IF i <= Len(before) THEN before[i] ELSE done[i - Len(before)]
    BY <1>3, <1>5, ConcatProperties
  <2> HIDE DEF all
  <2> QED
    BY <1>3, <1>5, <2>1
<1>7. MigrationUpdates(to, n) = all
  BY <1>4 DEF before
<1> HIDE DEF all
<1>8. Len(all) \in 2 .. 4 /\ Len(all) - 1 = Len(before)
  BY <1>5, <1>6
<1>9. all[Len(all)] = [counter |-> to, delta |-> -n]
  BY <1>3, <1>5, <1>6
<1>10. \A i \in 1 .. Len(all) - 1 : all[i].counter \notin ToList
  BY <1>5, <1>6, <1>8
<1> QED
  BY <1>6, <1>7, <1>8, <1>9, <1>10

\* The frame a page names is a frame.
LEMMA FrameType ==
  ASSUME TypeOK, NEW p \in Page
  PROVE  FrameOf(p) \in Frame
  BY DEF TypeOK, FrameOf, Frame, Tier, TierOf, PageRecord

\* A page record keeps its type when one of its fields is set.
LEMMA PageFields ==
  ASSUME TypeOK, NEW p \in Page, NEW n \in Nat, NEW b \in BOOLEAN, NEW c \in BOOLEAN
  PROVE  /\ [pg EXCEPT ![p].va = n] \in [Page -> PageRecord]
         /\ [pg EXCEPT ![p].in_dram = b, ![p].devdax_offset = n] \in [Page -> PageRecord]
         /\ [pg EXCEPT ![p].devdax_offset = n, ![p].present = c, ![p].in_dram = b]
              \in [Page -> PageRecord]
<1>1. pg \in [Page -> PageRecord] /\ pg[p] \in PageRecord
  BY DEF TypeOK
<1>2. /\ [pg[p] EXCEPT !.va = n] \in PageRecord
      /\ [pg[p] EXCEPT !.in_dram = b, !.devdax_offset = n] \in PageRecord
      /\ [pg[p] EXCEPT !.devdax_offset = n, !.present = c, !.in_dram = b] \in PageRecord
  BY <1>1 DEF PageRecord
<1>3. /\ [pg EXCEPT ![p].va = n] = [pg EXCEPT ![p] = [pg[p] EXCEPT !.va = n]]
      /\ [pg EXCEPT ![p].in_dram = b, ![p].devdax_offset = n]
           = [pg EXCEPT ![p] = [pg[p] EXCEPT !.in_dram = b, !.devdax_offset = n]]
      /\ [pg EXCEPT ![p].devdax_offset = n, ![p].present = c, ![p].in_dram = b]
           = [pg EXCEPT ![p] = [pg[p] EXCEPT !.devdax_offset = n, !.present = c, !.in_dram = b]]
  BY <1>1
<1> QED
  BY <1>1, <1>2, <1>3

\* A step that changes only what thread t remembers disturbs no other thread.
LEMMA OthersOK ==
  ASSUME TypeOK, LocalInv, NEW t \in Thread,
         \A u \in Thread \ {t} : /\ pc'[u] = pc[u] /\ call'[u] = call[u]
                                 /\ cur'[u] = cur[u] /\ upd'[u] = upd[u],
         t # Migrator => batch' = batch,
         t \in App => AppOK(t)', t = FaultThread => FaultOK', t = Migrator => MigratorOK'
  PROVE  LocalInv'
<1> USE ThreadsAssumption DEF Thread
<1>1. ASSUME NEW u \in App PROVE AppOK(u)'
  BY DEF LocalInv, AppOK, From
<1>2. FaultOK'
  BY DEF LocalInv, FaultOK, FaultThread, Migrator
<1>3. MigratorOK'
  BY DEF LocalInv, MigratorOK, FaultThread, Migrator
<1> QED
  BY <1>1, <1>2, <1>3 DEF LocalInv

\* The same, for a step of the migration thread.
LEMMA MigratorOthersOK ==
  ASSUME TypeOK, LocalInv, NEW label, pc' = [pc EXCEPT ![Migrator] = label],
         UNCHANGED <<call, cur>>,
         \A u \in Thread \ {Migrator} : upd'[u] = upd[u], MigratorOK'
  PROVE  LocalInv'
<1> USE ThreadsAssumption DEF Thread
<1>1. \A u \in Thread \ {Migrator} : pc'[u] = pc[u]
  BY DEF TypeOK
<1> QED
  BY <1>1, OthersOK DEF FaultThread, Migrator

\* The initial state has its type and satisfies the local invariants.
LEMMA InitLocal == Init => TypeOK /\ LocalInv
<1> SUFFICES ASSUME Init PROVE TypeOK /\ LocalInv
  OBVIOUS
<1> USE SizesAssumption, ThreadsAssumption
<1>1. InitialFrames("dram") \in Seq(Page) /\ InitialFrames("nvm") \in Seq(Page)
  BY DEF InitialFrames, FramesIn, Page
<1>2. list \in [List -> Seq(Page)]
  BY <1>1 DEF Init, List, ToList
<1>3. num \in [List -> Int]
  BY DEF Init, List, ToList
<1>4. pg \in [Page -> PageRecord]
  BY DEF PageRecord, Init, Page, InitialOffset
<1>5. pc \in [Thread -> Label]
  BY DEF Init, Thread, Label, FaultThread, Migrator
<1>6. call \in [Thread -> CallRecord]
  BY DEF Init, NoCall, RegionCall, CallRecord, ToList
<1>7. batch \in BatchRecord
  BY EmptyType DEF Init, ToList
<1>8. vm \in [VA -> Frame \cup {Unmapped, Reserved}]
  BY DEF Init
<1>9. hashed \subseteq Page /\ panic \in Cause
  BY DEF Init, Cause
<1>10. lock \in [{"pages_lock", "stats_lock"} -> Thread \cup {NoThread}]
  BY DEF Init
<1>11. cur \in [Thread -> Page \cup {NoPage}]
  BY DEF Init
<1>12. upd \in [Thread -> Seq(UpdateRecord)]
  BY DEF Init
<1>13. reg \in [Thread -> Seq(Int)]
  BY DEF Init, NoReg
<1>14. TypeOK
  BY <1>2, <1>3, <1>4, <1>5, <1>6, <1>7, <1>8, <1>9, <1>10, <1>11, <1>12, <1>13 DEF TypeOK
<1>15. LocalInv
  BY DEF Init, LocalInv, AppOK, FaultOK, MigratorOK, EmptyBatch, AppLabel, FaultLabel,
         MigratorLabel, MmapLabel, RequestLabel, HoldingLabel, Thread, FaultThread,
         Migrator
<1> QED
  BY <1>14, <1>15

\* The death of the process preserves them.
LEMMA PanicLocal ==
  ASSUME TypeOK, LocalInv, NEW why \in Cause, Panic(why)
  PROVE  TypeOK' /\ LocalInv'
<1>1. TypeOK'
  BY DEF TypeOK, Panic, Label
<1>2. \A t \in Thread : pc'[t] = "dead"
  BY DEF Panic
<1>3. LocalInv'
  BY <1>2
  DEF LocalInv, AppOK, FaultOK, MigratorOK, AppLabel, FaultLabel, MigratorLabel,
      MmapLabel, RequestLabel, HoldingLabel, Thread
<1> QED
  BY <1>1, <1>3

-----------------------------------------------------------------------------
(* Type correctness: the calls and the allocation.                          *)

\* Mmap keeps every variable in its type and every thread in its own code.
LEMMA MmapLocal ==
  ASSUME TypeOK, LocalInv, NEW t \in App, NEW lo \in VA, NEW hi \in VA,
         NEW populate \in BOOLEAN,
         Mmap(t, lo, hi, populate)
  PROVE  TypeOK' /\ LocalInv'
<1> USE SizesAssumption, ThreadsAssumption DEF Thread
<1>1. call' \in [Thread -> CallRecord]
  BY CallType DEF TypeOK, Mmap
<1>2. vm' \in [VA -> Frame \cup {Unmapped, Reserved}]
  BY DEF TypeOK, Mmap
<1>3. pc' \in [Thread -> Label]
  BY DEF TypeOK, Mmap, Goto, Label
<1>4. TypeOK'
  BY <1>1, <1>2, <1>3 DEF TypeOK, Mmap
<1>5. AppOK(t)'
  BY DEF LocalInv, AppOK, TypeOK, Mmap, RegionCall, Goto, AppLabel, MmapLabel,
         RequestLabel, HoldingLabel, FaultThread, Migrator, From
<1>6. LocalInv'
  BY <1>5, OthersOK DEF Mmap, RegionCall, Goto, TypeOK, FaultThread, Migrator
<1> QED
  BY <1>4, <1>6

\* Touch keeps every variable in its type and every thread in its own code.
LEMMA TouchLocal ==
  ASSUME TypeOK, LocalInv, NEW t \in App, NEW v \in VA,
         Touch(t, v)
  PROVE  TypeOK' /\ LocalInv'
<1> USE SizesAssumption, ThreadsAssumption DEF Thread
<1>1. call' \in [Thread -> CallRecord]
  BY CallType DEF TypeOK, Touch
<1>2. pc' \in [Thread -> Label]
  BY DEF TypeOK, Touch, Goto, Label
<1>3. TypeOK'
  BY <1>1, <1>2 DEF TypeOK, Touch
<1>4. AppOK(t)'
  BY DEF LocalInv, AppOK, TypeOK, Touch, RegionCall, Goto, AppLabel, MmapLabel,
         RequestLabel, HoldingLabel, FaultThread, Migrator, From
<1>5. LocalInv'
  BY <1>4, OthersOK DEF Touch, RegionCall, Goto, TypeOK, FaultThread, Migrator
<1> QED
  BY <1>3, <1>5

\* ReadFault keeps every variable in its type and every thread in its own code.
LEMMA ReadFaultLocal ==
  ASSUME TypeOK, LocalInv, NEW t \in App,
         ReadFault(t)
  PROVE  TypeOK' /\ LocalInv'
<1> USE SizesAssumption, ThreadsAssumption DEF Thread
<1>1. call' \in [Thread -> CallRecord]
  BY DEF TypeOK, ReadFault
<1>2. pc' \in [Thread -> Label]
  BY DEF TypeOK, ReadFault, Goto, Label
<1>3. TypeOK'
  BY <1>1, <1>2 DEF TypeOK, ReadFault
<1>4. LocalInv'
  BY <1>3
  DEF LocalInv, AppOK, FaultOK, MigratorOK, TypeOK, AppLabel, FaultLabel, MigratorLabel,
      MmapLabel, RequestLabel, HoldingLabel, FaultThread, Migrator, Goto, Thread,
      ReadFault, From
<1> QED
  BY <1>3, <1>4

\* Allocate keeps every variable in its type and every thread in its own code.
LEMMA AllocateLocal ==
  ASSUME TypeOK, LocalInv, NEW t \in App \cup {FaultThread}, NEW tier \in Tier,
         Allocate(t, tier)
  PROVE  TypeOK' /\ LocalInv'
<1> USE ThreadsAssumption DEF Thread
<1> DEFINE free == list[FreeList(tier)]
<1>0. t \in Thread /\ t # Migrator /\ pc[t] \in {"alloc", "alloc_nvm"}
  BY DEF Allocate, FaultThread, Migrator
<1>1. CASE \E why \in Cause : Panic(why)
  BY <1>1, PanicLocal
<1>2. CASE ~\E why \in Cause : Panic(why)
  <2>1. CASE free = <<>>
    <3>1. pc' = [pc EXCEPT ![t] = "alloc_nvm"]
      BY <1>2, <2>1 DEF Allocate, Cause, Goto
    <3>2. UNCHANGED <<list, cur, num, pg, hashed, vm, lock, call, upd, reg, batch, panic>>
      BY <1>2, <2>1 DEF Allocate, Cause
    <3>3. TypeOK'
      BY <3>1, <3>2 DEF TypeOK, Label
    <3>4. t \in App => AppOK(t)'
      BY <1>0, <3>1, <3>2
      DEF LocalInv, AppOK, AppLabel, MmapLabel, RequestLabel, HoldingLabel, TypeOK
    <3>5. t = FaultThread => FaultOK'
      BY <1>0, <3>1, <3>2 DEF LocalInv, FaultOK, FaultLabel, HoldingLabel, TypeOK
    <3>6. LocalInv'
      BY <1>0, <3>1, <3>2, <3>4, <3>5, OthersOK DEF TypeOK
    <3> QED
      BY <3>3, <3>6
  <2>2. CASE free # <<>>
    <3>1. /\ pc' = [pc EXCEPT ![t] = "place"]
          /\ cur' = [cur EXCEPT ![t] = Head(free)]
          /\ Dequeue(FreeList(tier))
      BY <1>2, <2>2 DEF Allocate, Cause, Goto
    <3>2. UNCHANGED <<num, pg, hashed, vm, lock, call, upd, reg, batch, panic>>
      BY <1>2, <2>2 DEF Allocate, Cause
    <3>3. Head(free) \in Page /\ list' \in [List -> Seq(Page)]
      BY <2>2, <3>1, ListNames, DequeueType
    <3>4. TypeOK'
      BY <3>1, <3>2, <3>3 DEF TypeOK, Label
    <3>5. t \in App => AppOK(t)'
      BY <1>0, <3>1, <3>2, <3>3
      DEF LocalInv, AppOK, AppLabel, MmapLabel, RequestLabel, HoldingLabel, TypeOK
    <3>6. t = FaultThread => FaultOK'
      BY <1>0, <3>1, <3>2, <3>3 DEF LocalInv, FaultOK, FaultLabel, HoldingLabel, TypeOK
    <3>7. LocalInv'
      BY <1>0, <3>1, <3>2, <3>5, <3>6, OthersOK DEF TypeOK
    <3> QED
      BY <3>4, <3>7
  <2> QED
    BY <2>1, <2>2
<1> QED
  BY <1>1, <1>2

\* Place keeps every variable in its type and every thread in its own code.
LEMMA PlaceLocal ==
  ASSUME TypeOK, LocalInv, NEW t \in App \cup {FaultThread},
         Place(t)
  PROVE  TypeOK' /\ LocalInv'
<1> USE SizesAssumption, ThreadsAssumption DEF Thread
<1>1. list' \in [List -> Seq(Page)]
  BY ListNames DEF TypeOK, Place, Enqueue, LocalInv, AppOK, FaultOK, HoldingLabel
<1>2. pg' \in [Page -> PageRecord]
  BY DEF TypeOK, Place, PageRecord
<1>3. pc' \in [Thread -> Label]
  BY DEF TypeOK, Place, Goto, Label
<1>4. TypeOK'
  BY <1>1, <1>2, <1>3 DEF TypeOK, Place
<1>5. t \in App => AppOK(t)'
  BY DEF LocalInv, AppOK, TypeOK, Place, Enqueue, Goto, AppLabel, MmapLabel, RequestLabel,
         HoldingLabel, FaultThread, Migrator, From
<1>6. t = FaultThread => FaultOK'
  BY DEF LocalInv, FaultOK, TypeOK, Place, Enqueue, Goto, FaultLabel, HoldingLabel,
         FaultThread, Migrator
<1>7. LocalInv'
  BY <1>5, <1>6, OthersOK DEF Place, Enqueue, Goto, TypeOK, FaultThread, Migrator
<1> QED
  BY <1>4, <1>7

\* Map keeps every variable in its type and every thread in its own code.
LEMMA MapLocal ==
  ASSUME TypeOK, LocalInv, NEW t \in App \cup {FaultThread}, Map(t)
  PROVE  TypeOK' /\ LocalInv'
<1> USE ThreadsAssumption DEF Thread
<1> DEFINE tier == TierOf(cur[t])
           updates == <<[counter |-> MmapList(tier), delta |-> 1],
                        [counter |-> FreeList(tier), delta |-> -1]>>
<1>1. t \in Thread /\ t # Migrator /\ pc[t] = "map" /\ cur[t] \in Page
  BY DEF Map, LocalInv, AppOK, FaultOK, HoldingLabel, FaultThread, Migrator
<1>2. updates \in Seq(UpdateRecord) /\ Len(updates) = 2
  BY ListNames, PairType
<1>3. \A i \in 1 .. Len(updates) : updates[i].counter \notin ToList
  BY ListNames
<1>4. UNCHANGED <<list, num, pg, hashed, lock, call, cur, reg, batch, panic>>
  BY DEF Map
<1>5. vm' \in [VA -> Frame \cup {Unmapped, Reserved}]
  BY <1>1, FrameType DEF Map, TypeOK
<1>6. CASE t = FaultThread
  <2>1. pc' = [pc EXCEPT ![t] = "publish"] /\ upd' = upd
    BY <1>6 DEF Map, Goto
  <2>2. TypeOK'
    BY <1>4, <1>5, <2>1 DEF TypeOK, Label
  <2>3. FaultOK'
    BY <1>1, <1>4, <1>6, <2>1 DEF FaultOK, FaultLabel, HoldingLabel, TypeOK
  <2>4. LocalInv'
    BY <1>1, <1>4, <1>6, <2>1, <2>3, OthersOK DEF TypeOK
  <2> QED
    BY <2>2, <2>4
<1>7. CASE t # FaultThread
  <2>1. pc' = [pc EXCEPT ![t] = "count"] /\ upd' = [upd EXCEPT ![t] = updates]
    BY <1>7 DEF Map, StartCounting, Goto
  <2>2. TypeOK'
    <3> HIDE DEF updates
    <3> QED
      BY <1>2, <1>4, <1>5, <2>1 DEF TypeOK, Label
  <2>3. AppOK(t)'
    <3>1. t \in App /\ call[t].op = "mmap"
      BY <1>1, <1>7 DEF LocalInv, AppOK, MmapLabel
    <3>2. upd'[t] = updates /\ pc'[t] = "count" /\ cur'[t] \in Page /\ call'[t].op = "mmap"
      BY <1>1, <1>4, <2>1, <3>1 DEF TypeOK
    <3> HIDE DEF updates
    <3>3. Len(upd'[t]) = 2 /\ \A i \in 1 .. Len(upd'[t]) : upd'[t][i].counter \notin ToList
      BY <1>2, <1>3, <3>2
    <3> QED
      BY <3>2, <3>3 DEF AppOK, AppLabel, MmapLabel, RequestLabel, HoldingLabel
  <2>4. LocalInv'
    BY <1>1, <1>4, <1>7, <2>1, <2>3, OthersOK DEF TypeOK
  <2> QED
    BY <2>2, <2>4
<1> QED
  BY <1>6, <1>7

\* Publish keeps every variable in its type and every thread in its own code.
LEMMA PublishLocal ==
  ASSUME TypeOK, LocalInv, NEW t \in App \cup {FaultThread}, Publish(t)
  PROVE  TypeOK' /\ LocalInv'
<1> USE ThreadsAssumption DEF Thread
<1>1. call[t].va \in Nat
  BY DEF TypeOK, CallRecord
<1>2. pg' \in [Page -> PageRecord]
  BY <1>1, PageFields DEF TypeOK, Publish
<1>3. TypeOK'
  BY <1>2 DEF TypeOK, Publish, Goto, Label
<1>4. t \in App => AppOK(t)'
  BY DEF LocalInv, AppOK, TypeOK, Publish, Goto, AppLabel, MmapLabel, RequestLabel,
         HoldingLabel
<1>5. t = FaultThread => FaultOK'
  BY DEF LocalInv, FaultOK, TypeOK, Publish, Goto, FaultLabel, HoldingLabel
<1>6. LocalInv'
  BY <1>4, <1>5, OthersOK DEF Publish, Goto, TypeOK, FaultThread, Migrator
<1> QED
  BY <1>3, <1>6

\* AddPage keeps every variable in its type and every thread in its own code.
LEMMA AddPageLocal ==
  ASSUME TypeOK, LocalInv, NEW t \in App \cup {FaultThread}, AddPage(t)
  PROVE  TypeOK' /\ LocalInv'
<1> USE ThreadsAssumption DEF Thread
<1>1. CASE \E why \in Cause : Panic(why)
  BY <1>1, PanicLocal
<1>2. CASE ~\E why \in Cause : Panic(why)
  <2> DEFINE label == CASE t = FaultThread -> "wake"
                        [] t # FaultThread /\ call[t].va < call[t].hi -> "alloc"
                        [] OTHER -> "idle"
  <2>1. t \in Thread /\ t # Migrator /\ pc[t] = "add" /\ cur[t] \in Page
    BY DEF AddPage, LocalInv, AppOK, FaultOK, HoldingLabel, FaultThread, Migrator
  <2>2. /\ hashed' = hashed \cup {cur[t]}
        /\ cur' = [cur EXCEPT ![t] = NoPage]
        /\ call' = [call EXCEPT ![t].va = @ + 1]
        /\ pc' = [pc EXCEPT ![t] = label]
    BY <1>2 DEF AddPage, Cause, Goto
  <2>3. UNCHANGED <<list, num, pg, vm, lock, upd, reg, batch, panic>>
    BY <1>2 DEF AddPage, Cause
  <2>4. label \in {"wake", "alloc", "idle"} /\ (t # FaultThread => label # "wake")
                                            /\ (t = FaultThread => label = "wake")
    OBVIOUS
  <2> HIDE DEF label
  <2>5. call' \in [Thread -> CallRecord]
    BY <2>1, <2>2, CallVa
  <2>6. TypeOK'
    BY <2>1, <2>2, <2>3, <2>4, <2>5 DEF TypeOK, Label
  <2>7. call'[t].op = call[t].op /\ pc'[t] = label
    BY <2>1, <2>2 DEF TypeOK, CallRecord
  <2>8. t \in App => AppOK(t)'
    BY <2>1, <2>4, <2>7
    DEF LocalInv, AppOK, AppLabel, MmapLabel, RequestLabel, HoldingLabel, FaultThread
  <2>9. t = FaultThread => FaultOK'
    BY <2>4, <2>7 DEF FaultOK, FaultLabel, HoldingLabel
  <2>10. \A u \in Thread \ {t} : /\ pc'[u] = pc[u] /\ call'[u] = call[u]
                                 /\ cur'[u] = cur[u] /\ upd'[u] = upd[u]
    BY <2>2, <2>3 DEF TypeOK
  <2>11. LocalInv'
    BY <2>1, <2>3, <2>8, <2>9, <2>10, OthersOK
  <2> QED
    BY <2>6, <2>11
<1> QED
  BY <1>1, <1>2

\* Wake keeps every variable in its type and every thread in its own code.
LEMMA WakeLocal ==
  ASSUME TypeOK, LocalInv,
         Wake
  PROVE  TypeOK' /\ LocalInv'
<1> USE SizesAssumption, ThreadsAssumption DEF Thread
<1>1. pc' \in [Thread -> Label]
  BY DEF TypeOK, Wake, Label
<1>2. TypeOK'
  BY <1>1 DEF TypeOK, Wake
<1>3. LocalInv'
  BY <1>2
  DEF LocalInv, AppOK, FaultOK, MigratorOK, TypeOK, AppLabel, FaultLabel, MigratorLabel,
      MmapLabel, RequestLabel, HoldingLabel, FaultThread, Migrator, Goto, Thread, Wake,
      WaitsFor, From
<1> QED
  BY <1>2, <1>3

-----------------------------------------------------------------------------
(* Type correctness: hemem_munmap and the requests.                         *)

\* Munmap keeps every variable in its type and every thread in its own code.
LEMMA MunmapLocal ==
  ASSUME TypeOK, LocalInv, NEW t \in App, NEW lo \in VA, NEW hi \in VA,
         Munmap(t, lo, hi)
  PROVE  TypeOK' /\ LocalInv'
<1> USE SizesAssumption, ThreadsAssumption DEF Thread
<1>1. call' \in [Thread -> CallRecord]
  BY CallType DEF TypeOK, Munmap
<1>2. pc' \in [Thread -> Label]
  BY DEF TypeOK, Munmap, Goto, Label
<1>3. TypeOK'
  BY <1>1, <1>2 DEF TypeOK, Munmap
<1>4. AppOK(t)'
  BY DEF LocalInv, AppOK, TypeOK, Munmap, RegionCall, Goto, AppLabel, MmapLabel,
         RequestLabel, HoldingLabel, FaultThread, Migrator, From
<1>5. LocalInv'
  BY <1>4, OthersOK DEF Munmap, RegionCall, Goto, TypeOK, FaultThread, Migrator
<1> QED
  BY <1>3, <1>5

\* RemovePage keeps every variable in its type and every thread in its own code.
LEMMA RemovePageLocal ==
  ASSUME TypeOK, LocalInv, NEW t \in App,
         RemovePage(t)
  PROVE  TypeOK' /\ LocalInv'
<1> USE SizesAssumption, ThreadsAssumption DEF Thread
<1>1. call' \in [Thread -> CallRecord]
  BY CallVa DEF TypeOK, RemovePage
<1>2. hashed' \subseteq Page
  BY DEF TypeOK, RemovePage, Untrack
<1>3. cur' \in [Thread -> Page \cup {NoPage}]
  BY DEF TypeOK, RemovePage
<1>4. pc' \in [Thread -> Label]
  BY DEF TypeOK, RemovePage, Goto, Label
<1>5. TypeOK'
  BY <1>1, <1>2, <1>3, <1>4 DEF TypeOK, RemovePage
<1>6. AppOK(t)'
  BY DEF LocalInv, AppOK, TypeOK, RemovePage, Untrack, Goto, AppLabel, MmapLabel,
         RequestLabel, HoldingLabel, FaultThread, Migrator, From
<1>7. LocalInv'
  BY <1>6, OthersOK DEF RemovePage, Untrack, Goto, TypeOK, FaultThread, Migrator
<1> QED
  BY <1>5, <1>7

\* UncountPage keeps every variable in its type and every thread in its own code.
LEMMA UncountPageLocal ==
  ASSUME TypeOK, LocalInv, NEW t \in App, UncountPage(t)
  PROVE  TypeOK' /\ LocalInv'
<1> USE ThreadsAssumption DEF Thread
<1> DEFINE tier == TierOf(cur[t])
           updates == <<[counter |-> MmapList(tier), delta |-> -1],
                        [counter |-> FreeList(tier), delta |-> 1]>>
<1>1. pc[t] = "removed" /\ call[t].op = "munmap"
  BY DEF UncountPage, LocalInv, AppOK
<1>2. updates \in Seq(UpdateRecord) /\ Len(updates) = 2
  BY ListNames, PairType
<1>3. \A i \in 1 .. Len(updates) : updates[i].counter \notin ToList
  BY ListNames
<1>4. /\ lock' = [lock EXCEPT !["pages_lock"] = t]
      /\ pc' = [pc EXCEPT ![t] = "count"]
      /\ upd' = [upd EXCEPT ![t] = updates]
      /\ cur' = [cur EXCEPT ![t] = NoPage]
      /\ UNCHANGED <<list, num, pg, hashed, vm, call, reg, batch, panic>>
  BY DEF UncountPage, StartCounting, Goto
<1> HIDE DEF updates
<1>5. TypeOK'
  BY <1>2, <1>4 DEF TypeOK, Label
<1>6. upd'[t] = updates /\ pc'[t] = "count" /\ call'[t].op = "munmap"
  BY <1>1, <1>4 DEF TypeOK
<1>7. AppOK(t)'
  <2>1. Len(upd'[t]) = 2 /\ \A i \in 1 .. Len(upd'[t]) : upd'[t][i].counter \notin ToList
    BY <1>2, <1>3, <1>6
  <2> QED
    BY <1>6, <2>1 DEF AppOK, AppLabel, MmapLabel, RequestLabel, HoldingLabel
<1>8. LocalInv'
  BY <1>4, <1>7, OthersOK DEF TypeOK, FaultThread, Migrator
<1> QED
  BY <1>5, <1>8

\* Unmap keeps every variable in its type and every thread in its own code.
LEMMA UnmapLocal ==
  ASSUME TypeOK, LocalInv, NEW t \in App,
         Unmap(t)
  PROVE  TypeOK' /\ LocalInv'
<1> USE SizesAssumption, ThreadsAssumption DEF Thread
<1>1. vm' \in [VA -> Frame \cup {Unmapped, Reserved}]
  BY DEF TypeOK, Unmap
<1>2. pc' \in [Thread -> Label]
  BY DEF TypeOK, Unmap, Goto, Label
<1>3. TypeOK'
  BY <1>1, <1>2 DEF TypeOK, Unmap
<1>4. AppOK(t)'
  BY DEF LocalInv, AppOK, TypeOK, Unmap, Goto, AppLabel, MmapLabel, RequestLabel,
         HoldingLabel, FaultThread, Migrator, From
<1>5. LocalInv'
  BY <1>4, OthersOK DEF Unmap, Goto, TypeOK, FaultThread, Migrator
<1> QED
  BY <1>3, <1>5

\* Request keeps every variable in its type and every thread in its own code.
LEMMA RequestLocal ==
  ASSUME TypeOK, LocalInv, NEW t \in App, NEW to \in ToList, NEW n \in Nat,
         NEW random \in BOOLEAN,
         Request(t, to, n, random)
  PROVE  TypeOK' /\ LocalInv'
<1> USE SizesAssumption, ThreadsAssumption DEF Thread
<1>1. call' \in [Thread -> CallRecord]
  BY CallType DEF TypeOK, Request
<1>2. pc' \in [Thread -> Label]
  BY DEF TypeOK, Request, Goto, Label
<1>3. TypeOK'
  BY <1>1, <1>2 DEF TypeOK, Request
<1>4. AppOK(t)'
  BY DEF LocalInv, AppOK, TypeOK, Request, RequestCall, Goto, AppLabel, MmapLabel,
         RequestLabel, HoldingLabel, FaultThread, Migrator, From
<1>5. LocalInv'
  BY <1>4, OthersOK DEF Request, RequestCall, Goto, TypeOK, FaultThread, Migrator
<1> QED
  BY <1>3, <1>5

\* Choose keeps every variable in its type and every thread in its own code.
LEMMA ChooseLocal ==
  ASSUME TypeOK, LocalInv, NEW t \in App, Choose(t)
  PROVE  TypeOK' /\ LocalInv'
<1> USE ThreadsAssumption DEF Thread
<1>1. CASE \E why \in Cause : Panic(why)
  BY <1>1, PanicLocal
<1>2. CASE ~\E why \in Cause : Panic(why)
  <2>1. num[From(t)] # 0
    BY <1>2 DEF Choose, Cause
  <2>2. PICK c \in 0 .. AsUnsignedMin(num[From(t)] - 1, MaxRand) :
          /\ call' = [call EXCEPT ![t].choose = c]
          /\ pc' = [pc EXCEPT ![t] = IF c = 0 THEN "take" ELSE "rotate"]
          /\ UNCHANGED <<list, num, pg, hashed, vm, lock, cur, upd, reg, batch, panic>>
    BY <1>2, <2>1 DEF Choose, Cause, Goto
  <2>3. c \in Nat
    <3>1. AsUnsignedMin(num[From(t)] - 1, MaxRand) \in Nat
      BY SizesAssumption, ListNames DEF AsUnsignedMin, TypeOK
    <3> QED
      BY <3>1
  <2>4. call' \in [Thread -> CallRecord]
    BY <2>2, <2>3, CallChoose
  <2>5. TypeOK'
    BY <2>2, <2>4 DEF TypeOK, Label
  <2>6. /\ call'[t].op = call[t].op /\ call'[t].left = call[t].left
        /\ call'[t].choose = c /\ pc'[t] = IF c = 0 THEN "take" ELSE "rotate"
    BY <2>2 DEF TypeOK, CallRecord
  <2>7. call[t].op = "request" /\ call[t].left > 0
    BY DEF Choose, LocalInv, AppOK, RequestLabel
  <2>8. AppOK(t)'
    BY <2>3, <2>6, <2>7 DEF AppOK, AppLabel, MmapLabel, RequestLabel, HoldingLabel
  <2>9. \A u \in Thread \ {t} : pc'[u] = pc[u] /\ call'[u] = call[u]
    BY <2>2 DEF TypeOK
  <2>10. LocalInv'
    BY <2>2, <2>8, <2>9, OthersOK DEF FaultThread, Migrator
  <2> QED
    BY <2>5, <2>10
<1> QED
  BY <1>1, <1>2

\* Rotate keeps every variable in its type and every thread in its own code.
LEMMA RotateLocal ==
  ASSUME TypeOK, LocalInv, NEW t \in App, Rotate(t)
  PROVE  TypeOK' /\ LocalInv'
<1> USE ThreadsAssumption DEF Thread
<1>1. CASE \E why \in Cause : Panic(why)
  BY <1>1, PanicLocal
<1>2. CASE ~\E why \in Cause : Panic(why)
  <2>1. /\ list[From(t)] # <<>>
        /\ cur' = [cur EXCEPT ![t] = Head(list[From(t)])]
        /\ Dequeue(From(t))
        /\ call' = [call EXCEPT ![t].choose = @ - 1]
        /\ pc' = [pc EXCEPT ![t] = "rotate_back"]
        /\ UNCHANGED <<num, pg, hashed, vm, lock, upd, reg, batch, panic>>
    BY <1>2 DEF Rotate, Cause, Goto
  <2>2. Head(list[From(t)]) \in Page /\ list' \in [List -> Seq(Page)]
    BY <2>1, ListNames, DequeueType
  <2>3. call[t].op = "request" /\ call[t].choose > 0 /\ call[t].left > 0
    BY DEF Rotate, LocalInv, AppOK, RequestLabel
  <2>4. call[t].choose - 1 \in Nat
    <3>1. call[t] \in CallRecord
      BY DEF TypeOK
    <3> QED
      BY <2>3, <3>1 DEF CallRecord
  <2>5. call' \in [Thread -> CallRecord]
    <3>1. call' = [call EXCEPT ![t].choose = call[t].choose - 1]
      BY <2>1
    <3> QED
      BY <2>4, <3>1, CallChoose
  <2>6. TypeOK'
    BY <2>1, <2>2, <2>5 DEF TypeOK, Label
  <2>7. /\ call'[t].op = call[t].op /\ call'[t].left = call[t].left
        /\ cur'[t] \in Page /\ pc'[t] = "rotate_back"
    BY <2>1, <2>2 DEF TypeOK, CallRecord
  <2>8. AppOK(t)'
    BY <2>3, <2>7 DEF AppOK, AppLabel, MmapLabel, RequestLabel, HoldingLabel
  <2>9. \A u \in Thread \ {t} : /\ pc'[u] = pc[u] /\ call'[u] = call[u]
                                /\ cur'[u] = cur[u] /\ upd'[u] = upd[u]
    BY <2>1 DEF TypeOK
  <2>10. LocalInv'
    BY <2>1, <2>8, <2>9, OthersOK DEF FaultThread, Migrator
  <2> QED
    BY <2>6, <2>10
<1> QED
  BY <1>1, <1>2

\* RotateBack keeps every variable in its type and every thread in its own code.
LEMMA RotateBackLocal ==
  ASSUME TypeOK, LocalInv, NEW t \in App, RotateBack(t)
  PROVE  TypeOK' /\ LocalInv'
<1> USE ThreadsAssumption DEF Thread
<1>1. /\ cur' = [cur EXCEPT ![t] = NoPage]
      /\ pc' = [pc EXCEPT ![t] = IF call[t].choose = 0 THEN "take" ELSE "rotate"]
      /\ UNCHANGED <<num, pg, hashed, vm, lock, call, upd, reg, batch, panic>>
  BY DEF RotateBack, Goto
<1>2. cur[t] \in Page /\ call[t].op = "request" /\ call[t].left > 0 /\ call[t].choose \in Nat
  BY DEF RotateBack, LocalInv, AppOK, RequestLabel, HoldingLabel, TypeOK, CallRecord
<1>3. list' \in [List -> Seq(Page)]
  BY <1>2, ListNames, EnqueueType DEF RotateBack
<1>4. TypeOK'
  BY <1>1, <1>3 DEF TypeOK, Label
<1>5. pc'[t] = (IF call[t].choose = 0 THEN "take" ELSE "rotate") /\ call' = call
  BY <1>1 DEF TypeOK
<1>6. AppOK(t)'
  BY <1>2, <1>5 DEF AppOK, AppLabel, MmapLabel, RequestLabel, HoldingLabel
<1>7. LocalInv'
  BY <1>1, <1>6, OthersOK DEF TypeOK, FaultThread, Migrator
<1> QED
  BY <1>4, <1>7

\* Take keeps every variable in its type and every thread in its own code.
LEMMA TakeLocal ==
  ASSUME TypeOK, LocalInv, NEW t \in App, Take(t)
  PROVE  TypeOK' /\ LocalInv'
<1> USE ThreadsAssumption DEF Thread
<1>1. CASE \E why \in Cause : Panic(why)
  BY <1>1, PanicLocal
<1>2. CASE ~\E why \in Cause : Panic(why)
  <2>1. call' = NextIteration(t) /\ UNCHANGED <<num, pg, hashed, vm, lock, upd, reg, batch, panic>>
    BY <1>2 DEF Take, Cause
  <2>2. call[t].op = "request" /\ call[t].left > 0
    BY DEF Take, LocalInv, AppOK, RequestLabel
  <2>3. call' \in [Thread -> CallRecord] /\ call'[t].op = "request"
    <3>1. call' \in [Thread -> CallRecord]
      BY <2>1, <2>2, CallLeft DEF NextIteration
    <3>2. call'[t].op = call[t].op
      BY <2>1 DEF NextIteration, TypeOK, CallRecord
    <3> QED
      BY <2>2, <3>1, <3>2
  <2>4. \A u \in Thread \ {t} : call'[u] = call[u]
    BY <2>1 DEF NextIteration, TypeOK
  <2>5. CASE list[From(t)] = <<>>
    <3>1. pc' = [pc EXCEPT ![t] = "request"] /\ UNCHANGED <<list, cur>>
      BY <1>2, <2>5 DEF Take, Cause, Goto
    <3>2. TypeOK'
      BY <2>1, <2>3, <3>1 DEF TypeOK, Label
    <3>3. AppOK(t)'
      BY <2>3, <3>1 DEF AppOK, AppLabel, MmapLabel, RequestLabel, HoldingLabel, TypeOK
    <3>4. LocalInv'
      BY <2>1, <2>4, <3>1, <3>3, OthersOK DEF TypeOK, FaultThread, Migrator
    <3> QED
      BY <3>2, <3>4
  <2>6. CASE list[From(t)] # <<>>
    <3>1. /\ pc' = [pc EXCEPT ![t] = "queue"]
          /\ cur' = [cur EXCEPT ![t] = Head(list[From(t)])]
          /\ Dequeue(From(t))
      BY <1>2, <2>6 DEF Take, Cause, Goto
    <3>2. Head(list[From(t)]) \in Page /\ list' \in [List -> Seq(Page)]
      BY <2>6, <3>1, ListNames, DequeueType
    <3>3. TypeOK'
      BY <2>1, <2>3, <3>1, <3>2 DEF TypeOK, Label
    <3>4. pc'[t] = "queue" /\ cur'[t] \in Page
      BY <3>1, <3>2 DEF TypeOK
    <3>5. AppOK(t)'
      BY <2>3, <3>4 DEF AppOK, AppLabel, MmapLabel, RequestLabel, HoldingLabel
    <3>6. LocalInv'
      BY <2>1, <2>4, <3>1, <3>5, OthersOK DEF TypeOK, FaultThread, Migrator
    <3> QED
      BY <3>3, <3>6
  <2> QED
    BY <2>5, <2>6
<1> QED
  BY <1>1, <1>2

\* Queue keeps every variable in its type and every thread in its own code.
LEMMA QueueLocal ==
  ASSUME TypeOK, LocalInv, NEW t \in App,
         Queue(t)
  PROVE  TypeOK' /\ LocalInv'
<1> USE SizesAssumption, ThreadsAssumption DEF Thread
<1>1. list' \in [List -> Seq(Page)]
  BY ListNames
  DEF TypeOK, Queue, Enqueue, CallRecord, List, LocalInv, AppOK, FaultOK, HoldingLabel
<1>2. cur' \in [Thread -> Page \cup {NoPage}]
  BY DEF TypeOK, Queue
<1>3. upd' \in [Thread -> Seq(UpdateRecord)]
  BY ListNames, PairType DEF TypeOK, Queue, StartCounting, CallRecord, List
<1>4. pc' \in [Thread -> Label]
  BY DEF TypeOK, Queue, StartCounting, Goto, Label
<1>5. TypeOK'
  BY <1>1, <1>2, <1>3, <1>4 DEF TypeOK, Queue
<1>6. AppOK(t)'
  BY DEF LocalInv, AppOK, TypeOK, Queue, Enqueue, StartCounting, Goto, AppLabel,
         MmapLabel, RequestLabel, HoldingLabel, FaultThread, Migrator, From
<1>7. LocalInv'
  BY <1>6, OthersOK DEF Queue, Enqueue, StartCounting, Goto, TypeOK, FaultThread, Migrator
<1> QED
  BY <1>5, <1>7

\* RequestDone keeps every variable in its type and every thread in its own code.
LEMMA RequestDoneLocal ==
  ASSUME TypeOK, LocalInv, NEW t \in App,
         RequestDone(t)
  PROVE  TypeOK' /\ LocalInv'
<1> USE SizesAssumption, ThreadsAssumption DEF Thread
<1>1. pc' \in [Thread -> Label]
  BY DEF TypeOK, RequestDone, Goto, Label
<1>2. TypeOK'
  BY <1>1 DEF TypeOK, RequestDone
<1>3. AppOK(t)'
  BY DEF LocalInv, AppOK, TypeOK, RequestDone, Goto, AppLabel, MmapLabel, RequestLabel,
         HoldingLabel, FaultThread, Migrator, From
<1>4. LocalInv'
  BY <1>3, OthersOK DEF RequestDone, Goto, TypeOK, FaultThread, Migrator
<1> QED
  BY <1>2, <1>4

-----------------------------------------------------------------------------
(* Type correctness: the critical sections.                                 *)

\* A thread in a critical section has an update left.
LEMMA CountingUpdates ==
  ASSUME TypeOK, LocalInv, NEW t \in App \cup {Migrator}, pc[t] = "count"
  PROVE  /\ upd[t] \in Seq(UpdateRecord) /\ upd[t] # <<>>
         /\ Head(upd[t]) \in UpdateRecord /\ Head(upd[t]) = upd[t][1]
         /\ Tail(upd[t]) \in Seq(UpdateRecord)
<1>1. upd[t] \in Seq(UpdateRecord)
  BY DEF TypeOK, Thread
<1>2. upd[t] # <<>>
  <2>1. CASE t \in App
    <3>1. AppOK(t)
      BY <2>1 DEF LocalInv
    <3>2. \/ upd[t] = <<[counter |-> call[t].to, delta |-> 1],
                       [counter |-> From(t), delta |-> -1]>>
          \/ upd[t] = <<[counter |-> From(t), delta |-> -1]>>
          \/ Len(upd[t]) \in 1 .. 2
      BY <3>1 DEF AppOK
    <3>3. Len(upd[t]) \in 1 .. 2
      BY <3>2
    <3> QED
      BY <1>1, <3>3
  <2>2. CASE t = Migrator
    <3>1. Len(upd[t]) \in 1 .. 4
      BY <2>2 DEF LocalInv, MigratorOK
    <3>2. Len(upd[t]) # 0
      BY <3>1
    <3> QED
      BY <3>2
  <2> QED
    BY <2>1, <2>2
<1> QED
  BY <1>1, <1>2, HeadTailProperties

\* LoadCounter keeps every variable in its type and every thread in its own code.
LEMMA LoadCounterLocal ==
  ASSUME TypeOK, LocalInv, NEW t \in App \cup {Migrator}, LoadCounter(t)
  PROVE  TypeOK' /\ LocalInv'
<1> USE ThreadsAssumption DEF Thread
<1>1. /\ pc[t] = "count"
      /\ lock' = [lock EXCEPT ![CounterLock(t)] = t]
      /\ reg' = [reg EXCEPT ![t] = <<num[Head(upd[t]).counter]>>]
      /\ UNCHANGED <<list, num, pg, hashed, vm, pc, call, cur, upd, batch, panic>>
  BY DEF LoadCounter
<1>2. Head(upd[t]) \in UpdateRecord
  BY <1>1, CountingUpdates
<1>3. num[Head(upd[t]).counter] \in Int
  BY <1>2 DEF TypeOK, UpdateRecord
<1>4. reg' \in [Thread -> Seq(Int)]
  BY <1>1, <1>3 DEF TypeOK
<1>5. lock' \in [{"pages_lock", "stats_lock"} -> Thread \cup {NoThread}]
  BY <1>1 DEF TypeOK
<1>6. TypeOK'
  BY <1>1, <1>4, <1>5 DEF TypeOK
<1>7. LocalInv'
  BY <1>1 DEF LocalInv, AppOK, FaultOK, MigratorOK, From
<1> QED
  BY <1>6, <1>7

\* StoreCounter keeps every variable in its type and every thread in its own code.
LEMMA StoreCounterLocal ==
  ASSUME TypeOK, LocalInv, NEW t \in App \cup {Migrator}, StoreCounter(t)
  PROVE  TypeOK' /\ LocalInv'
<1> USE ThreadsAssumption DEF Thread
<1> DEFINE head == Head(upd[t])
<1>1. /\ pc[t] = "count" /\ reg[t] # <<>>
      /\ num' = [num EXCEPT ![head.counter] = reg[t][1] + head.delta]
      /\ reg' = [reg EXCEPT ![t] = <<>>]
      /\ upd' = [upd EXCEPT ![t] = Tail(upd[t])]
      /\ UNCHANGED <<list, pg, hashed, vm, call, cur, panic>>
  BY DEF StoreCounter, NoReg
<1>2. head \in UpdateRecord /\ upd[t] \in Seq(UpdateRecord) /\ upd[t] # <<>>
      /\ Tail(upd[t]) \in Seq(UpdateRecord)
  BY <1>1, CountingUpdates
<1> HIDE DEF head
<1>3. num' \in [List -> Int]
  <2>1. reg[t] \in Seq(Int) /\ reg[t][1] \in Int
    BY <1>1 DEF TypeOK
  <2>2. reg[t][1] + head.delta \in Int
    BY <1>2, <2>1 DEF UpdateRecord
  <2> QED
    BY <1>1, <2>2 DEF TypeOK
<1>4. upd' \in [Thread -> Seq(UpdateRecord)] /\ reg' \in [Thread -> Seq(Int)]
  BY <1>1, <1>2 DEF TypeOK
<1>5. CASE Len(upd[t]) # 1
  <2>1. UNCHANGED <<lock, pc, batch>>
    BY <1>5 DEF StoreCounter
  <2>2. TypeOK'
    BY <1>1, <1>3, <1>4, <2>1 DEF TypeOK
  <2>3. upd'[t] = Tail(upd[t])
    BY <1>1 DEF TypeOK
  <2>4. Len(upd'[t]) = Len(upd[t]) - 1 /\ \A i \in 1 .. Len(upd'[t]) : upd'[t][i] = upd[t][i + 1]
    BY <1>2, <2>3
  <2>5. t \in App => AppOK(t)'
    <3>1. SUFFICES ASSUME t \in App PROVE AppOK(t)'
      OBVIOUS
    <3>2. AppOK(t)
      BY <3>1 DEF LocalInv
    <3>3. CASE call[t].op = "request"
      <4>1. upd[t] = <<[counter |-> call[t].to, delta |-> 1],
                       [counter |-> From(t), delta |-> -1]>>
        <5>1. \/ upd[t] = <<[counter |-> call[t].to, delta |-> 1],
                           [counter |-> From(t), delta |-> -1]>>
              \/ upd[t] = <<[counter |-> From(t), delta |-> -1]>>
          BY <1>1, <3>2, <3>3 DEF AppOK
        <5>2. upd[t] = <<[counter |-> From(t), delta |-> -1]>> => Len(upd[t]) = 1
          OBVIOUS
        <5> QED
          BY <1>5, <5>1, <5>2
      <4>2. upd'[t] = <<[counter |-> From(t), delta |-> -1]>>
        BY <2>3, <4>1
      <4> QED
        BY <1>1, <2>1, <3>2, <3>3, <4>2
        DEF AppOK, From, MmapLabel, RequestLabel, HoldingLabel
    <3>4. CASE call[t].op # "request"
      <4>1. /\ Len(upd[t]) \in 1 .. 2
            /\ \A i \in 1 .. Len(upd[t]) : upd[t][i].counter \notin ToList
        BY <1>1, <3>2, <3>4 DEF AppOK
      <4>2. /\ Len(upd'[t]) = 1
            /\ \A i \in 1 .. Len(upd'[t]) : upd'[t][i].counter \notin ToList
        BY <1>5, <2>4, <4>1
      <4> QED
        BY <1>1, <2>1, <3>2, <3>4, <4>2 DEF AppOK, MmapLabel, RequestLabel, HoldingLabel
    <3> QED
      BY <3>3, <3>4
  <2>6. t = Migrator => MigratorOK'
    <3>1. SUFFICES ASSUME t = Migrator PROVE MigratorOK'
      OBVIOUS
    <3>2. /\ Len(batch.page) = batch.want
          /\ Len(upd[t]) \in 1 .. 4
          /\ \A i \in 1 .. Len(upd[t]) - 1 : upd[t][i].counter \notin ToList
          /\ upd[t][Len(upd[t])] = [counter |-> batch.to, delta |-> -batch.want]
      BY <1>1, <3>1 DEF LocalInv, MigratorOK
    <3>3. /\ Len(upd'[t]) \in 1 .. 4
          /\ \A i \in 1 .. Len(upd'[t]) - 1 : upd'[t][i].counter \notin ToList
          /\ upd'[t][Len(upd'[t])] = [counter |-> batch.to, delta |-> -batch.want]
      <4>1. Len(upd[t]) \in 2 .. 4 /\ Len(upd'[t]) = Len(upd[t]) - 1
        BY <1>5, <2>4, <3>2
      <4>2. upd'[t][Len(upd'[t])] = upd[t][Len(upd[t])]
        <5> DEFINE m == Len(upd'[t])
        <5>1. m \in 1 .. m /\ m + 1 = Len(upd[t])
          BY <4>1
        <5>2. upd'[t][m] = upd[t][m + 1]
          BY <2>4, <5>1
        <5> QED
          BY <5>1, <5>2
      <4>3. ASSUME NEW i \in 1 .. Len(upd'[t]) - 1 PROVE upd'[t][i].counter \notin ToList
        <5>1. i \in 1 .. Len(upd'[t]) /\ i + 1 \in 1 .. Len(upd[t]) - 1
          BY <4>1
        <5> QED
          BY <2>4, <3>2, <5>1
      <4> QED
        BY <3>2, <4>1, <4>2, <4>3
    <3> QED
      BY <1>1, <2>1, <3>1, <3>2, <3>3 DEF MigratorOK, MigratorLabel
  <2>7. LocalInv'
    BY <1>1, <2>1, <2>5, <2>6, OthersOK DEF TypeOK, FaultThread, Migrator
  <2> QED
    BY <2>2, <2>7
<1>6. CASE Len(upd[t]) = 1
  <2>1. /\ lock' = [lock EXCEPT ![CounterLock(t)] = NoThread]
        /\ pc' = [pc EXCEPT ![t] = AfterCounting(t)]
        /\ batch' = IF t = Migrator THEN EmptyBatch(batch.to) ELSE batch
    BY <1>6 DEF StoreCounter, Unlock, Goto
  <2>2. batch' \in BatchRecord
    BY <2>1, EmptyType DEF TypeOK, BatchRecord
  <2>3. AfterCounting(t) \in Label
    BY DEF AfterCounting, Label
  <2>4. TypeOK'
    BY <1>1, <1>3, <1>4, <2>1, <2>2, <2>3 DEF TypeOK
  <2>5. pc'[t] = AfterCounting(t)
    BY <2>1 DEF TypeOK
  <2>6. t \in App => AppOK(t)'
    BY <1>1, <2>5
    DEF AfterCounting, LocalInv, AppOK, AppLabel, MmapLabel, RequestLabel, HoldingLabel, Migrator
  <2>7. t = Migrator => MigratorOK'
    <3>1. SUFFICES ASSUME t = Migrator PROVE MigratorOK'
      OBVIOUS
    <3>2. pc'[Migrator] = "scan" /\ batch' = EmptyBatch(batch.to)
      BY <2>1, <2>5, <3>1 DEF AfterCounting
    <3>3. batch' = EmptyBatch(batch'.to)
      BY <3>2 DEF EmptyBatch
    <3> QED
      BY <3>2, <3>3 DEF MigratorOK, MigratorLabel
  <2>8. t \in App => batch' = batch
    BY <2>1
  <2>9. LocalInv'
    BY <1>1, <2>1, <2>6, <2>7, OthersOK DEF TypeOK, FaultThread, Migrator
  <2> QED
    BY <2>4, <2>9
<1> QED
  BY <1>5, <1>6

-----------------------------------------------------------------------------
(* Type correctness: the migration thread.                                  *)

\* Scan keeps every variable in its type and every thread in its own code.
LEMMA ScanLocal ==
  ASSUME TypeOK, LocalInv, Scan
  PROVE  TypeOK' /\ LocalInv'
<1> USE ThreadsAssumption DEF Thread
<1>1. pc[Migrator] = "scan" /\ batch = EmptyBatch(batch.to) /\ batch.to \in ToList
  BY DEF Scan, LocalInv, MigratorOK, TypeOK, BatchRecord
<1>2. UNCHANGED <<list, num, pg, hashed, vm, lock, call, cur, upd, reg, panic>>
  BY DEF Scan
<1>3. CASE num[batch.to] = 0
  <2>1. batch' = EmptyBatch(NextLoop(batch.to)) /\ pc' = pc
    BY <1>3 DEF Scan
  <2>2. TypeOK'
    BY <1>1, <1>2, <2>1, EmptyType DEF TypeOK
  <2>3. MigratorOK'
    <3>1. batch'.to = NextLoop(batch.to)
      BY <2>1 DEF EmptyBatch
    <3>2. batch' = EmptyBatch(batch'.to)
      BY <2>1, <3>1
    <3> QED
      BY <1>1, <2>1, <3>2 DEF MigratorOK, MigratorLabel
  <2>4. LocalInv'
    BY <1>2, <2>1, <2>3, OthersOK DEF FaultThread, Migrator
  <2> QED
    BY <2>2, <2>4
<1>4. CASE num[batch.to] # 0
  <2> DEFINE want == AsUnsignedMin(num[batch.to], NUM_BATCHS)
  <2>1. batch' = [batch EXCEPT !.want = want] /\ pc' = [pc EXCEPT ![Migrator] = "take_page"]
    BY <1>4 DEF Scan, Goto
  <2>2. want \in 1 .. NUM_BATCHS
    BY <1>1, <1>4, SizesAssumption, ListNames DEF AsUnsignedMin, TypeOK
  <2> HIDE DEF want
  <2>3. batch' \in BatchRecord
    <3>1. batch \in BatchRecord /\ want \in 0 .. NUM_BATCHS
      BY <2>2, SizesAssumption DEF TypeOK
    <3> QED
      BY <2>1, <3>1, BatchFields
  <2>4. TypeOK'
    BY <1>2, <2>1, <2>3 DEF TypeOK, Label
  <2>5. /\ batch'.want = want /\ batch'.i = 1
        /\ batch'.page = <<>> /\ batch'.next = <<>> /\ batch'.offset = <<>>
    BY <1>1, <2>1 DEF EmptyBatch
  <2>6. pc'[Migrator] = "take_page"
    BY <2>1 DEF TypeOK
  <2>7. MigratorOK'
    BY <2>2, <2>5, <2>6 DEF MigratorOK, MigratorLabel
  <2>8. LocalInv'
    BY <1>2, <2>1, <2>7, MigratorOthersOK
  <2> QED
    BY <2>4, <2>8
<1> QED
  BY <1>3, <1>4

\* TakePage keeps every variable in its type and every thread in its own code.
LEMMA TakePageLocal ==
  ASSUME TypeOK, LocalInv, TakePage
  PROVE  TypeOK' /\ LocalInv'
<1> USE ThreadsAssumption DEF Thread
<1>1. CASE \E why \in Cause : Panic(why)
  BY <1>1, PanicLocal
<1>2. CASE ~\E why \in Cause : Panic(why)
  <2> DEFINE queue == list[batch.to]
  <2>1. /\ queue # <<>>
        /\ Dequeue(batch.to)
        /\ batch' = [batch EXCEPT !.page = Append(@, Head(queue))]
        /\ pc' = [pc EXCEPT ![Migrator] = "take_next"]
        /\ UNCHANGED <<num, pg, hashed, vm, lock, call, cur, upd, reg, panic>>
    BY <1>2 DEF TakePage, Cause, Goto
  <2>2. batch \in BatchRecord /\ batch.to \in List /\ batch.page \in Seq(Page)
        /\ batch.want \in Nat
    BY SizesAssumption, ListNames DEF TypeOK, BatchRecord
  <2>3. Head(queue) \in Page /\ list' \in [List -> Seq(Page)]
    BY <2>1, <2>2, DequeueType
  <2> HIDE DEF queue
  <2>4. Append(batch.page, Head(queue)) \in Seq(Page)
        /\ Len(Append(batch.page, Head(queue))) = Len(batch.page) + 1
    BY <2>2, <2>3
  <2>5. batch' \in BatchRecord
    BY <2>1, <2>2, <2>4, SizesAssumption, BatchFields
  <2>6. TypeOK'
    BY <2>1, <2>3, <2>5 DEF TypeOK, Label
  <2>7. /\ batch'.page = Append(batch.page, Head(queue)) /\ batch'.next = batch.next
        /\ batch'.offset = batch.offset /\ batch'.i = batch.i /\ batch'.want = batch.want
    BY <2>1, <2>2 DEF BatchRecord
  <2>8. /\ Len(batch.page) < batch.want /\ batch.i = 1
        /\ Len(batch.next) = Len(batch.page) /\ Len(batch.offset) = Len(batch.page)
    BY DEF TakePage, LocalInv, MigratorOK
  <2>9. pc'[Migrator] = "take_next"
    BY <2>1 DEF TypeOK
  <2>10. /\ Len(batch.page) \in Nat
         /\ Len(batch'.page) = Len(batch.page) + 1 /\ batch'.i = 1
         /\ Len(batch'.next) = Len(batch.page) /\ Len(batch'.offset) = Len(batch.page)
    BY <2>2, <2>4, <2>7, <2>8
  <2>11. MigratorOK'
    BY <2>2, <2>7, <2>8, <2>9, <2>10 DEF MigratorOK, MigratorLabel
  <2>12. LocalInv'
    BY <2>1, <2>11, MigratorOthersOK
  <2> QED
    BY <2>6, <2>12
<1> QED
  BY <1>1, <1>2

\* TakeNext keeps every variable in its type and every thread in its own code.
LEMMA TakeNextLocal ==
  ASSUME TypeOK, LocalInv, TakeNext
  PROVE  TypeOK' /\ LocalInv'
<1> USE ThreadsAssumption DEF Thread
<1>1. CASE \E why \in Cause : Panic(why)
  BY <1>1, PanicLocal
<1>2. CASE ~\E why \in Cause : Panic(why)
  <2> DEFINE free  == FreeList(Target(batch.to))
             n     == Head(list[free])
             label == IF Len(batch.page) < batch.want THEN "take_page" ELSE "protect"
  <2>1. /\ list[free] # <<>>
        /\ Dequeue(free)
        /\ batch' = [batch EXCEPT !.next = Append(@, n),
                                  !.offset = Append(@, pg[n].devdax_offset)]
        /\ pc' = [pc EXCEPT ![Migrator] = label]
        /\ UNCHANGED <<num, pg, hashed, vm, lock, call, cur, upd, reg, panic>>
    BY <1>2 DEF TakeNext, Cause, Goto
  <2>2. /\ batch \in BatchRecord /\ batch.next \in Seq(Page) /\ batch.offset \in Seq(Nat)
        /\ batch.page \in Seq(Page) /\ batch.want \in Nat
    BY SizesAssumption DEF TypeOK, BatchRecord
  <2>3. n \in Page /\ list' \in [List -> Seq(Page)]
    BY <2>1, ListNames, DequeueType
  <2>4. pg[n].devdax_offset \in Nat
    BY <2>3 DEF TypeOK, PageRecord
  <2> HIDE DEF free, n
  <2>5. /\ Append(batch.next, n) \in Seq(Page)
        /\ Len(Append(batch.next, n)) = Len(batch.next) + 1
        /\ Append(batch.offset, pg[n].devdax_offset) \in Seq(Nat)
        /\ Len(Append(batch.offset, pg[n].devdax_offset)) = Len(batch.offset) + 1
    BY <2>2, <2>3, <2>4
  <2>6. batch' \in BatchRecord
    BY <2>1, <2>2, <2>5, SizesAssumption, BatchFields
  <2>7. TypeOK'
    BY <2>1, <2>3, <2>6 DEF TypeOK, Label
  <2>8. /\ batch'.next = Append(batch.next, n) /\ batch'.page = batch.page
        /\ batch'.offset = Append(batch.offset, pg[n].devdax_offset)
        /\ batch'.i = batch.i /\ batch'.want = batch.want
    BY <2>1, <2>2 DEF BatchRecord
  <2>9. /\ Len(batch.page) \in 1 .. batch.want /\ batch.i = 1
        /\ Len(batch.next) = Len(batch.page) - 1
        /\ Len(batch.offset) = Len(batch.page) - 1
    BY DEF TakeNext, LocalInv, MigratorOK
  <2>10. pc'[Migrator] = label
    BY <2>1 DEF TypeOK
  <2>11. /\ Len(batch.page) \in Nat /\ Len(batch'.page) = Len(batch.page)
         /\ Len(batch'.next) = Len(batch.page) /\ Len(batch'.offset) = Len(batch.page)
    BY <2>2, <2>5, <2>8, <2>9
  <2>12. MigratorOK'
    BY <2>2, <2>8, <2>9, <2>10, <2>11 DEF MigratorOK, MigratorLabel
  <2>13. LocalInv'
    BY <2>1, <2>12, MigratorOthersOK
  <2> QED
    BY <2>7, <2>13
<1> QED
  BY <1>1, <1>2

\* A turn of a loop over the batch.
LEMMA LoopOverOK ==
  ASSUME TypeOK, LocalInv,
         pc[Migrator] \in {"protect", "remap"},
         NEW again \in {"protect", "remap"}, NEW next \in {"copy", "restore"},
         LoopOver(again, next)
  PROVE  batch' \in BatchRecord /\ pc' \in [Thread -> Label] /\ MigratorOK'
<1> USE ThreadsAssumption DEF Thread
<1> DEFINE last == ~(batch.i < batch.want)
           turn == IF last THEN 1 ELSE batch.i + 1
<1>1. /\ Len(batch.page) = batch.want /\ batch.i \in 1 .. batch.want
      /\ Len(batch.next) = batch.want /\ Len(batch.offset) = batch.want
  BY DEF LocalInv, MigratorOK
<1>2. batch \in BatchRecord /\ batch.i \in Nat /\ batch.want \in Nat
  BY SizesAssumption DEF TypeOK, BatchRecord
<1>3. batch' = [batch EXCEPT !.i = turn]
  BY DEF LoopOver
<1>4. batch' \in BatchRecord
  <2>1. turn \in Nat
    BY <1>2
  <2> HIDE DEF turn
  <2> QED
    BY <1>2, <1>3, <2>1, BatchFields
<1>5. /\ batch'.i = turn
      /\ batch'.page = batch.page /\ batch'.next = batch.next
      /\ batch'.offset = batch.offset /\ batch'.want = batch.want
  BY <1>2, <1>3 DEF BatchRecord
<1>6. pc' \in [Thread -> Label] /\ pc'[Migrator] = IF last THEN next ELSE again
  BY DEF LoopOver, Goto, TypeOK, Label
<1>7. MigratorOK'
  BY <1>1, <1>2, <1>5, <1>6 DEF MigratorOK, MigratorLabel
<1> QED
  BY <1>4, <1>6, <1>7

\* Protect keeps every variable in its type and every thread in its own code.
LEMMA ProtectLocal ==
  ASSUME TypeOK, LocalInv, Protect
  PROVE  TypeOK' /\ LocalInv'
<1>1. CASE \E why \in Cause : Panic(why)
  BY <1>1, PanicLocal
<1>2. CASE ~\E why \in Cause : Panic(why)
  <2>1. /\ pc[Migrator] = "protect" /\ LoopOver("protect", "copy")
        /\ UNCHANGED <<list, num, pg, hashed, vm, lock, call, cur, upd, reg, panic>>
    BY <1>2 DEF Protect, Cause
  <2>2. batch' \in BatchRecord /\ pc' \in [Thread -> Label] /\ MigratorOK'
    BY <2>1, LoopOverOK
  <2>3. TypeOK'
    BY <2>1, <2>2 DEF TypeOK
  <2>4. LocalInv'
    BY <2>1, <2>2, MigratorOthersOK DEF LoopOver, Goto
  <2> QED
    BY <2>3, <2>4
<1> QED
  BY <1>1, <1>2

\* Copy keeps every variable in its type and every thread in its own code.
LEMMA CopyLocal ==
  ASSUME TypeOK, LocalInv,
         Copy
  PROVE  TypeOK' /\ LocalInv'
<1> USE SizesAssumption, ThreadsAssumption DEF Thread
<1>1. CASE \E why \in Cause : Panic(why)
  BY <1>1, PanicLocal
<1>2. CASE ~\E why \in Cause : Panic(why)
  <2>1. pc' \in [Thread -> Label]
    BY <1>2 DEF TypeOK, Copy, Cause, Goto, Label
  <2>2. TypeOK'
    BY <1>2, <2>1 DEF TypeOK, Copy, Cause
  <2>3. MigratorOK'
    BY <1>2
    DEF LocalInv, MigratorOK, TypeOK, Copy, Cause, Goto, MigratorLabel, FaultThread,
        Migrator
  <2>4. LocalInv'
    BY <1>2, <2>3, OthersOK DEF Copy, Cause, Goto, TypeOK, FaultThread, Migrator
  <2> QED
    BY <2>2, <2>4
<1> QED
  BY <1>1, <1>2

\* Remap keeps every variable in its type and every thread in its own code.
LEMMA RemapLocal ==
  ASSUME TypeOK, LocalInv, Remap
  PROVE  TypeOK' /\ LocalInv'
<1> DEFINE p   == batch.page[batch.i]
           off == batch.offset[batch.i]
           dst == Target(batch.to)
<1>1. /\ pc[Migrator] = "remap" /\ LoopOver("remap", "restore")
      /\ vm' = [vm EXCEPT ![pg[p].va] = <<dst, off>>]
      /\ pg' = [pg EXCEPT ![p].in_dram = (dst = "dram"), ![p].devdax_offset = off]
      /\ UNCHANGED <<list, num, hashed, lock, call, cur, upd, reg, panic>>
  BY DEF Remap
<1>2. batch' \in BatchRecord /\ pc' \in [Thread -> Label] /\ MigratorOK'
  BY <1>1, LoopOverOK
<1>3. p \in Page /\ off \in Nat /\ dst \in Tier
  BY <1>1, ListNames DEF LocalInv, MigratorOK, TypeOK, BatchRecord
<1> HIDE DEF p, off, dst
<1>4. vm' \in [VA -> Frame \cup {Unmapped, Reserved}]
  BY <1>1, <1>3 DEF TypeOK, Frame
<1>5. pg' \in [Page -> PageRecord]
  BY <1>1, <1>3, PageFields
<1>6. TypeOK'
  BY <1>1, <1>2, <1>4, <1>5 DEF TypeOK
<1>7. LocalInv'
  BY <1>1, <1>2, MigratorOthersOK DEF LoopOver, Goto
<1> QED
  BY <1>6, <1>7

\* Restore keeps every variable in its type and every thread in its own code.
LEMMA RestoreLocal ==
  ASSUME TypeOK, LocalInv, Restore
  PROVE  TypeOK' /\ LocalInv'
<1> USE ThreadsAssumption DEF Thread
<1> DEFINE n   == batch.next[batch.i]
           off == batch.offset[batch.i]
<1>1. /\ pc[Migrator] = "restore"
      /\ pc' = [pc EXCEPT ![Migrator] = "restore_next"]
      /\ pg' = [pg EXCEPT ![n].devdax_offset = off, ![n].present = FALSE,
                          ![n].in_dram = (FreedTier(batch.to) = "dram")]
      /\ Enqueue(MmapList(Target(batch.to)), batch.page[batch.i])
      /\ UNCHANGED <<num, hashed, vm, lock, call, cur, upd, reg, batch, panic>>
  BY DEF Restore, Goto
<1>2. n \in Page /\ off \in Nat /\ batch.page[batch.i] \in Page
  BY <1>1 DEF LocalInv, MigratorOK, TypeOK, BatchRecord
<1>3. list' \in [List -> Seq(Page)]
  BY <1>1, <1>2, ListNames, EnqueueType
<1> HIDE DEF n, off
<1>4. pg' \in [Page -> PageRecord]
  BY <1>1, <1>2, PageFields
<1>5. TypeOK'
  BY <1>1, <1>3, <1>4 DEF TypeOK, Label
<1>6. MigratorOK'
  BY <1>1 DEF LocalInv, MigratorOK, MigratorLabel, TypeOK
<1>7. LocalInv'
  BY <1>1, <1>6, MigratorOthersOK
<1> QED
  BY <1>5, <1>7

\* RestoreNext keeps every variable in its type and every thread in its own code.
LEMMA RestoreNextLocal ==
  ASSUME TypeOK, LocalInv, RestoreNext
  PROVE  TypeOK' /\ LocalInv'
<1> USE ThreadsAssumption DEF Thread
<1> DEFINE updates == MigrationUpdates(batch.to, batch.want)
<1>1. /\ pc[Migrator] = "restore_next"
      /\ Enqueue(FreeList(Source(batch.to)), batch.next[batch.i])
      /\ batch' = [batch EXCEPT !.i = batch.i + 1]
      /\ UNCHANGED <<num, pg, hashed, vm, lock, call, cur, reg, panic>>
  BY DEF RestoreNext
<1>2. /\ Len(batch.page) = batch.want /\ batch.i \in 1 .. batch.want
      /\ Len(batch.next) = batch.want /\ Len(batch.offset) = batch.want
  BY <1>1 DEF LocalInv, MigratorOK
<1>3. batch \in BatchRecord /\ batch.i \in Nat /\ batch.want \in Nat /\ batch.to \in ToList
  BY SizesAssumption DEF TypeOK, BatchRecord
<1>4. batch.next[batch.i] \in Page
  BY <1>2, <1>3 DEF BatchRecord
<1>5. list' \in [List -> Seq(Page)]
  BY <1>1, <1>4, ListNames, EnqueueType
<1>6. batch' \in BatchRecord
  <2>1. batch.i + 1 \in Nat
    BY <1>3
  <2> QED
    BY <1>1, <1>3, <2>1, BatchFields
<1>7. /\ batch'.i = batch.i + 1 /\ batch'.want = batch.want /\ batch'.to = batch.to
      /\ batch'.page = batch.page /\ batch'.next = batch.next /\ batch'.offset = batch.offset
  BY <1>1, <1>3 DEF BatchRecord
<1>8. CASE batch.i < batch.want
  <2>1. pc' = [pc EXCEPT ![Migrator] = "restore"] /\ upd' = upd
    BY <1>8 DEF RestoreNext, Goto
  <2>2. TypeOK'
    BY <1>1, <1>5, <1>6, <2>1 DEF TypeOK, Label
  <2>3. pc'[Migrator] = "restore"
    BY <2>1 DEF TypeOK
  <2>4. MigratorOK'
    BY <1>2, <1>3, <1>7, <1>8, <2>3 DEF MigratorOK, MigratorLabel
  <2>5. LocalInv'
    BY <1>1, <2>1, <2>4, MigratorOthersOK
  <2> QED
    BY <2>2, <2>5
<1>9. CASE ~(batch.i < batch.want)
  <2>1. pc' = [pc EXCEPT ![Migrator] = "count"] /\ upd' = [upd EXCEPT ![Migrator] = updates]
    BY <1>9 DEF RestoreNext, StartCounting, Goto
  <2>2. /\ updates \in Seq(UpdateRecord)
        /\ Len(updates) \in 2 .. 4
        /\ \A i \in 1 .. Len(updates) - 1 : updates[i].counter \notin ToList
        /\ updates[Len(updates)] = [counter |-> batch.to, delta |-> -batch.want]
    BY <1>3, MigrationUpdatesEnd
  <2> HIDE DEF updates
  <2>3. TypeOK'
    BY <1>1, <1>5, <1>6, <2>1, <2>2 DEF TypeOK, Label
  <2>4. pc'[Migrator] = "count" /\ upd'[Migrator] = updates
    BY <2>1 DEF TypeOK
  <2>5. /\ Len(upd'[Migrator]) \in 1 .. 4
        /\ \A i \in 1 .. Len(upd'[Migrator]) - 1 : upd'[Migrator][i].counter \notin ToList
        /\ upd'[Migrator][Len(upd'[Migrator])] = [counter |-> batch'.to, delta |-> -batch'.want]
    BY <1>7, <2>2, <2>4
  <2>6. MigratorOK'
    BY <1>2, <1>7, <2>4, <2>5 DEF MigratorOK, MigratorLabel
  <2>7. LocalInv'
    BY <1>1, <2>1, <2>6, MigratorOthersOK DEF TypeOK
  <2> QED
    BY <2>3, <2>7
<1> QED
  BY <1>8, <1>9

-----------------------------------------------------------------------------
(* Every step preserves the types; the theorem.                             *)

\* The allocation of a page, in an application thread or in the fault thread.
LEMMA AllocationLocal ==
  ASSUME TypeOK, LocalInv, NEW t \in App \cup {FaultThread}, Allocation(t)
  PROVE  TypeOK' /\ LocalInv'
<1>1. "dram" \in Tier /\ "nvm" \in Tier
  BY DEF Tier
<1> QED
  BY <1>1, AllocateLocal, PlaceLocal, MapLocal, PublishLocal, AddPageLocal DEF Allocation

\* Every step preserves the types and the local invariants.
LEMMA NextLocal ==
  ASSUME TypeOK, LocalInv, [Next]_vars
  PROVE  TypeOK' /\ LocalInv'
<1>1. ASSUME NEW t \in App, Calls(t) PROVE TypeOK' /\ LocalInv'
  <2>1. CASE \E lo, hi \in VA, populate \in BOOLEAN : Mmap(t, lo, hi, populate)
    BY <2>1, MmapLocal
  <2>2. CASE \E v \in VA : Touch(t, v)
    BY <2>2, TouchLocal
  <2>3. CASE \E lo, hi \in VA : Munmap(t, lo, hi)
    BY <2>3, MunmapLocal
  <2>4. CASE \E to \in Kinds, n \in 1 .. MaxPagesNum, random \in BOOLEAN :
               Request(t, to, n, random)
    <3>1. PICK to \in Kinds, n \in 1 .. MaxPagesNum, random \in BOOLEAN :
               Request(t, to, n, random)
      BY <2>4
    <3>2. to \in ToList /\ n \in Nat
      BY ClientAssumption, SizesAssumption
    <3> QED
      BY <3>1, <3>2, RequestLocal
  <2> QED
    BY <1>1, <2>1, <2>2, <2>3, <2>4 DEF Calls
<1>2. ASSUME NEW t \in App, AppStep(t) PROVE TypeOK' /\ LocalInv'
  BY <1>2, AllocationLocal, LoadCounterLocal, StoreCounterLocal, RemovePageLocal,
     UncountPageLocal, UnmapLocal, ChooseLocal, RotateLocal, RotateBackLocal, TakeLocal,
     QueueLocal, RequestDoneLocal
  DEF AppStep, Counting
<1>3. ASSUME FaultStep PROVE TypeOK' /\ LocalInv'
  BY <1>3, ReadFaultLocal, AllocationLocal, WakeLocal DEF FaultStep
<1>4. ASSUME MigratorStep PROVE TypeOK' /\ LocalInv'
  BY <1>4, ScanLocal, TakePageLocal, TakeNextLocal, ProtectLocal, CopyLocal, RemapLocal,
     RestoreLocal, RestoreNextLocal, LoadCounterLocal, StoreCounterLocal
  DEF MigratorStep, Counting
<1>5. CASE UNCHANGED vars
  BY <1>5 DEF vars, TypeOK, LocalInv, AppOK, FaultOK, MigratorOK, From
<1> QED
  BY <1>1, <1>2, <1>3, <1>4, <1>5 DEF Next

\* In every reachable state of the library, whatever the number of threads,
\* pages and addresses, every variable has its type: the lists hold pages, a
\* thread about to use a page pointer has one, and a batch fits its arrays.
THEOREM TypeCorrect == Spec => []TypeOK
<1>1. Init => TypeOK /\ LocalInv
  BY InitLocal
<1>2. TypeOK /\ LocalInv /\ [Next]_vars => (TypeOK /\ LocalInv)'
  BY NextLocal
<1> QED
  BY <1>1, <1>2, PTL DEF Spec

=============================================================================
