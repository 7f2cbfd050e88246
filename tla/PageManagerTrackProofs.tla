----------------------- MODULE PageManagerTrackProofs -----------------------
(***************************************************************************)
(* No virtual page is tracked twice: while a thread fills an address, no    *)
(* page in the table has it.  The reasons are that application threads do   *)
(* not work on overlapping regions, that the fault thread works only for a  *)
(* thread that waits for it, and that a tracked address is mapped.  Second  *)
(* part: what the table records of a page is what the kernel maps at its    *)
(* address, and without migrations no frame is mapped twice.                *)
(***************************************************************************)
EXTENDS PageManagerListProofs

-----------------------------------------------------------------------------
(* The inductive invariant.                                                 *)

\* The thread has a page for address call[t].va that is not in the table yet;
\* it is mapped there; the thread is looking for one, or has one.
Has(t)    == \/ pc[t] \in {"place", "map", "publish", "add"}
             \/ pc[t] = "count" /\ call[t].op = "mmap"
Backed(t) == Has(t) /\ pc[t] \notin {"place", "map"}
Fills(t)  == pc[t] \in {"alloc", "alloc_nvm"} \/ Has(t)

\* The thread is taking its region out of the table.
Unmaps(t) == \/ pc[t] \in {"munmap", "removed"}
             \/ pc[t] = "count" /\ call[t].op = "munmap"

Tracked(v) == \E p \in hashed : pg[p].va = v

\* What is left to fill is not tracked.
FillOK(t) == Fills(t) =>
  /\ call[t].va \in VA /\ call[t].hi \in VA
  /\ call[t].lo <= call[t].va /\ call[t].va <= call[t].hi
  /\ \A v \in call[t].va .. call[t].hi : ~Tracked(v)

HasOK(t) == Has(t) =>
  /\ cur[t] \in Page \ hashed
  /\ pc[t] # "place" => pg[cur[t]].present
  /\ Backed(t) => vm[call[t].va] \in Frame
  /\ pc[t] = "add" => pg[cur[t]].va = call[t].va

\* What has been taken out of the table is not tracked.
UnmapOK(t) == Unmaps(t) =>
  \A v \in call[t].lo .. call[t].hi : v < call[t].va => ~Tracked(v)

\* The page a thread waits for is not tracked before the thread is woken.
WaitOK(t) == pc[t] = "faulting" =>
  /\ call[t].op = "touch" /\ call[t].va = call[t].lo /\ call[t].hi = call[t].lo
  /\ call[t].lo \in VA
  /\ Tracked(call[t].lo) => pc[FaultThread] = "wake" /\ call[FaultThread].lo = call[t].lo

\* The fault thread works for a thread that waits.
ServeOK == pc[FaultThread] # "poll" =>
  /\ \E t \in App : pc[t] = "faulting" /\ call[t].lo = call[FaultThread].lo
  /\ pc[FaultThread] # "wake" => /\ call[FaultThread].va = call[FaultThread].lo
                                 /\ call[FaultThread].hi = call[FaultThread].lo

TableOK ==
  /\ \A p \in hashed : pg[p].present /\ pg[p].va \in VA /\ vm[pg[p].va] \in Frame
  /\ \A p, q \in hashed : pg[p].va = pg[q].va => p = q

HandsApart == \A t, u \in Caller : t # u /\ Has(t) /\ Has(u) => cur[t] # cur[u]

RegionsApart == \A t, u \in App, v \in VA :
  t # u /\ InRegion(v, t) /\ InRegion(v, u) => call[t].op = "touch" /\ call[u].op = "touch"

Track == /\ \A t \in Caller : FillOK(t) /\ HasOK(t)
         /\ \A t \in App : UnmapOK(t) /\ WaitOK(t)
         /\ ServeOK /\ TableOK /\ HandsApart /\ RegionsApart

TrackInv == (Running => Track) /\ panic # "page already tracked"

\* The invariants of the other modules.
Known == TypeOK /\ LocalInv /\ DeadOK /\ OwnInv /\ KindInv

-----------------------------------------------------------------------------
(* Steps in general.                                                         *)

Same(u) == pc'[u] = pc[u] /\ call'[u] = call[u] /\ cur'[u] = cur[u]

\* A thread without a part in all this.
Bystander(u) == \/ pc[u] = "idle"
                \/ pc[u] \in RequestLabel \cup {"count"} /\ call[u].op = "request"

\* Such a thread neither fills nor unmaps nor waits, and no address is in its region.
LEMMA NoPart ==
  ASSUME NEW u, Bystander(u)
  PROVE  /\ ~Fills(u) /\ ~Has(u) /\ ~Unmaps(u) /\ pc[u] # "faulting"
         /\ \A v : ~InRegion(v, u)
  BY DEF Bystander, Fills, Has, Unmaps, InRegion, RequestLabel

\* A page keeps its address, and stays present if it is.
Stable(p) == pg'[p].va = pg[p].va /\ (pg[p].present => pg'[p].present)

\* Addresses that the kernel maps for the library.
Used(v) == Tracked(v) \/ \E u \in Caller : Backed(u) /\ call[u].va = v

\* A used address is mapped to a frame.
LEMMA UsedIsMapped ==
  ASSUME Track, NEW v, Used(v)
  PROVE  vm[v] \in Frame
  BY DEF Track, Used, Tracked, TableOK, HasOK, Backed

\* The death of the process, unless it is by the table.
LEMMA PanicTrack ==
  ASSUME TrackInv, NEW why, why # "none", why # "page already tracked", Panic(why)
  PROVE  TrackInv'
  BY DEF TrackInv, Panic, Running

\* What a thread knows stays true if it does not move and nothing is tracked.
LEMMA Bystanding ==
  ASSUME Track, hashed' \subseteq hashed, \A p \in hashed : Stable(p),
         \A v \in VA : Used(v) => vm'[v] \in Frame,
         NEW u \in Caller, Same(u), Has(u) => Stable(cur[u])
  PROVE  /\ FillOK(u)' /\ HasOK(u)'
         /\ u \in App => UnmapOK(u)'
         /\ u \in App /\ Same(FaultThread) => WaitOK(u)'
         /\ Has(u)' = Has(u) /\ \A v : InRegion(v, u)' = InRegion(v, u)
<1>1. \A v : Tracked(v)' => Tracked(v)
  BY DEF Tracked, Stable
<1>2. /\ Has(u)' = Has(u) /\ Fills(u)' = Fills(u) /\ Backed(u)' = Backed(u)
      /\ Unmaps(u)' = Unmaps(u) /\ \A v : InRegion(v, u)' = InRegion(v, u)
  BY DEF Same, Has, Fills, Backed, Unmaps, InRegion
<1>3. FillOK(u)'
  BY <1>1, <1>2 DEF Track, FillOK, Same
<1>4. HasOK(u)'
  <2>1. Backed(u) => Used(call[u].va)
    BY DEF Used
  <2>2. Has(u) => call[u].va \in VA
    BY DEF Track, FillOK, Fills
  <2> QED
    BY <1>2, <2>1, <2>2 DEF Track, HasOK, Same, Stable, Backed
<1>5. u \in App => UnmapOK(u)'
  BY <1>1, <1>2 DEF Track, UnmapOK, Same
<1>6. u \in App /\ Same(FaultThread) => WaitOK(u)'
  BY <1>1 DEF Track, WaitOK, Same
<1> QED
  BY <1>2, <1>3, <1>4, <1>5, <1>6

\* A step of thread t, or of none of them, that tracks nothing new.
LEMMA StepTrack ==
  ASSUME Track, NEW t, hashed' \subseteq hashed, \A p \in hashed : Stable(p),
         \A v \in VA : Used(v) => vm'[v] \in Frame,
         \A u \in Caller \ {t} : Same(u) /\ (Has(u) => Stable(cur[u])),
         t \in Caller => FillOK(t)' /\ HasOK(t)',
         t \in App => UnmapOK(t)' /\ WaitOK(t)' /\ pc[t] # "faulting",
         t = FaultThread => ServeOK' /\ \A u \in App : WaitOK(u)',
         \A u \in Caller \ {t} : t \in Caller /\ Has(t)' /\ Has(u) => cur'[t] # cur[u],
         \A u \in App \ {t}, v \in VA :
           t \in App /\ InRegion(v, t)' /\ InRegion(v, u)
             => call'[t].op = "touch" /\ call[u].op = "touch"
  PROVE  Track'
<1> USE ThreadsAssumption DEF Caller
<1>1. ASSUME NEW u \in Caller \ {t}
      PROVE  /\ FillOK(u)' /\ HasOK(u)'
             /\ u \in App => UnmapOK(u)'
             /\ u \in App /\ Same(FaultThread) => WaitOK(u)'
             /\ Has(u)' = Has(u) /\ \A v : InRegion(v, u)' = InRegion(v, u)
  BY <1>1, Bystanding
<1>2. \A u \in Caller : FillOK(u)' /\ HasOK(u)'
  BY <1>1
<1>3. FaultThread # t => Same(FaultThread)
  OBVIOUS
<1>4. \A u \in App : UnmapOK(u)' /\ WaitOK(u)'
  BY <1>1, <1>3
<1>5. ServeOK'
  <2>1. CASE t = FaultThread
    BY <2>1
  <2>2. CASE t # FaultThread
    <3>1. \A u \in App : pc[u] = "faulting" => Same(u)
      OBVIOUS
    <3> QED
      BY <1>3, <2>2, <3>1 DEF Track, ServeOK, Same
  <2> QED
    BY <2>1, <2>2
<1>6. TableOK'
  <2>1. \A p \in hashed : Used(pg[p].va)
    BY DEF Used, Tracked
  <2> QED
    BY <2>1 DEF Track, TableOK, Stable
<1>7. HandsApart'
  <2>1. SUFFICES ASSUME NEW r \in Caller, NEW u \in Caller, r # u, Has(r)', Has(u)'
                 PROVE  cur'[r] # cur'[u]
    BY DEF HandsApart
  <2>2. CASE r # t /\ u # t
    BY <1>1, <2>1, <2>2 DEF Track, HandsApart, Same
  <2>3. CASE r = t
    BY <1>1, <2>1, <2>3 DEF Same
  <2>4. CASE u = t
    BY <1>1, <2>1, <2>4 DEF Same
  <2> QED
    BY <2>2, <2>3, <2>4
<1>8. RegionsApart'
  <2>1. SUFFICES ASSUME NEW r \in App, NEW u \in App, NEW v \in VA, r # u,
                        InRegion(v, r)', InRegion(v, u)'
                 PROVE  call'[r].op = "touch" /\ call'[u].op = "touch"
    BY DEF RegionsApart, VA
  <2>2. CASE r # t /\ u # t
    BY <1>1, <2>1, <2>2 DEF Track, RegionsApart, Same
  <2>3. CASE r = t
    BY <1>1, <2>1, <2>3 DEF Same
  <2>4. CASE u = t
    BY <1>1, <2>1, <2>4 DEF Same
  <2> QED
    BY <2>2, <2>3, <2>4
<1> QED
  BY <1>2, <1>4, <1>5, <1>6, <1>7, <1>8 DEF Track

-----------------------------------------------------------------------------
(* Regions.                                                                  *)

\* The calls in which a thread fills and unmaps.
LEMMA Parts ==
  ASSUME LocalInv
  PROVE  /\ \A t \in App : Fills(t) => call[t].op = "mmap" /\ pc[t] \notin {"idle", "faulting"}
         /\ \A t \in App : Unmaps(t) => call[t].op = "munmap" /\ pc[t] \notin {"idle", "faulting"}
         /\ Fills(FaultThread) => pc[FaultThread] \notin {"poll", "wake", "count"}
  BY DEF LocalInv, AppOK, FaultOK, FaultLabel, MmapLabel, Fills, Has, Unmaps

\* A thread that goes on with its call does not change its region.
LEMMA RegionKept ==
  ASSUME Track, NEW t \in App, pc[t] # "idle", call'[t].op = call[t].op,
         call'[t].lo = call[t].lo, call'[t].hi = call[t].hi
  PROVE  \A u \in App \ {t}, v \in VA :
           InRegion(v, t)' /\ InRegion(v, u) => call'[t].op = "touch" /\ call[u].op = "touch"
<1>1. \A v : InRegion(v, t)' => InRegion(v, t)
  BY DEF InRegion
<1> QED
  BY <1>1 DEF Track, RegionsApart

\* A thread fills no address of another thread's mmap or munmap.
LEMMA FillsAlone ==
  ASSUME TypeOK, LocalInv, Track, NEW t \in Caller, Fills(t), NEW u \in App, u # t,
         pc[u] # "idle", call[u].op \in {"mmap", "munmap"}
  PROVE  call[t].va \notin call[u].lo .. call[u].hi
<1> USE DEF Caller
<1>1. SUFFICES ASSUME call[t].va \in call[u].lo .. call[u].hi PROVE FALSE
  OBVIOUS
<1>2. call[t].va \in VA /\ InRegion(call[t].va, u)
  BY <1>1 DEF Track, FillOK, InRegion
<1>3. CASE t \in App
  <2>1. call[t].op = "mmap" /\ pc[t] # "idle"
    BY <1>3, Parts
  <2>2. call[t].va \in call[t].lo .. call[t].hi
    BY <1>2, <1>3 DEF Track, FillOK, VA, TypeOK, CallRecord, Thread
  <2>3. InRegion(call[t].va, t)
    BY <2>1, <2>2 DEF InRegion
  <2> QED
    BY <1>2, <1>3, <2>1, <2>3 DEF Track, RegionsApart
<1>4. CASE t = FaultThread
  <2>1. pc[t] \notin {"poll", "wake"}
    BY <1>4, Parts
  <2>2. PICK w \in App : pc[w] = "faulting" /\ call[w].lo = call[t].lo
    BY <1>4, <2>1 DEF Track, ServeOK
  <2>3. call[t].va = call[t].lo
    BY <1>4, <2>1 DEF Track, ServeOK
  <2>4. call[w].op = "touch" /\ call[w].hi = call[w].lo
    BY <2>2 DEF Track, WaitOK
  <2>5. InRegion(call[t].va, w)
    BY <1>2, <2>2, <2>3, <2>4 DEF InRegion, VA
  <2> QED
    BY <1>2, <2>4, <2>5 DEF Track, RegionsApart
<1> QED
  BY <1>3, <1>4

\* Nor does an application thread fill an address another one waits for.
LEMMA FillsNoFault ==
  ASSUME TypeOK, LocalInv, Track, NEW t \in App, Fills(t), NEW u \in App, pc[u] = "faulting"
  PROVE  call[t].va # call[u].lo
<1>1. call[u].op = "touch" /\ call[u].hi = call[u].lo /\ call[u].lo \in VA
  BY DEF Track, WaitOK
<1>2. call[t].op = "mmap" /\ pc[t] \notin {"idle", "faulting"}
  BY Parts
<1>3. call[t].va \in call[t].lo .. call[t].hi /\ call[t].va \in VA
  BY DEF Track, FillOK, VA, TypeOK, CallRecord, Thread, Caller
<1>4. InRegion(call[t].va, t) /\ InRegion(call[u].lo, u)
  BY <1>1, <1>2, <1>3 DEF InRegion, VA
<1> QED
  BY <1>1, <1>2, <1>3, <1>4 DEF Track, RegionsApart

\* While the fault thread works, the threads that wait, wait for what is not
\* tracked.
LEMMA Serving ==
  ASSUME Track, hashed' \subseteq hashed, \A p \in hashed : Stable(p),
         pc[FaultThread] \notin {"poll", "wake"}, pc'[FaultThread] # "wake",
         call'[FaultThread] = call[FaultThread], \A u \in App : Same(u)
  PROVE  ServeOK' /\ \A u \in App : WaitOK(u)'
<1>1. \A v : Tracked(v)' => Tracked(v)
  BY DEF Tracked, Stable
<1>2. ServeOK'
  <2>1. PICK w \in App : pc[w] = "faulting" /\ call[w].lo = call[FaultThread].lo
    BY DEF Track, ServeOK
  <2>2. pc'[w] = "faulting" /\ call'[w].lo = call'[FaultThread].lo
    BY <2>1 DEF Same
  <2> QED
    BY <2>2 DEF Track, ServeOK
<1>3. \A u \in App : WaitOK(u)'
  BY <1>1 DEF Track, WaitOK, Same
<1> QED
  BY <1>2, <1>3

\* A step of a thread that goes on filling the same address.
LEMMA FillStep ==
  ASSUME TypeOK, LocalInv, Track, NEW t \in Caller, Fills(t), Fills(t)',
         hashed' = hashed, call' = call, \A p \in hashed : Stable(p),
         \A v \in VA : Used(v) => vm'[v] \in Frame,
         \A u \in Caller \ {t} : pc'[u] = pc[u] /\ cur'[u] = cur[u]
                                 /\ (Has(u) => Stable(cur[u])),
         t = FaultThread => pc'[t] \notin {"count", "wake"},
         HasOK(t)', \A u \in Caller \ {t} : Has(t)' /\ Has(u) => cur'[t] # cur[u]
  PROVE  Track'
<1> USE ThreadsAssumption
<1>1. \A u \in Caller \ {t} : Same(u)
  BY DEF Same
<1>2. \A v : Tracked(v)' => Tracked(v)
  BY DEF Tracked, Stable
<1>3. FillOK(t)'
  BY <1>2 DEF Track, FillOK
<1>4. CASE t \in App
  <2>1. pc[t] \notin {"idle", "faulting"} /\ call[t].op = "mmap"
    BY <1>4, Parts
  <2>2. UnmapOK(t)' /\ WaitOK(t)'
    BY <2>1 DEF UnmapOK, WaitOK, Unmaps, Fills, Has
  <2>3. \A u \in App \ {t}, v \in VA :
          InRegion(v, t)' /\ InRegion(v, u) => call'[t].op = "touch" /\ call[u].op = "touch"
    BY <1>4, <2>1, RegionKept
  <2> QED
    BY <1>1, <1>3, <1>4, <2>1, <2>2, <2>3, StepTrack
<1>5. CASE t = FaultThread
  <2>1. pc[t] \notin {"poll", "wake"}
    BY <1>5, Parts
  <2>2. \A u \in App : Same(u)
    BY <1>1, <1>5 DEF Caller
  <2>3. ServeOK' /\ \A u \in App : WaitOK(u)'
    BY <1>5, <2>1, <2>2, Serving
  <2> QED
    BY <1>1, <1>3, <1>5, <2>3, StepTrack DEF Caller
<1> QED
  BY <1>4, <1>5 DEF Caller

\* A step of a request, or of a thread that starts or ends one.
LEMMA BystanderTrack ==
  ASSUME Track, NEW t \in App, Bystander(t), Bystander(t)', UNCHANGED <<hashed, pg, vm>>,
         \A u \in Caller \ {t} : Same(u)
  PROVE  Track'
<1> USE ThreadsAssumption
<1>1. /\ ~Fills(t)' /\ ~Has(t)' /\ ~Unmaps(t)' /\ pc'[t] # "faulting"
      /\ \A v : ~InRegion(v, t)'
  BY DEF Bystander, Fills, Has, Unmaps, InRegion, RequestLabel
<1>2. FillOK(t)' /\ HasOK(t)' /\ UnmapOK(t)' /\ WaitOK(t)'
  BY <1>1 DEF FillOK, HasOK, UnmapOK, WaitOK
<1>3. \A p : Stable(p)
  BY DEF Stable
<1>4. \A v \in VA : Used(v) => vm'[v] \in Frame
  BY UsedIsMapped
<1>5. pc[t] # "faulting" /\ t # FaultThread
  BY NoPart
<1> QED
  BY <1>1, <1>2, <1>3, <1>4, <1>5, StepTrack

\* A step of a thread that goes on unmapping its region.
LEMMA UnmapStep ==
  ASSUME Track, NEW t \in App, Unmaps(t), Unmaps(t)', LocalInv,
         hashed' \subseteq hashed, UNCHANGED <<pg, vm>>,
         call'[t].op = call[t].op, call'[t].lo = call[t].lo, call'[t].hi = call[t].hi,
         UnmapOK(t)', \A u \in Caller \ {t} : Same(u)
  PROVE  Track'
<1> USE ThreadsAssumption
<1>1. call[t].op = "munmap" /\ pc[t] \notin {"idle", "faulting"}
  BY Parts
<1>2. ~Fills(t)' /\ ~Has(t)' /\ pc'[t] # "faulting"
  BY <1>1 DEF Fills, Has, Unmaps
<1>3. FillOK(t)' /\ HasOK(t)' /\ WaitOK(t)'
  BY <1>2 DEF FillOK, HasOK, WaitOK
<1>4. \A p : Stable(p)
  BY DEF Stable
<1>5. \A v \in VA : Used(v) => vm'[v] \in Frame
  BY UsedIsMapped
<1>6. \A u \in App \ {t}, v \in VA :
        InRegion(v, t)' /\ InRegion(v, u) => call'[t].op = "touch" /\ call[u].op = "touch"
  BY <1>1, RegionKept
<1> QED
  BY <1>1, <1>2, <1>3, <1>4, <1>5, <1>6, StepTrack

\* A step of the migration thread, or of none that is concerned.
LEMMA MigratorTrack ==
  ASSUME Track, hashed' = hashed, \A p \in Page : Stable(p),
         TypeOK, \A v \in VA : vm[v] \in Frame => vm'[v] \in Frame,
         \A u \in Caller : Same(u)
  PROVE  Track'
<1> USE ThreadsAssumption DEF Caller
<1>1. \A v \in VA : Used(v) => vm'[v] \in Frame
  BY UsedIsMapped
<1>2. \A u \in Caller : Has(u) => cur[u] \in Page
  BY DEF Track, HasOK
<1>3. hashed \subseteq Page /\ Migrator \notin Caller
  BY DEF TypeOK, FaultThread, Migrator
<1> QED
  BY <1>1, <1>2, <1>3, StepTrack

-----------------------------------------------------------------------------
(* The calls of the application.                                             *)

\* While a thread moves, the process runs.
LEMMA Living ==
  ASSUME Known, TrackInv, NEW t \in Thread, pc[t] # "dead"
  PROVE  Running /\ Track
  BY Alive DEF Known, TrackInv

\* The marks for pages that are not mapped are no frames.
LEMMA MarksApart == Unmapped \notin Frame /\ Reserved \notin Frame
  BY DEF Unmapped, Reserved, Frame, Tier

\* Mmap: the region is of no other thread, and none of it was mapped.
LEMMA MmapTrack ==
  ASSUME Known, TrackInv, NEW t \in App, NEW lo \in VA, NEW hi \in VA, NEW populate,
         lo <= hi, Mmap(t, lo, hi, populate)
  PROVE  TrackInv'
<1> USE ThreadsAssumption DEF Caller, Thread, Known
<1> DEFINE label == IF populate THEN "alloc" ELSE "idle"
<1>1. /\ pc[t] = "idle" /\ pc' = [pc EXCEPT ![t] = label]
      /\ call' = [call EXCEPT ![t] = RegionCall("mmap", lo, hi)]
      /\ UNCHANGED <<pg, hashed, cur, panic>>
      /\ vm' = [v \in VA |-> IF v \in lo .. hi THEN Reserved ELSE vm[v]]
      /\ \A v \in lo .. hi : vm[v] = Unmapped /\ \A u \in App : ~InRegion(v, u)
  BY DEF Mmap, Goto
<1>2. Track
  BY <1>1, Living
<1>3. /\ pc'[t] = label /\ call'[t].op = "mmap" /\ call'[t].lo = lo /\ call'[t].hi = hi
      /\ call'[t].va = lo
  BY <1>1 DEF TypeOK, RegionCall
<1>4. \A u \in Caller \ {t} : Same(u)
  BY <1>1 DEF Same, TypeOK
<1>5. \A v \in lo .. hi : v \in VA /\ ~Used(v)
  <2>1. \A v \in lo .. hi : v \in VA
    BY SizesAssumption DEF VA
  <2> QED
    BY <1>1, <1>2, <2>1, UsedIsMapped, MarksApart
<1>6. \A v \in VA : Used(v) => vm'[v] \in Frame
  BY <1>1, <1>2, <1>5, UsedIsMapped
<1>7. (\A p : Stable(p)) /\ \A v : Tracked(v)' <=> Tracked(v)
  BY <1>1 DEF Stable, Tracked
<1>8. FillOK(t)' /\ HasOK(t)' /\ UnmapOK(t)' /\ WaitOK(t)'
  <2>1. ~Has(t)' /\ ~Unmaps(t)' /\ pc'[t] # "faulting"
    BY <1>3 DEF Has, Unmaps
  <2>2. FillOK(t)'
    BY <1>3, <1>5, <1>7 DEF FillOK, VA, Used
  <2> QED
    BY <2>1, <2>2 DEF HasOK, UnmapOK, WaitOK
<1>9. \A u \in App \ {t}, v \in VA : InRegion(v, t)' => ~InRegion(v, u)
  BY <1>1, <1>3 DEF InRegion
<1>10. ~Has(t)' /\ t # FaultThread
  BY <1>3 DEF Has
<1>11. Track'
  BY <1>1, <1>2, <1>4, <1>6, <1>7, <1>8, <1>9, <1>10, StepTrack
<1> QED
  BY <1>1, <1>11 DEF TrackInv

\* Touch: what is reserved is not tracked.
LEMMA TouchTrack ==
  ASSUME Known, TrackInv, NEW t \in App, NEW v \in VA, Touch(t, v)
  PROVE  TrackInv'
<1> USE ThreadsAssumption DEF Caller, Thread, Known
<1>1. /\ pc[t] = "idle" /\ pc' = [pc EXCEPT ![t] = "faulting"]
      /\ call' = [call EXCEPT ![t] = RegionCall("touch", v, v)]
      /\ UNCHANGED <<pg, hashed, cur, panic, vm>>
      /\ vm[v] = Reserved /\ \A u \in App : InRegion(v, u) => call[u].op = "touch"
  BY DEF Touch, Goto
<1>2. Track
  BY <1>1, Living
<1>3. /\ pc'[t] = "faulting" /\ call'[t].op = "touch" /\ call'[t].lo = v
      /\ call'[t].hi = v /\ call'[t].va = v
  BY <1>1 DEF TypeOK, RegionCall
<1>4. \A u \in Caller \ {t} : Same(u)
  BY <1>1 DEF Same, TypeOK
<1>5. ~Used(v)
  BY <1>1, <1>2, UsedIsMapped, MarksApart
<1>6. \A w \in VA : Used(w) => vm'[w] \in Frame
  BY <1>1, <1>2, UsedIsMapped
<1>7. (\A p : Stable(p)) /\ \A w : Tracked(w)' <=> Tracked(w)
  BY <1>1 DEF Stable, Tracked
<1>8. FillOK(t)' /\ HasOK(t)' /\ UnmapOK(t)' /\ WaitOK(t)'
  <2>1. ~Has(t)' /\ ~Fills(t)' /\ ~Unmaps(t)'
    BY <1>3 DEF Has, Unmaps, Fills
  <2>2. WaitOK(t)'
    BY <1>3, <1>5, <1>7 DEF WaitOK, Used
  <2> QED
    BY <2>1, <2>2 DEF HasOK, UnmapOK, FillOK
<1>9. \A u \in App \ {t}, w \in VA :
        InRegion(w, t)' /\ InRegion(w, u) => call'[t].op = "touch" /\ call[u].op = "touch"
  BY <1>1, <1>3 DEF InRegion, VA
<1>10. ~Has(t)' /\ t # FaultThread
  BY <1>3 DEF Has
<1>11. Track'
  BY <1>1, <1>2, <1>4, <1>6, <1>7, <1>8, <1>9, <1>10, StepTrack
<1> QED
  BY <1>1, <1>11 DEF TrackInv

\* Munmap: the region is of no other thread.
LEMMA MunmapTrack ==
  ASSUME Known, TrackInv, NEW t \in App, NEW lo \in VA, NEW hi \in VA, Munmap(t, lo, hi)
  PROVE  TrackInv'
<1> USE ThreadsAssumption DEF Caller, Thread, Known
<1>1. /\ pc[t] = "idle" /\ pc' = [pc EXCEPT ![t] = "munmap"]
      /\ call' = [call EXCEPT ![t] = RegionCall("munmap", lo, hi)]
      /\ UNCHANGED <<pg, hashed, cur, panic, vm>>
      /\ \A v \in lo .. hi : \A u \in App : ~InRegion(v, u)
  BY DEF Munmap, Goto
<1>2. Track
  BY <1>1, Living
<1>3. /\ pc'[t] = "munmap" /\ call'[t].op = "munmap" /\ call'[t].lo = lo
      /\ call'[t].hi = hi /\ call'[t].va = lo
  BY <1>1 DEF TypeOK, RegionCall
<1>4. \A u \in Caller \ {t} : Same(u)
  BY <1>1 DEF Same, TypeOK
<1>5. \A w \in VA : Used(w) => vm'[w] \in Frame
  BY <1>1, <1>2, UsedIsMapped
<1>6. \A p : Stable(p)
  BY <1>1 DEF Stable
<1>7. FillOK(t)' /\ HasOK(t)' /\ UnmapOK(t)' /\ WaitOK(t)'
  <2>1. ~Has(t)' /\ ~Fills(t)' /\ pc'[t] # "faulting"
    BY <1>3 DEF Has, Fills
  <2>2. UnmapOK(t)'
    BY <1>3 DEF UnmapOK, VA
  <2> QED
    BY <2>1, <2>2 DEF HasOK, WaitOK, FillOK
<1>8. \A u \in App \ {t}, v \in VA : InRegion(v, t)' => ~InRegion(v, u)
  BY <1>1, <1>3 DEF InRegion
<1>9. ~Has(t)' /\ t # FaultThread
  BY <1>3 DEF Has
<1>10. Track'
  BY <1>1, <1>2, <1>4, <1>5, <1>6, <1>7, <1>8, <1>9, StepTrack
<1> QED
  BY <1>1, <1>10 DEF TrackInv

\* Request: no page is concerned.
LEMMA RequestTrack ==
  ASSUME Known, TrackInv, NEW t \in App, NEW to, NEW n, NEW random, Request(t, to, n, random)
  PROVE  TrackInv'
<1> USE ThreadsAssumption DEF Caller, Thread, Known
<1>1. /\ pc[t] = "idle" /\ pc' = [pc EXCEPT ![t] = "request"]
      /\ call' = [call EXCEPT ![t] = RequestCall(to, n, random)]
      /\ UNCHANGED <<pg, hashed, cur, panic, vm>>
  BY DEF Request, Goto
<1>2. Bystander(t) /\ Bystander(t)' /\ \A u \in Caller \ {t} : Same(u)
  BY <1>1 DEF Bystander, RequestLabel, Same, TypeOK, RequestCall
<1> QED
  BY <1>1, <1>2, BystanderTrack, Living DEF TrackInv

-----------------------------------------------------------------------------
(* Filling.                                                                  *)

\* ReadFault: the page the thread waits for is not tracked.
LEMMA ReadFaultTrack ==
  ASSUME Known, TrackInv, NEW t \in App, ReadFault(t)
  PROVE  TrackInv'
<1> USE ThreadsAssumption DEF Caller, Thread, Known, FaultThread, Migrator
<1>1. /\ pc[FaultThread] = "poll" /\ pc[t] = "faulting"
      /\ pc' = [pc EXCEPT ![FaultThread] = "alloc"]
      /\ call' = [call EXCEPT ![FaultThread] = call[t]]
      /\ UNCHANGED <<pg, hashed, cur, panic, vm>>
  BY DEF ReadFault, Goto
<1>2. Track
  BY <1>1, Living
<1>3. pc'[FaultThread] = "alloc" /\ call'[FaultThread] = call[t]
  BY <1>1 DEF TypeOK
<1>4. \A u \in Caller \ {FaultThread} : Same(u)
  BY <1>1 DEF Same, TypeOK
<1>5. \A w \in VA : Used(w) => vm'[w] \in Frame
  BY <1>1, <1>2, UsedIsMapped
<1>6. (\A p : Stable(p)) /\ \A w : Tracked(w)' <=> Tracked(w)
  BY <1>1 DEF Stable, Tracked
<1>7. /\ call[t].va = call[t].lo /\ call[t].hi = call[t].lo /\ call[t].lo \in VA
      /\ ~Tracked(call[t].lo)
  BY <1>1, <1>2 DEF Track, WaitOK
<1>8. FillOK(FaultThread)' /\ HasOK(FaultThread)' /\ ~Has(FaultThread)'
  <2>1. ~Has(FaultThread)'
    BY <1>3 DEF Has
  <2>2. FillOK(FaultThread)'
    BY <1>3, <1>6, <1>7 DEF FillOK, VA
  <2> QED
    BY <2>1, <2>2 DEF HasOK
<1>9. ServeOK'
  BY <1>1, <1>3, <1>4, <1>7 DEF ServeOK, Same
<1>10. \A u \in App : WaitOK(u)'
  BY <1>1, <1>2, <1>3, <1>4, <1>6 DEF Track, WaitOK, Same
<1>11. FaultThread \notin App
  OBVIOUS
<1>12. Track'
  BY <1>1, <1>2, <1>4, <1>5, <1>6, <1>8, <1>9, <1>10, <1>11, StepTrack
<1> QED
  BY <1>1, <1>12 DEF TrackInv

\* Allocate: a free page is not in the table, and nobody else has it.
LEMMA AllocateTrack ==
  ASSUME Known, TrackInv, NEW t \in Caller, NEW tier \in Tier, Allocate(t, tier)
  PROVE  TrackInv'
<1> USE ThreadsAssumption DEF Thread, Known
<1> DEFINE l == FreeList(tier)
           h == Head(list[l])
<1>1. pc[t] \in {"alloc", "alloc_nvm"} /\ t \in Thread
  BY DEF Allocate, Caller
<1>2. Running /\ Track
  BY <1>1, Living
<1>3. Fills(t) /\ ~Has(t)
  BY <1>1 DEF Fills, Has
<1>4. CASE /\ pc' = [pc EXCEPT ![t] = "alloc_nvm"]
           /\ UNCHANGED <<pg, hashed, cur, call, panic, vm>>
  <2>1. pc'[t] = "alloc_nvm" /\ \A u \in Caller \ {t} : pc'[u] = pc[u] /\ cur'[u] = cur[u]
    BY <1>4 DEF TypeOK, Caller
  <2>2. Fills(t)' /\ ~Has(t)'
    BY <2>1 DEF Fills, Has
  <2>3. \A p : Stable(p)
    BY <1>4 DEF Stable
  <2>4. \A w \in VA : Used(w) => vm'[w] \in Frame
    BY <1>2, <1>4, UsedIsMapped
  <2>5. HasOK(t)'
    BY <2>2 DEF HasOK
  <2>6. Track'
    BY <1>2, <1>3, <1>4, <2>1, <2>2, <2>3, <2>4, <2>5, FillStep
  <2> QED
    BY <1>4, <2>6 DEF TrackInv
<1>5. CASE /\ list[l] # <<>> /\ ~pg[h].present /\ cur' = [cur EXCEPT ![t] = h]
           /\ pc' = [pc EXCEPT ![t] = "place"]
           /\ UNCHANGED <<pg, hashed, call, panic, vm>>
  <2>1. /\ pc'[t] = "place" /\ cur'[t] = h
        /\ \A u \in Caller \ {t} : pc'[u] = pc[u] /\ cur'[u] = cur[u]
    BY <1>5 DEF TypeOK, Caller
  <2>2. l \in List /\ list[l] \in Seq(Page)
    BY ListNames DEF TypeOK
  <2>3. h \in Page /\ 1 \in 1 .. Len(list[l]) /\ list[l][1] = h
    BY <1>5, <2>2, HeadTailProperties, EmptySeq
  <2>4. Fills(t)' /\ Has(t)'
    BY <2>1 DEF Fills, Has
  <2>5. \A p : Stable(p)
    BY <1>5 DEF Stable
  <2>6. \A w \in VA : Used(w) => vm'[w] \in Frame
    BY <1>2, <1>5, UsedIsMapped
  <2>7. h \notin hashed
    BY <1>2, <1>5 DEF Track, TableOK
  <2>8. HasOK(t)'
    BY <1>5, <2>1, <2>3, <2>7 DEF HasOK, Backed
  <2>9. ASSUME NEW u \in Caller, Has(u) PROVE cur[u] # h
    <3>1. CASE pc[u] = "place"
      <4>1. <<<<u, 0>>, cur[u]>> \in Hands
        BY <3>1, SlotsFilled DEF HandLabel
      <4>2. cur[u] \in Page
        BY <1>2, <2>9 DEF Track, HasOK
      <4>3. \A m \in List : \A i \in 1 .. Len(list[m]) : list[m][i] # cur[u]
        BY <1>2, <4>1, <4>2, AloneInSlot
      <4> QED
        BY <2>2, <2>3, <4>3
    <3>2. CASE pc[u] # "place"
      BY <1>2, <1>5, <2>9, <3>2 DEF Track, HasOK
    <3> QED
      BY <3>1, <3>2
  <2>10. pc'[t] \notin {"count", "wake"}
    BY <2>1
  <2> HIDE DEF h, l
  <2>11. Track'
    BY <1>2, <1>3, <1>5, <2>1, <2>4, <2>5, <2>6, <2>8, <2>9, <2>10, FillStep
  <2> QED
    BY <1>5, <2>11 DEF TrackInv
<1>6. CASE Panic("out of memory") \/ Panic("free page of the wrong kind")
  BY <1>6, PanicTrack
<1> QED
  BY <1>4, <1>5, <1>6 DEF Allocate, Goto

\* Place: the page becomes present.
LEMMA PlaceTrack ==
  ASSUME Known, TrackInv, NEW t \in Caller, Place(t)
  PROVE  TrackInv'
<1> USE ThreadsAssumption DEF Thread, Known
<1>1. /\ pc[t] = "place" /\ pc' = [pc EXCEPT ![t] = "map"]
      /\ pg' = [pg EXCEPT ![cur[t]].present = TRUE]
      /\ UNCHANGED <<hashed, cur, call, panic, vm>> /\ t \in Thread
  BY DEF Place, Goto, Caller
<1>2. Track
  BY <1>1, Living
<1>3. Fills(t) /\ Has(t)
  BY <1>1 DEF Fills, Has
<1>4. pc'[t] = "map" /\ \A u \in Caller \ {t} : pc'[u] = pc[u] /\ cur'[u] = cur[u]
  BY <1>1 DEF TypeOK, Caller
<1>5. Fills(t)' /\ Has(t)' /\ cur[t] \in Page \ hashed
  BY <1>2, <1>3, <1>4 DEF Fills, Has, Track, HasOK
<1>6. \A p \in Page : Stable(p)
  BY <1>1 DEF Stable, TypeOK, PageRecord
<1>7. \A w \in VA : Used(w) => vm'[w] \in Frame
  BY <1>1, <1>2, UsedIsMapped
<1>8. HasOK(t)'
  BY <1>1, <1>4, <1>5 DEF HasOK, Backed, TypeOK, PageRecord
<1>9. \A u \in Caller \ {t} : Has(u) => cur[u] \in Page /\ cur'[t] # cur[u]
  BY <1>1, <1>2, <1>3 DEF Track, HasOK, HandsApart
<1>10. Track'
  BY <1>1, <1>2, <1>3, <1>4, <1>5, <1>6, <1>7, <1>8, <1>9, FillStep DEF TypeOK
<1> QED
  BY <1>1, <1>10 DEF TrackInv

\* Map: the address now shows a frame.
LEMMA MapTrack ==
  ASSUME Known, TrackInv, NEW t \in Caller, Map(t)
  PROVE  TrackInv'
<1> USE ThreadsAssumption DEF Thread, Known
<1> DEFINE label == IF t = FaultThread THEN "publish" ELSE "count"
<1>1. /\ pc[t] = "map" /\ pc' = [pc EXCEPT ![t] = label]
      /\ vm' = [vm EXCEPT ![call[t].va] = FrameOf(cur[t])]
      /\ UNCHANGED <<hashed, cur, call, panic, pg>> /\ t \in Thread
  BY DEF Map, StartCounting, Goto, Caller
<1>2. Track
  BY <1>1, Living
<1>3. Fills(t) /\ Has(t)
  BY <1>1 DEF Fills, Has
<1>4. pc'[t] = label /\ \A u \in Caller \ {t} : pc'[u] = pc[u] /\ cur'[u] = cur[u]
  BY <1>1 DEF TypeOK, Caller
<1>5. t # FaultThread => t \in App /\ call[t].op = "mmap"
  BY <1>3, Parts DEF Caller
<1>6. Fills(t)' /\ Has(t)' /\ cur[t] \in Page \ hashed /\ call[t].va \in VA
  BY <1>1, <1>2, <1>3, <1>4, <1>5 DEF Fills, Has, Track, HasOK, FillOK
<1>7. \A p : Stable(p)
  BY <1>1 DEF Stable
<1>8. FrameOf(cur[t]) \in Frame /\ vm'[call[t].va] = FrameOf(cur[t])
  BY <1>1, <1>6, FrameType DEF TypeOK
<1>9. \A w \in VA : Used(w) => vm'[w] \in Frame
  BY <1>1, <1>2, <1>8, UsedIsMapped DEF TypeOK
<1>10. HasOK(t)'
  BY <1>1, <1>2, <1>3, <1>4, <1>6, <1>8 DEF HasOK, Track
<1>11. \A u \in Caller \ {t} : Has(u) => cur'[t] # cur[u]
  BY <1>1, <1>2, <1>3 DEF Track, HandsApart
<1>12. t = FaultThread => pc'[t] \notin {"count", "wake"}
  BY <1>4
<1>13. Track'
  BY <1>1, <1>2, <1>3, <1>4, <1>6, <1>7, <1>9, <1>10, <1>11, <1>12, FillStep
<1> QED
  BY <1>1, <1>13 DEF TrackInv

\* Publish: only this thread knows the page.
LEMMA PublishTrack ==
  ASSUME Known, TrackInv, NEW t \in Caller, Publish(t)
  PROVE  TrackInv'
<1> USE ThreadsAssumption DEF Thread, Known
<1>1. /\ pc[t] = "publish" /\ pc' = [pc EXCEPT ![t] = "add"]
      /\ pg' = [pg EXCEPT ![cur[t]].va = call[t].va]
      /\ UNCHANGED <<hashed, cur, call, panic, vm>> /\ t \in Thread
  BY DEF Publish, Goto, Caller
<1>2. Track
  BY <1>1, Living
<1>3. Fills(t) /\ Has(t)
  BY <1>1 DEF Fills, Has
<1>4. pc'[t] = "add" /\ \A u \in Caller \ {t} : pc'[u] = pc[u] /\ cur'[u] = cur[u]
  BY <1>1 DEF TypeOK, Caller
<1>5. Fills(t)' /\ Has(t)' /\ cur[t] \in Page \ hashed
  BY <1>2, <1>3, <1>4 DEF Fills, Has, Track, HasOK
<1>6. \A p \in Page \ {cur[t]} : Stable(p)
  BY <1>1 DEF Stable, TypeOK, PageRecord
<1>7. \A w \in VA : Used(w) => vm'[w] \in Frame
  BY <1>1, <1>2, UsedIsMapped
<1>8. HasOK(t)'
  <2>1. pg[cur[t]].present /\ vm[call[t].va] \in Frame
    BY <1>1, <1>2, <1>3 DEF Track, HasOK, Backed
  <2>2. pg'[cur[t]].present /\ pg'[cur[t]].va = call[t].va
    BY <1>1, <1>5, <2>1 DEF TypeOK, PageRecord
  <2> QED
    BY <1>1, <1>5, <2>1, <2>2 DEF HasOK
<1>9. \A u \in Caller \ {t} : Has(u) => cur[u] \in Page \ {cur[t]} /\ cur'[t] # cur[u]
  BY <1>1, <1>2, <1>3 DEF Track, HasOK, HandsApart
<1>10. Track'
  BY <1>1, <1>2, <1>3, <1>4, <1>5, <1>6, <1>7, <1>8, <1>9, FillStep DEF TypeOK
<1> QED
  BY <1>1, <1>10 DEF TrackInv

\* AddPage: the address is not tracked yet, nobody else fills it, and nobody
\* but the thread that is woken waits for it.
LEMMA AddPageTrack ==
  ASSUME Known, TrackInv, NEW t \in Caller, AddPage(t)
  PROVE  TrackInv'
<1> USE ThreadsAssumption DEF Thread, Known
<1> DEFINE h == cur[t]
           a == call[t].va
<1>1. pc[t] = "add" /\ t \in Thread
  BY DEF AddPage, Caller
<1>2. Track /\ Fills(t) /\ Has(t) /\ ~Unmaps(t)
  BY <1>1, Living DEF Fills, Has, Unmaps
<1>3. /\ a \in VA /\ call[t].hi \in VA /\ call[t].lo <= a /\ a <= call[t].hi
      /\ \A v \in a .. call[t].hi : ~Tracked(v)
  BY <1>2 DEF Track, FillOK
<1>4. h \in Page \ hashed /\ pg[h].present /\ vm[a] \in Frame /\ pg[h].va = a
  BY <1>1, <1>2 DEF Track, HasOK, Backed
<1>5. ~Tracked(a)
  BY <1>3 DEF VA
<1>6. /\ hashed' = hashed \cup {h} /\ cur' = [cur EXCEPT ![t] = NoPage]
      /\ call' = [call EXCEPT ![t].va = @ + 1]
      /\ pc' = [pc EXCEPT ![t] = CASE t = FaultThread             -> "wake"
                                    [] t # FaultThread /\ a < call[t].hi -> "alloc"
                                    [] OTHER                       -> "idle"]
      /\ UNCHANGED <<pg, vm, panic>>
  BY <1>5 DEF AddPage, Goto, Tracked
<1>7. /\ call'[t].va = a + 1 /\ call'[t].lo = call[t].lo /\ call'[t].hi = call[t].hi
      /\ call'[t].op = call[t].op
  BY <1>1, <1>6 DEF TypeOK, CallRecord
<1>8. /\ t = FaultThread => pc'[t] = "wake"
      /\ t # FaultThread => pc'[t] \in {"alloc", "idle"} /\ t \in App
      /\ pc'[t] = "alloc" => a < call[t].hi
  BY <1>1, <1>6 DEF TypeOK, Caller
<1>9. \A u \in Caller \ {t} : Same(u)
  BY <1>1, <1>6 DEF Same, TypeOK
<1>10. \A v : Tracked(v)' <=> Tracked(v) \/ v = a
  BY <1>4, <1>6 DEF Tracked
<1>11. ~Has(t)' /\ ~Unmaps(t)' /\ pc'[t] # "faulting"
  BY <1>8 DEF Has, Unmaps
<1>12. FillOK(t)' /\ HasOK(t)'
  <2>1. Fills(t)' => pc'[t] = "alloc"
    BY <1>8, <1>11 DEF Fills
  <2>2. FillOK(t)'
    <3>1. NumVA \in Nat /\ call[t].lo \in Nat
      BY <1>1, SizesAssumption DEF TypeOK, CallRecord
    <3>2. SUFFICES ASSUME pc'[t] = "alloc" PROVE FillOK(t)'
      BY <2>1 DEF FillOK
    <3>3. a + 1 \in VA /\ call[t].lo <= a + 1 /\ a + 1 <= call[t].hi
      BY <1>3, <1>8, <3>1, <3>2 DEF VA
    <3>4. \A v \in a + 1 .. call[t].hi : v # a /\ v \in a .. call[t].hi
      BY <1>3 DEF VA
    <3> QED
      BY <1>3, <1>7, <1>10, <3>3, <3>4 DEF FillOK
  <2> QED
    BY <1>11, <2>2 DEF HasOK
<1> HIDE DEF h, a
<1>13. ASSUME NEW u \in Caller \ {t} PROVE FillOK(u)' /\ HasOK(u)'
  <2>1. /\ Fills(u)' = Fills(u) /\ Has(u)' = Has(u) /\ Backed(u)' = Backed(u)
        /\ call'[u] = call[u] /\ cur'[u] = cur[u] /\ pc'[u] = pc[u]
    BY <1>9 DEF Same, Fills, Has, Backed
  <2>2. Fills(u) => a \notin call[u].va .. call[u].hi
    <3>1. SUFFICES ASSUME Fills(u) PROVE a \notin call[u].va .. call[u].hi
      OBVIOUS
    <3>2. CASE u \in App
      <4>1. pc[u] # "idle" /\ call[u].op = "mmap"
        BY <3>1, <3>2, Parts
      <4>2. a \notin call[u].lo .. call[u].hi
        BY <1>2, <3>2, <4>1, FillsAlone DEF a
      <4>3. call[u].lo <= call[u].va /\ call[u].lo \in Nat /\ call[u].va \in Nat
        BY <1>2, <3>1, <3>2 DEF Track, FillOK, TypeOK, CallRecord, Caller
      <4> QED
        BY <4>2, <4>3
    <3>3. CASE u = FaultThread
      <4>1. pc[u] \notin {"poll", "wake"} /\ t \in App
        BY <3>1, <3>3, Parts DEF Caller
      <4>2. PICK w \in App : pc[w] = "faulting" /\ call[w].lo = call[u].lo
        BY <1>2, <3>3, <4>1 DEF Track, ServeOK
      <4>3. call[u].va = call[u].lo /\ call[u].hi = call[u].lo /\ call[u].lo \in Nat
        BY <1>2, <3>3, <4>1 DEF Track, ServeOK, TypeOK, CallRecord
      <4>4. a # call[w].lo
        BY <1>2, <4>1, <4>2, FillsNoFault DEF a
      <4> QED
        BY <4>2, <4>3, <4>4
    <3> QED
      BY <3>2, <3>3 DEF Caller
  <2>3. FillOK(u)'
    BY <1>2, <1>10, <2>1, <2>2 DEF Track, FillOK
  <2>4. Has(u) => cur[u] # h
    BY <1>2 DEF Track, HandsApart, h
  <2>5. HasOK(u)'
    <3>1. hashed' = hashed \cup {h} /\ pg' = pg /\ vm' = vm
      BY <1>6
    <3>2. HasOK(u)
      BY <1>2 DEF Track
    <3> QED
      BY <2>1, <2>4, <3>1, <3>2 DEF HasOK
  <2> QED
    BY <2>3, <2>5
<1>14. ASSUME NEW u \in App PROVE UnmapOK(u)' /\ WaitOK(u)'
  <2>1. CASE u = t
    BY <1>11, <2>1 DEF UnmapOK, WaitOK
  <2>2. CASE u # t
    <3>1. Same(u) /\ Unmaps(u)' = Unmaps(u)
      BY <1>9, <2>2 DEF Same, Unmaps, Caller
    <3>2. Unmaps(u) => a \notin call[u].lo .. call[u].hi
      <4>1. Unmaps(u) => pc[u] # "idle" /\ call[u].op = "munmap"
        BY Parts
      <4> QED
        BY <1>2, <2>2, <4>1, FillsAlone DEF a
    <3>3. UnmapOK(u)'
      BY <1>2, <1>10, <3>1, <3>2 DEF Track, UnmapOK, Same
    <3>4. WaitOK(u)'
      <4>1. CASE t = FaultThread
        <5>1. call[t].lo = a
          BY <1>1, <1>2, <4>1 DEF Track, ServeOK, a
        <5> QED
          BY <1>1, <1>2, <1>7, <1>8, <1>10, <3>1, <4>1, <5>1 DEF Track, WaitOK, Same
      <4>2. CASE t # FaultThread
        <5>1. Same(FaultThread) /\ t \in App
          BY <1>8, <1>9, <4>2 DEF Caller
        <5>2. pc[u] = "faulting" => a # call[u].lo
          BY <1>2, <5>1, FillsNoFault DEF a
        <5> QED
          BY <1>2, <1>10, <3>1, <5>1, <5>2 DEF Track, WaitOK, Same
      <4> QED
        BY <4>1, <4>2
    <3> QED
      BY <3>3, <3>4
  <2> QED
    BY <2>1, <2>2
<1>15. ServeOK'
  <2>1. \A u \in App : pc[u] = "faulting" => Same(u)
    BY <1>1, <1>9 DEF Caller
  <2>2. CASE t = FaultThread
    BY <1>1, <1>2, <1>7, <1>8, <2>1, <2>2 DEF Track, ServeOK, Same
  <2>3. CASE t # FaultThread
    BY <1>2, <1>9, <2>1, <2>3 DEF Track, ServeOK, Same, Caller
  <2> QED
    BY <2>2, <2>3
<1>16. TableOK'
  <2>1. \A p \in hashed : pg[p].va # a
    BY <1>5 DEF Tracked, a
  <2>2. pg[h].present /\ pg[h].va = a /\ a \in VA /\ vm[a] \in Frame
    BY <1>3, <1>4 DEF h, a
  <2> QED
    BY <1>2, <1>6, <2>1, <2>2 DEF Track, TableOK
<1>17. HandsApart'
  <2>1. \A u \in Caller : Has(u)' => u # t /\ Has(u) /\ cur'[u] = cur[u]
    BY <1>9, <1>11 DEF Has, Same
  <2> QED
    BY <1>2, <2>1 DEF Track, HandsApart
<1>18. RegionsApart'
  <2>1. \A u \in App, v \in VA : InRegion(v, u)' => InRegion(v, u) /\ call'[u].op = call[u].op
    BY <1>1, <1>7, <1>9 DEF InRegion, Same, Caller
  <2> QED
    BY <1>2, <2>1 DEF Track, RegionsApart, VA
<1> QED
  BY <1>6, <1>12, <1>13, <1>14, <1>15, <1>16, <1>17, <1>18 DEF Track, TrackInv

\* Wake: the threads that waited for the page go on.
LEMMA WakeTrack ==
  ASSUME Known, TrackInv, Wake
  PROVE  TrackInv'
<1> USE ThreadsAssumption DEF Thread, Known, FaultThread, Migrator
<1>1. /\ pc[FaultThread] = "wake" /\ UNCHANGED <<pg, hashed, vm, call, cur, panic>>
      /\ pc' = [u \in Thread |-> IF u = FaultThread THEN "poll"
                                 ELSE IF WaitsFor(u) THEN "idle" ELSE pc[u]]
  BY DEF Wake
<1>2. Track
  BY <1>1, Living
<1>3. pc'[FaultThread] = "poll" /\ \A u \in App : pc'[u] = IF WaitsFor(u) THEN "idle" ELSE pc[u]
  BY <1>1
<1>4. \A v : Tracked(v)' <=> Tracked(v)
  BY <1>1 DEF Tracked
<1>5. \A u \in Caller : /\ Has(u)' = Has(u) /\ Fills(u)' = Fills(u)
                        /\ Has(u) => pc'[u] = pc[u]
                        /\ Unmaps(u)' = Unmaps(u)
  BY <1>1, <1>3 DEF Has, Fills, Unmaps, WaitsFor, Caller
<1>6. \A u \in Caller : FillOK(u)' /\ HasOK(u)'
  BY <1>1, <1>2, <1>4, <1>5 DEF Track, FillOK, HasOK, Backed
<1>7. \A u \in App : UnmapOK(u)'
  BY <1>1, <1>2, <1>4, <1>5 DEF Track, UnmapOK, Caller
<1>8. \A u \in App : WaitOK(u)'
  <2>1. \A u \in App : pc'[u] = "faulting" => pc[u] = "faulting" /\ call[u].lo # call[FaultThread].lo
    BY <1>3 DEF WaitsFor
  <2> QED
    BY <1>1, <1>2, <1>4, <2>1 DEF Track, WaitOK
<1>9. ServeOK'
  BY <1>3 DEF ServeOK
<1>10. TableOK' /\ HandsApart'
  BY <1>1, <1>2, <1>5 DEF Track, TableOK, HandsApart
<1>11. RegionsApart'
  <2>1. \A u \in App, v \in VA : InRegion(v, u)' => InRegion(v, u)
    BY <1>1, <1>3 DEF InRegion, WaitsFor
  <2> QED
    BY <1>1, <1>2, <2>1 DEF Track, RegionsApart, VA
<1> QED
  BY <1>1, <1>6, <1>7, <1>8, <1>9, <1>10, <1>11 DEF Track, TrackInv

-----------------------------------------------------------------------------
(* Unmapping.                                                                *)

\* RemovePage: the address is not tracked, or no longer.
LEMMA RemovePageTrack ==
  ASSUME Known, TrackInv, NEW t \in App, RemovePage(t)
  PROVE  TrackInv'
<1> USE ThreadsAssumption DEF Thread, Known
<1> DEFINE a == call[t].va
<1>1. /\ pc[t] = "munmap" /\ call' = [call EXCEPT ![t].va = @ + 1]
      /\ UNCHANGED <<pg, vm, panic>>
  BY DEF RemovePage
<1>2. Track
  BY <1>1, Living
<1>3. /\ call'[t].va = a + 1 /\ call'[t].lo = call[t].lo /\ call'[t].hi = call[t].hi
      /\ call'[t].op = call[t].op /\ a \in Nat /\ call[t].lo \in Nat
  BY <1>1 DEF TypeOK, CallRecord
<1>4. /\ hashed' \subseteq hashed /\ pc'[t] \in {"munmap", "removed"}
      /\ \A p \in hashed' : pg[p].va # a
      /\ \A u \in Caller \ {t} : Same(u)
  <2>1. CASE (\A p \in hashed : pg[p].va # a) /\ UNCHANGED <<hashed, cur, pc>>
    BY <1>1, <2>1 DEF Same, TypeOK, Caller
  <2>2. CASE \E p \in hashed : /\ pg[p].va = a /\ hashed' = hashed \ {p}
                              /\ cur' = [cur EXCEPT ![t] = p]
                              /\ pc' = [pc EXCEPT ![t] = "removed"]
    <3>1. PICK p \in hashed : /\ pg[p].va = a /\ hashed' = hashed \ {p}
                             /\ cur' = [cur EXCEPT ![t] = p]
                             /\ pc' = [pc EXCEPT ![t] = "removed"]
      BY <2>2
    <3>2. pc'[t] = "removed" /\ \A u \in Caller \ {t} : Same(u)
      BY <1>1, <3>1 DEF Same, TypeOK, Caller
    <3>3. \A q \in hashed' : pg[q].va # a
      BY <1>2, <3>1 DEF Track, TableOK
    <3> QED
      BY <3>1, <3>2, <3>3
  <2> QED
    BY <2>1, <2>2 DEF RemovePage, Untrack, Goto
<1>5. Unmaps(t) /\ Unmaps(t)'
  BY <1>1, <1>4 DEF Unmaps
<1>6. \A v : Tracked(v)' => Tracked(v) /\ v # a
  <2>1. pg' = pg /\ hashed' \subseteq hashed /\ \A p \in hashed' : pg[p].va # a
    BY <1>1, <1>4
  <2> HIDE DEF a
  <2> QED
    BY <2>1 DEF Tracked
<1>7. UnmapOK(t)'
  <2>1. \A v \in call[t].lo .. call[t].hi : v < a => ~Tracked(v)
    BY <1>2, <1>5 DEF Track, UnmapOK
  <2>2. \A v \in call[t].lo .. call[t].hi : v < a + 1 => ~Tracked(v)'
    BY <1>3, <1>6, <2>1
  <2> QED
    BY <1>3, <2>2 DEF UnmapOK
<1>8. Track'
  BY <1>1, <1>2, <1>3, <1>4, <1>5, <1>7, UnmapStep
<1> QED
  BY <1>1, <1>8 DEF TrackInv

\* A step in the middle of unmapping that concerns only the counters.
LEMMA UnmapGoesOn ==
  ASSUME Known, Track, NEW t \in App, Unmaps(t), Unmaps(t)', UNCHANGED <<hashed, pg, vm, call>>,
         \A u \in Caller \ {t} : Same(u)
  PROVE  Track'
<1>1. UnmapOK(t)'
  BY DEF Track, UnmapOK, Tracked
<1> QED
  BY <1>1, UnmapStep DEF Known

\* UncountPage: the page has left the table.
LEMMA UncountPageTrack ==
  ASSUME Known, TrackInv, NEW t \in App, UncountPage(t)
  PROVE  TrackInv'
<1> USE ThreadsAssumption DEF Thread, Known
<1>1. /\ pc[t] = "removed" /\ pc' = [pc EXCEPT ![t] = "count"]
      /\ cur' = [cur EXCEPT ![t] = NoPage] /\ UNCHANGED <<pg, vm, panic, hashed, call>>
  BY DEF UncountPage, StartCounting, Goto
<1>2. call[t].op = "munmap"
  BY <1>1 DEF LocalInv, AppOK
<1>3. Unmaps(t) /\ Unmaps(t)' /\ \A u \in Caller \ {t} : Same(u)
  BY <1>1, <1>2 DEF Unmaps, Same, TypeOK, Caller
<1> QED
  BY <1>1, <1>3, Living, UnmapGoesOn DEF TrackInv

\* Unmap: none of the region is tracked, and nobody else has mapped any of it.
LEMMA UnmapTrack ==
  ASSUME Known, TrackInv, NEW t \in App, Unmap(t)
  PROVE  TrackInv'
<1> USE ThreadsAssumption DEF Thread, Known, FaultThread
<1>1. /\ pc[t] = "munmap" /\ call[t].va > call[t].hi /\ pc' = [pc EXCEPT ![t] = "idle"]
      /\ vm' = [v \in VA |-> IF v \in call[t].lo .. call[t].hi THEN Unmapped ELSE vm[v]]
      /\ UNCHANGED <<pg, panic, hashed, call, cur>>
  BY DEF Unmap, Goto
<1>2. Track
  BY <1>1, Living
<1>3. /\ pc'[t] = "idle" /\ \A u \in Caller \ {t} : Same(u)
  BY <1>1 DEF Same, TypeOK, Caller
<1>4. call[t].op = "munmap" /\ Unmaps(t) /\ ~Fills(t) /\ ~Has(t)
  BY <1>1 DEF LocalInv, AppOK, Unmaps, Fills, Has
<1>5. call[t].va \in Nat /\ call[t].hi \in Nat /\ call[t].lo \in Nat
  BY DEF TypeOK, CallRecord
<1>6. ASSUME NEW v \in VA, Used(v) PROVE vm'[v] \in Frame
  <2>1. Tracked(v) => v \notin call[t].lo .. call[t].hi
    BY <1>1, <1>2, <1>4, <1>5 DEF Track, UnmapOK
  <2>2. ASSUME NEW u \in Caller, Backed(u), call[u].va = v PROVE v \notin call[t].lo .. call[t].hi
    <3>1. Fills(u) /\ u # t
      BY <1>4, <2>2 DEF Backed, Fills
    <3> QED
      BY <1>1, <1>2, <1>4, <2>2, <3>1, FillsAlone
  <2>3. v \notin call[t].lo .. call[t].hi
    BY <1>6, <2>1, <2>2 DEF Used
  <2> QED
    BY <1>1, <1>2, <1>6, <2>3, UsedIsMapped
<1>7. /\ FillOK(t)' /\ HasOK(t)' /\ UnmapOK(t)' /\ WaitOK(t)' /\ ~Has(t)'
      /\ \A v : ~InRegion(v, t)'
  BY <1>3 DEF FillOK, HasOK, UnmapOK, WaitOK, Fills, Has, Unmaps, InRegion
<1>8. \A p : Stable(p)
  BY <1>1 DEF Stable
<1>9. t # FaultThread /\ pc[t] # "faulting"
  BY <1>1
<1>10. Track'
  BY <1>1, <1>2, <1>3, <1>6, <1>7, <1>8, <1>9, StepTrack
<1> QED
  BY <1>1, <1>10 DEF TrackInv

-----------------------------------------------------------------------------
(* Counting, and the steps of a request.                                     *)

\* Loading a counter moves nobody.
LEMMA LoadCounterTrack ==
  ASSUME Known, TrackInv, NEW t \in Thread, LoadCounter(t)
  PROVE  TrackInv'
<1>1. pc[t] = "count" /\ UNCHANGED <<pg, vm, panic, hashed, call, cur, pc>>
  BY DEF LoadCounter
<1>2. (\A p \in Page : Stable(p)) /\ \A u \in Caller : Same(u)
  BY <1>1 DEF Stable, Same
<1>3. Track'
  BY <1>1, <1>2, Living, MigratorTrack DEF Known
<1> QED
  BY <1>1, <1>3 DEF TrackInv

\* Storing one may end the critical section.
LEMMA StoreCounterTrack ==
  ASSUME Known, TrackInv, NEW t \in App, StoreCounter(t)
  PROVE  TrackInv'
<1> USE ThreadsAssumption DEF Thread, Known
<1>1. /\ pc[t] = "count" /\ UNCHANGED <<pg, vm, panic, hashed, call, cur>>
      /\ pc' = pc \/ pc' = [pc EXCEPT ![t] = AfterCounting(t)]
  BY DEF StoreCounter, Goto
<1>2. Track
  BY <1>1, Living
<1>3. CASE pc' = pc
  <2>1. (\A p \in Page : Stable(p)) /\ \A u \in Caller : Same(u)
    BY <1>1, <1>3 DEF Stable, Same
  <2>2. Track'
    BY <1>1, <1>2, <2>1, MigratorTrack
  <2> QED
    BY <1>1, <2>2 DEF TrackInv
<1>4. CASE pc' = [pc EXCEPT ![t] = AfterCounting(t)]
  <2>1. pc'[t] = AfterCounting(t) /\ \A u \in Caller \ {t} : Same(u)
    BY <1>1, <1>4 DEF Same, TypeOK, Caller
  <2>2. t # Migrator /\ call[t].op \in {"request", "mmap", "munmap"}
    BY <1>1 DEF LocalInv, AppOK
  <2>3. CASE call[t].op = "request"
    <3>1. pc'[t] = "request"
      BY <2>1, <2>2, <2>3 DEF AfterCounting
    <3>2. Bystander(t) /\ Bystander(t)'
      BY <1>1, <2>3, <3>1 DEF Bystander, RequestLabel
    <3> QED
      BY <1>1, <1>2, <2>1, <3>2, BystanderTrack DEF TrackInv
  <2>4. CASE call[t].op = "mmap"
    <3>1. pc'[t] = "publish"
      BY <2>1, <2>2, <2>4 DEF AfterCounting
    <3>2. Fills(t) /\ Has(t) /\ Fills(t)' /\ Has(t)'
      BY <1>1, <2>4, <3>1 DEF Fills, Has
    <3>3. HasOK(t)'
      BY <1>1, <1>2, <3>1, <3>2 DEF Track, HasOK, Backed, Caller
    <3>4. (\A p : Stable(p)) /\ \A v \in VA : Used(v) => vm'[v] \in Frame
      BY <1>1, <1>2, UsedIsMapped DEF Stable
    <3>5. \A u \in Caller \ {t} : Has(u) => cur'[t] # cur[u]
      BY <1>1, <1>2, <3>2 DEF Track, HandsApart, Caller
    <3>6. t # FaultThread /\ t \in Caller
      BY DEF Caller
    <3>7. \A u \in Caller \ {t} : pc'[u] = pc[u] /\ cur'[u] = cur[u]
      BY <2>1 DEF Same
    <3>8. Track'
      BY <1>1, <1>2, <3>2, <3>3, <3>4, <3>5, <3>6, <3>7, FillStep
    <3> QED
      BY <1>1, <3>8 DEF TrackInv
  <2>5. CASE call[t].op = "munmap"
    <3>1. pc'[t] = "munmap"
      BY <2>1, <2>2, <2>5 DEF AfterCounting
    <3>2. Unmaps(t) /\ Unmaps(t)'
      BY <1>1, <2>5, <3>1 DEF Unmaps
    <3> QED
      BY <1>1, <1>2, <2>1, <3>2, UnmapGoesOn DEF TrackInv
  <2> QED
    BY <2>2, <2>3, <2>4, <2>5
<1> QED
  BY <1>1, <1>3, <1>4

\* A step of a request that goes on, or ends.
LEMMA RequestStepTrack ==
  ASSUME Known, TrackInv, NEW t \in App, pc[t] \in RequestLabel,
         UNCHANGED <<hashed, pg, vm, panic>>, call'[t].op = call[t].op,
         pc'[t] \in RequestLabel \cup {"idle", "count"}, \A u \in Caller \ {t} : Same(u)
  PROVE  TrackInv'
<1>1. t \in Thread /\ pc[t] # "dead" /\ call[t].op = "request"
  BY DEF Known, LocalInv, AppOK, RequestLabel, Thread
<1>2. Bystander(t) /\ Bystander(t)'
  BY <1>1 DEF Bystander
<1> QED
  BY <1>1, <1>2, Living, BystanderTrack DEF TrackInv

\* Choose: no page is concerned.
LEMMA ChooseTrack ==
  ASSUME Known, TrackInv, NEW t \in App, Choose(t)
  PROVE  TrackInv'
<1> USE ThreadsAssumption DEF Thread, Known
<1>1. CASE Panic("division by zero")
  BY <1>1, PanicTrack
<1>2. CASE ~Panic("division by zero")
  <2>1. PICK c : /\ call' = [call EXCEPT ![t].choose = c]
                 /\ pc' = [pc EXCEPT ![t] = IF c = 0 THEN "take" ELSE "rotate"]
    BY <1>2 DEF Choose, Goto
  <2>2. UNCHANGED <<hashed, pg, vm, panic, cur>> /\ pc[t] \in RequestLabel
    BY <1>2 DEF Choose, RequestLabel
  <2>3. call'[t].op = call[t].op /\ \A u \in Caller \ {t} : Same(u)
    BY <2>1, <2>2 DEF Same, TypeOK, Caller, CallRecord
  <2>4. pc'[t] \in RequestLabel
    BY <2>1 DEF TypeOK, RequestLabel
  <2> QED
    BY <2>2, <2>3, <2>4, RequestStepTrack
<1> QED
  BY <1>1, <1>2

\* Rotate: a page of a list.
LEMMA RotateTrack ==
  ASSUME Known, TrackInv, NEW t \in App, Rotate(t)
  PROVE  TrackInv'
<1> USE ThreadsAssumption DEF Thread, Known
<1> DEFINE h == Head(list[From(t)])
<1>1. CASE Panic("NULL enqueued")
  BY <1>1, PanicTrack
<1>2. CASE /\ cur' = [cur EXCEPT ![t] = h] /\ call' = [call EXCEPT ![t].choose = @ - 1]
           /\ pc' = [pc EXCEPT ![t] = "rotate_back"]
           /\ UNCHANGED <<hashed, pg, vm, panic>>
  <2>1. pc[t] \in RequestLabel
    BY DEF Rotate, RequestLabel
  <2>2. call'[t].op = call[t].op /\ \A u \in Caller \ {t} : Same(u)
    BY <1>2 DEF Same, TypeOK, Caller, CallRecord
  <2>3. pc'[t] \in RequestLabel
    BY <1>2 DEF TypeOK, RequestLabel
  <2> QED
    BY <1>2, <2>1, <2>2, <2>3, RequestStepTrack
<1> QED
  BY <1>1, <1>2 DEF Rotate, Goto

\* RotateBack: the page goes back.
LEMMA RotateBackTrack ==
  ASSUME Known, TrackInv, NEW t \in App, RotateBack(t)
  PROVE  TrackInv'
<1> USE ThreadsAssumption DEF Thread, Known
<1> DEFINE label == IF call[t].choose = 0 THEN "take" ELSE "rotate"
<1>1. /\ pc[t] \in RequestLabel /\ cur' = [cur EXCEPT ![t] = NoPage]
      /\ pc' = [pc EXCEPT ![t] = label] /\ UNCHANGED <<hashed, pg, vm, panic, call>>
  BY DEF RotateBack, Goto, RequestLabel
<1>2. call'[t].op = call[t].op /\ \A u \in Caller \ {t} : Same(u)
  BY <1>1 DEF Same, TypeOK, Caller
<1>3. pc'[t] \in RequestLabel
  BY <1>1 DEF TypeOK, RequestLabel
<1> QED
  BY <1>1, <1>2, <1>3, RequestStepTrack

\* Take: the page stays in the table.
LEMMA TakeTrack ==
  ASSUME Known, TrackInv, NEW t \in App, Take(t)
  PROVE  TrackInv'
<1> USE ThreadsAssumption DEF Thread, Known
<1> DEFINE h == Head(list[From(t)])
<1>1. pc[t] \in RequestLabel
  BY DEF Take, RequestLabel
<1>2. CASE Panic("mapped page of the wrong kind")
  BY <1>2, PanicTrack
<1>3. CASE /\ cur' = cur \/ cur' = [cur EXCEPT ![t] = h]
           /\ call' = [call EXCEPT ![t].left = @ - 1]
           /\ pc' = [pc EXCEPT ![t] = "request"] \/ pc' = [pc EXCEPT ![t] = "queue"]
           /\ UNCHANGED <<hashed, pg, vm, panic>>
  <2>1. call'[t].op = call[t].op /\ \A u \in Caller \ {t} : Same(u)
    <3>1. call'[t].op = call[t].op /\ \A u \in Caller \ {t} : call'[u] = call[u]
      BY <1>3 DEF TypeOK, Caller, CallRecord
    <3>2. \A u \in Caller \ {t} : pc'[u] = pc[u]
      BY <1>3 DEF TypeOK, Caller
    <3>3. \A u \in Caller \ {t} : cur'[u] = cur[u]
      BY <1>3 DEF TypeOK, Caller
    <3> QED
      BY <3>1, <3>2, <3>3 DEF Same
  <2>2. pc'[t] \in RequestLabel
    BY <1>3 DEF TypeOK, RequestLabel
  <2> QED
    BY <1>1, <1>3, <2>1, <2>2, RequestStepTrack
<1> QED
  BY <1>2, <1>3 DEF Take, Goto, NextIteration

\* Queue: so does it here.
LEMMA QueueTrack ==
  ASSUME Known, TrackInv, NEW t \in App, Queue(t)
  PROVE  TrackInv'
<1> USE ThreadsAssumption DEF Thread, Known
<1>1. /\ pc[t] \in RequestLabel /\ cur' = [cur EXCEPT ![t] = NoPage]
      /\ pc' = [pc EXCEPT ![t] = "count"] /\ UNCHANGED <<hashed, pg, vm, panic, call>>
  BY DEF Queue, StartCounting, Goto, RequestLabel
<1>2. pc'[t] = "count" /\ call'[t].op = call[t].op /\ \A u \in Caller \ {t} : Same(u)
  BY <1>1 DEF Same, TypeOK, Caller
<1> QED
  BY <1>1, <1>2, RequestStepTrack

\* RequestDone: the thread returns.
LEMMA RequestDoneTrack ==
  ASSUME Known, TrackInv, NEW t \in App, RequestDone(t)
  PROVE  TrackInv'
<1> USE ThreadsAssumption DEF Thread, Known
<1>1. /\ pc[t] \in RequestLabel /\ pc' = [pc EXCEPT ![t] = "idle"]
      /\ UNCHANGED <<hashed, pg, vm, panic, call, cur>>
  BY DEF RequestDone, Goto, RequestLabel
<1>2. pc'[t] = "idle" /\ call'[t].op = call[t].op /\ \A u \in Caller \ {t} : Same(u)
  BY <1>1 DEF Same, TypeOK, Caller
<1> QED
  BY <1>1, <1>2, RequestStepTrack

-----------------------------------------------------------------------------
(* The migration thread.                                                     *)

\* The migration thread writes no address and makes no page absent.
LEMMA MigratorSteps ==
  ASSUME Known, TrackInv, pc[Migrator] # "dead", hashed' = hashed, \A p \in Page : Stable(p),
         \A v \in VA : vm[v] \in Frame => vm'[v] \in Frame,
         UNCHANGED <<call, cur, panic>>, \E label : pc' = [pc EXCEPT ![Migrator] = label]
  PROVE  TrackInv'
<1> USE ThreadsAssumption DEF Thread, Known, FaultThread, Migrator
<1>1. \A u \in Caller : Same(u)
  BY DEF Same, TypeOK, Caller
<1>2. Track
  BY Living
<1> QED
  BY <1>1, <1>2, MigratorTrack DEF TrackInv

\* Nor does it in a step that writes no page struct.
LEMMA MigratorReads ==
  ASSUME Known, TrackInv, pc[Migrator] # "dead", UNCHANGED <<hashed, pg, vm, call, cur, panic>>,
         \E label : pc' = [pc EXCEPT ![Migrator] = label]
  PROVE  TrackInv'
<1>1. \A p \in Page : Stable(p)
  BY DEF Stable
<1> QED
  BY <1>1, MigratorSteps

\* Scan, TakePage, TakeNext, Protect, Copy, RestoreNext and the counters.
LEMMA MigratorReadsTrack ==
  ASSUME Known, TrackInv,
         Scan \/ TakePage \/ TakeNext \/ Protect \/ Copy \/ RestoreNext \/ StoreCounter(Migrator)
  PROVE  TrackInv'
<1> USE DEF Goto, LoopOver, StartCounting
<1>0. pc = [pc EXCEPT ![Migrator] = pc[Migrator]]
  BY DEF Known, TypeOK
<1>1. CASE Scan
  <2>1. pc[Migrator] # "dead" /\ UNCHANGED <<hashed, pg, vm, call, cur, panic>>
    BY <1>1 DEF Scan
  <2>2. \E label : pc' = [pc EXCEPT ![Migrator] = label]
    BY <1>0, <1>1 DEF Scan
  <2> QED
    BY <2>1, <2>2, MigratorReads
<1>2. CASE TakePage
  <2>1. CASE Panic("NULL page")
    BY <2>1, PanicTrack
  <2>2. CASE ~Panic("NULL page")
    <3>1. /\ pc[Migrator] # "dead" /\ UNCHANGED <<hashed, pg, vm, call, cur, panic>>
          /\ \E label : pc' = [pc EXCEPT ![Migrator] = label]
      BY <1>2, <2>2 DEF TakePage
    <3> QED
      BY <3>1, MigratorReads
  <2> QED
    BY <2>1, <2>2
<1>3. CASE TakeNext
  <2>1. CASE Panic("NULL next_page")
    BY <2>1, PanicTrack
  <2>2. CASE ~Panic("NULL next_page")
    <3>1. /\ pc[Migrator] # "dead" /\ UNCHANGED <<hashed, pg, vm, call, cur, panic>>
          /\ \E label : pc' = [pc EXCEPT ![Migrator] = label]
      BY <1>3, <2>2 DEF TakeNext
    <3> QED
      BY <3>1, MigratorReads
  <2> QED
    BY <2>1, <2>2
<1>4. CASE Protect
  <2>1. CASE Panic("va is zero") \/ Panic("UFFDIO_WRITEPROTECT failed")
    BY <2>1, PanicTrack
  <2>2. CASE ~(Panic("va is zero") \/ Panic("UFFDIO_WRITEPROTECT failed"))
    <3>1. /\ pc[Migrator] # "dead" /\ UNCHANGED <<hashed, pg, vm, call, cur, panic>>
          /\ \E label : pc' = [pc EXCEPT ![Migrator] = label]
      BY <1>4, <2>2 DEF Protect
    <3> QED
      BY <3>1, MigratorReads
  <2> QED
    BY <2>1, <2>2
<1>5. CASE Copy
  <2>1. CASE Panic("page in the wrong tier") \/ Panic("offset beyond the device")
    BY <2>1, PanicTrack
  <2>2. CASE ~(Panic("page in the wrong tier") \/ Panic("offset beyond the device"))
    <3>1. /\ pc[Migrator] # "dead" /\ UNCHANGED <<hashed, pg, vm, call, cur, panic>>
          /\ \E label : pc' = [pc EXCEPT ![Migrator] = label]
      BY <1>5, <2>2 DEF Copy
    <3> QED
      BY <3>1, MigratorReads
  <2> QED
    BY <2>1, <2>2
<1>6. CASE RestoreNext
  <2>1. /\ pc[Migrator] # "dead" /\ UNCHANGED <<hashed, pg, vm, call, cur, panic>>
        /\ \E label : pc' = [pc EXCEPT ![Migrator] = label]
    BY <1>6 DEF RestoreNext
  <2> QED
    BY <2>1, MigratorReads
<1>7. CASE StoreCounter(Migrator)
  <2>1. pc[Migrator] # "dead" /\ UNCHANGED <<hashed, pg, vm, call, cur, panic>>
    BY <1>7 DEF StoreCounter
  <2>2. \E label : pc' = [pc EXCEPT ![Migrator] = label]
    BY <1>0, <1>7 DEF StoreCounter
  <2> QED
    BY <2>1, <2>2, MigratorReads
<1> QED
  BY <1>1, <1>2, <1>3, <1>4, <1>5, <1>6, <1>7

\* Remap: another frame is mapped where one was.
LEMMA RemapTrack ==
  ASSUME Known, TrackInv, Remap
  PROVE  TrackInv'
<1> USE ThreadsAssumption DEF Thread, Known
<1> DEFINE h   == batch.page[batch.i]
           off == batch.offset[batch.i]
           dst == Target(batch.to)
<1>1. /\ pc[Migrator] = "remap" /\ UNCHANGED <<hashed, call, cur, panic>>
      /\ vm' = [vm EXCEPT ![pg[h].va] = <<dst, off>>]
      /\ pg' = [pg EXCEPT ![h].in_dram = (dst = "dram"), ![h].devdax_offset = off]
      /\ \E label : pc' = [pc EXCEPT ![Migrator] = label]
  BY DEF Remap, LoopOver, Goto
<1>2. /\ batch.i \in 1 .. batch.want /\ Len(batch.offset) = batch.want
      /\ batch.offset \in Seq(Nat) /\ batch.want \in Nat
  BY <1>1, SizesAssumption DEF LocalInv, MigratorOK, TypeOK, BatchRecord
<1>3. <<dst, off>> \in Frame
  BY <1>2 DEF Frame, Target, Tier
<1>4. \A v \in VA : vm[v] \in Frame => vm'[v] \in Frame
  BY <1>1, <1>3 DEF TypeOK
<1>5. \A p \in Page : Stable(p)
  <2>1. pg \in [Page -> PageRecord]
    BY DEF TypeOK
  <2> HIDE DEF h, off, dst
  <2> QED
    BY <1>1, <2>1 DEF Stable, PageRecord
<1> QED
  BY <1>1, <1>4, <1>5, MigratorSteps

\* Restore: the freed entry was not present before.
LEMMA RestoreTrack ==
  ASSUME Known, TrackInv, Restore
  PROVE  TrackInv'
<1> USE ThreadsAssumption DEF Thread, Known
<1> DEFINE m == batch.next[batch.i]
           off == batch.offset[batch.i]
           b == FreedTier(batch.to) = "dram"
<1>1. /\ pc[Migrator] = "restore" /\ UNCHANGED <<hashed, call, cur, panic, vm>>
      /\ pg' = [pg EXCEPT ![m].devdax_offset = off, ![m].present = FALSE, ![m].in_dram = b]
      /\ \E label : pc' = [pc EXCEPT ![Migrator] = label]
  BY DEF Restore, Goto
<1>2. Running
  BY <1>1, Alive
<1>3. batch.i \in BatchNexts
  BY <1>1, SizesAssumption DEF LocalInv, MigratorOK, TypeOK, BatchRecord, BatchNexts
<1>4. ~pg[m].present
  <2>1. Fits(pg, m, FreeList(Target(batch.to)))
    BY <1>1, <1>2, <1>3 DEF KindInv, BatchOK, NextOK
  <2>2. FreeList(Target(batch.to)) \in FreeLists
    BY ListKinds DEF Target, Tier
  <2> QED
    BY <2>1, <2>2 DEF Fits
<1>5. \A p \in Page : Stable(p)
  <2>1. pg \in [Page -> PageRecord]
    BY DEF TypeOK
  <2> HIDE DEF m, off, b
  <2> QED
    BY <1>1, <1>4, <2>1 DEF Stable, PageRecord
<1> QED
  BY <1>1, <1>5, MigratorSteps

-----------------------------------------------------------------------------
(* Every step, and the theorems.                                             *)

\* Nothing is tracked and nobody works when the library starts.
LEMMA InitTrack == Init => TrackInv
<1> USE ThreadsAssumption DEF Thread, FaultThread, Migrator, Caller
<1> SUFFICES ASSUME Init PROVE TrackInv
  OBVIOUS
<1>1. /\ \A t \in App : pc[t] = "idle"
      /\ pc[FaultThread] = "poll" /\ hashed = {} /\ panic = "none"
  BY DEF Init
<1>2. \A t \in Caller : ~Fills(t) /\ ~Has(t) /\ ~Unmaps(t)
  BY <1>1 DEF Fills, Has, Unmaps
<1> QED
  BY <1>1, <1>2
  DEF TrackInv, Track, FillOK, HasOK, UnmapOK, WaitOK, ServeOK, TableOK, HandsApart,
      RegionsApart, InRegion

\* An allocation tracks its page under an address that no other page has.
LEMMA AllocationTrack ==
  ASSUME Known, TrackInv, NEW t \in Caller, Allocation(t)
  PROVE  TrackInv'
<1>1. "dram" \in Tier /\ "nvm" \in Tier
  BY DEF Tier
<1> QED
  BY <1>1, AllocateTrack, PlaceTrack, MapTrack, PublishTrack, AddPageTrack DEF Allocation

\* Every step keeps addresses apart.
LEMMA NextTrack ==
  ASSUME Known, TrackInv, [Next]_vars
  PROVE  TrackInv'
<1>1. ASSUME NEW t \in App, Calls(t) PROVE TrackInv'
  BY <1>1, MmapTrack, TouchTrack, MunmapTrack, RequestTrack DEF Calls
<1>2. ASSUME NEW t \in App, AppStep(t) PROVE TrackInv'
  BY <1>2, AllocationTrack, LoadCounterTrack, StoreCounterTrack, RemovePageTrack,
     UncountPageTrack, UnmapTrack, ChooseTrack, RotateTrack, RotateBackTrack, TakeTrack,
     QueueTrack, RequestDoneTrack
  DEF AppStep, Counting, Caller, Thread
<1>3. ASSUME FaultStep PROVE TrackInv'
  BY <1>3, ReadFaultTrack, AllocationTrack, WakeTrack DEF FaultStep, Caller
<1>4. ASSUME MigratorStep PROVE TrackInv'
  BY <1>4, MigratorReadsTrack, RemapTrack, RestoreTrack, LoadCounterTrack
  DEF MigratorStep, Counting, Thread
<1>5. CASE UNCHANGED vars
  <2>1. CASE Running
    <3>1. UNCHANGED <<pg, vm, panic, hashed, call, cur, pc>>
      BY <1>5 DEF vars
    <3>2. (\A p \in Page : Stable(p)) /\ \A u \in Caller : Same(u)
      BY <3>1 DEF Stable, Same
    <3>3. Track'
      BY <2>1, <3>1, <3>2, MigratorTrack DEF Known, TrackInv
    <3> QED
      BY <3>1, <3>3 DEF TrackInv
  <2>2. CASE ~Running
    BY <1>5, <2>2 DEF vars, TrackInv, Running
  <2> QED
    BY <2>1, <2>2
<1> QED
  BY <1>1, <1>2, <1>3, <1>4, <1>5 DEF Next

\* Threads that fill and unmap stay apart, and so do tracked addresses, in
\* every reachable state.
THEOREM TrackInvariant == Spec => [](Known /\ TrackInv)
<1>1. Init => TrackInv
  BY InitTrack
<1>2. IInv /\ OwnInv /\ KindInv => Known
  BY DEF IInv, CountInv, Known
<1>3. Known /\ TrackInv /\ [Next]_vars => TrackInv'
  BY NextTrack
<1> QED
  BY <1>1, <1>2, <1>3, KindInvariant, PTL DEF Spec

\* No assertion on the flags of a page fails, and add_page never finds the
\* address of its page in the table: whatever the interleaving of populating
\* mmaps, missing-page faults, munmaps, requests and migrations.
THEOREM PageAssertionsNeverFail == Spec => []FlagAssertionsHold
<1>1. Known /\ TrackInv => FlagAssertionsHold
  BY DEF Known, KindInv, WrongKind, TrackInv, FlagAssertionsHold
<1> QED
  BY <1>1, TrackInvariant, PTL

\* No two pages in the hash table have the same address, and every tracked
\* address is mapped to a frame.
THEOREM TrackedOnce ==
  Spec => [](Running => \A p, q \in hashed : /\ pg[p].va = pg[q].va => p = q
                                           /\ vm[pg[p].va] \in Frame)
<1>1. TrackInv => (Running => \A p, q \in hashed : /\ pg[p].va = pg[q].va => p = q
                                                 /\ vm[pg[p].va] \in Frame)
  BY DEF TrackInv, Track, TableOK
<1> QED
  BY <1>1, TrackInvariant, PTL

-----------------------------------------------------------------------------
(* Steps that leave pages, mappings and the table alone.                    *)

\* No page is mapped, published, put in the table or taken out of it.
Aside ==
  /\ UNCHANGED <<pg, vm, hashed>>
  /\ \A u \in Caller : Backed(u)' => Backed(u) /\ call'[u].va = call[u].va /\ cur'[u] = cur[u]
  /\ \A u \in Caller : pc[u] = "add" => pc'[u] = "add" /\ cur'[u] = cur[u]
  /\ \A u \in Caller : pc'[u] = "map" => pc[u] = "map" /\ cur'[u] = cur[u]

Died == \E why : why # "none" /\ Panic(why)

\* The steps that do none of this, each as its module has it.
OtherAppStep(t) ==
  \/ \E v \in VA : Touch(t, v)
  \/ \E lo, hi \in VA : lo <= hi /\ Munmap(t, lo, hi)
  \/ \E to \in Kinds, n \in 1 .. MaxPagesNum, random \in BOOLEAN : Request(t, to, n, random)
  \/ Counting(t) \/ UncountPage(t)
  \/ Choose(t) \/ Rotate(t) \/ RotateBack(t) \/ Take(t) \/ Queue(t) \/ RequestDone(t)
AnyAllocate(t) == Allocate(t, "dram") \/ Allocate(t, "nvm")
OtherFaultStep == (\E t \in App : ReadFault(t)) \/ Wake
OtherMigratorStep == \/ Scan \/ TakePage \/ TakeNext \/ Protect \/ Copy \/ RestoreNext
                     \/ Counting(Migrator)

\* A step of thread t alone.
LEMMA AsideOne ==
  ASSUME UNCHANGED <<pg, vm, hashed>>, NEW t, \A u \in Caller \ {t} : Same(u),
         t \in Caller => pc[t] # "add" /\ pc'[t] # "map",
         t \in Caller /\ Backed(t)' => Backed(t) /\ call'[t].va = call[t].va /\ cur'[t] = cur[t]
  PROVE  Aside
<1>1. \A u \in Caller \ {t} : Backed(u)' = Backed(u)
  BY DEF Backed, Has, Same
<1> QED
  BY <1>1 DEF Aside, Same

\* pebs_allocate_page up to the dequeue, or the death of the process.
LEMMA AllocateAside ==
  ASSUME Known, NEW t \in Caller, AnyAllocate(t)
  PROVE  Aside \/ Died
<1> USE ThreadsAssumption DEF Known, Caller, Thread
<1>1. SUFFICES ASSUME ~Died PROVE Aside
  OBVIOUS
<1>2. ~Panic("out of memory") /\ ~Panic("free page of the wrong kind")
  BY <1>1 DEF Died
<1>3. /\ pc[t] \in {"alloc", "alloc_nvm"} /\ UNCHANGED <<pg, vm, hashed, call>>
      /\ \E label \in {"alloc_nvm", "place"} : pc' = [pc EXCEPT ![t] = label]
      /\ cur' = cur \/ \E p : cur' = [cur EXCEPT ![t] = p]
  BY <1>2 DEF AnyAllocate, Allocate, Goto
<1>4. \A u \in Caller \ {t} : Same(u)
  BY <1>3 DEF Same, TypeOK
<1>5. pc'[t] \in {"alloc_nvm", "place"}
  BY <1>3 DEF TypeOK
<1> QED
  BY <1>3, <1>4, <1>5, AsideOne DEF Backed, Has

\* The calls but mmap, the counters and the steps of a request.
LEMMA OtherAppAside ==
  ASSUME Known, NEW t \in App, OtherAppStep(t)
  PROVE  Aside \/ Died
<1> USE ThreadsAssumption DEF Known, Caller, Thread, Goto
<1>1. ASSUME NEW v \in VA, Touch(t, v) PROVE Aside
  <2>1. /\ pc[t] = "idle" /\ pc'[t] = "faulting" /\ UNCHANGED <<pg, vm, hashed>>
        /\ \A u \in Caller \ {t} : Same(u)
    BY <1>1 DEF Touch, Same, TypeOK
  <2> QED
    BY <2>1, AsideOne DEF Backed, Has
<1>2. ASSUME NEW lo \in VA, NEW hi \in VA, Munmap(t, lo, hi) PROVE Aside
  <2>1. /\ pc[t] = "idle" /\ pc'[t] = "munmap" /\ UNCHANGED <<pg, vm, hashed>>
        /\ \A u \in Caller \ {t} : Same(u)
    BY <1>2 DEF Munmap, Same, TypeOK
  <2> QED
    BY <2>1, AsideOne DEF Backed, Has
<1>3. ASSUME NEW to, NEW n, NEW random, Request(t, to, n, random) PROVE Aside
  <2>1. /\ pc[t] = "idle" /\ pc'[t] = "request" /\ UNCHANGED <<pg, vm, hashed>>
        /\ \A u \in Caller \ {t} : Same(u)
    BY <1>3 DEF Request, Same, TypeOK
  <2> QED
    BY <2>1, AsideOne DEF Backed, Has
<1>4. CASE LoadCounter(t)
  <2>1. UNCHANGED <<pg, vm, hashed, pc, call, cur>> /\ pc[t] = "count"
    BY <1>4 DEF LoadCounter
  <2> QED
    BY <2>1 DEF Aside, Backed, Has
<1>5. CASE StoreCounter(t)
  <2>1. /\ UNCHANGED <<pg, vm, hashed, call, cur>> /\ pc[t] = "count"
        /\ pc' = pc \/ pc' = [pc EXCEPT ![t] = AfterCounting(t)]
    BY <1>5 DEF StoreCounter
  <2>2. /\ \A u \in Caller \ {t} : Same(u)
        /\ pc'[t] = "count" \/ pc'[t] = AfterCounting(t)
    BY <2>1 DEF Same, TypeOK
  <2>3. /\ AfterCounting(t) \in {"request", "publish", "munmap"}
        /\ AfterCounting(t) = "publish" => call[t].op = "mmap"
    BY DEF AfterCounting
  <2>4. Backed(t)' => Backed(t)
    BY <2>1, <2>2, <2>3 DEF Backed, Has
  <2>5. pc[t] # "add" /\ pc'[t] # "map"
    BY <2>1, <2>2, <2>3
  <2> QED
    BY <2>1, <2>2, <2>4, <2>5, AsideOne
<1>6. CASE UncountPage(t)
  <2>1. /\ pc[t] = "removed" /\ pc'[t] = "count" /\ UNCHANGED <<pg, vm, hashed, call>>
        /\ \A u \in Caller \ {t} : Same(u)
    BY <1>6 DEF UncountPage, StartCounting, Same, TypeOK
  <2>2. call'[t].op = "munmap"
    BY <2>1 DEF LocalInv, AppOK
  <2> QED
    BY <2>1, <2>2, AsideOne DEF Backed, Has
<1>7. ASSUME UNCHANGED <<pg, vm, hashed>>, \A u \in Caller \ {t} : Same(u),
             pc[t] \in RequestLabel, call'[t].op = call[t].op,
             pc'[t] \in RequestLabel \cup {"count", "idle"}
      PROVE Aside
  <2>1. call[t].op = "request"
    BY <1>7 DEF LocalInv, AppOK
  <2> QED
    BY <1>7, <2>1, AsideOne DEF Backed, Has, RequestLabel
<1>8. CASE Choose(t)
  <2>1. SUFFICES ASSUME ~Panic("division by zero") PROVE Aside
    BY DEF Died
  <2>2. PICK c : /\ pc[t] = "request" /\ UNCHANGED <<pg, vm, hashed, cur>>
                 /\ call' = [call EXCEPT ![t].choose = c]
                 /\ pc' = [pc EXCEPT ![t] = IF c = 0 THEN "take" ELSE "rotate"]
    BY <1>8, <2>1 DEF Choose
  <2>3. /\ pc'[t] \in RequestLabel /\ call'[t].op = call[t].op
        /\ \A u \in Caller \ {t} : Same(u)
    BY <2>2 DEF Same, TypeOK, CallRecord, RequestLabel
  <2> QED
    BY <1>7, <2>2, <2>3 DEF RequestLabel
<1>9. CASE Rotate(t)
  <2>1. SUFFICES ASSUME ~Panic("NULL enqueued") PROVE Aside
    BY DEF Died
  <2>2. PICK p : /\ pc[t] = "rotate" /\ UNCHANGED <<pg, vm, hashed>>
                 /\ cur' = [cur EXCEPT ![t] = p]
                 /\ call' = [call EXCEPT ![t].choose = @ - 1]
                 /\ pc' = [pc EXCEPT ![t] = "rotate_back"]
    BY <1>9, <2>1 DEF Rotate
  <2>3. /\ pc'[t] \in RequestLabel /\ call'[t].op = call[t].op
        /\ \A u \in Caller \ {t} : Same(u)
    BY <2>2 DEF Same, TypeOK, CallRecord, RequestLabel
  <2> QED
    BY <1>7, <2>2, <2>3 DEF RequestLabel
<1>10. CASE RotateBack(t)
  <2>1. /\ pc[t] = "rotate_back" /\ UNCHANGED <<pg, vm, hashed, call>>
        /\ cur' = [cur EXCEPT ![t] = NoPage]
        /\ pc' = [pc EXCEPT ![t] = IF call[t].choose = 0 THEN "take" ELSE "rotate"]
    BY <1>10 DEF RotateBack
  <2>2. /\ pc'[t] \in RequestLabel /\ call'[t].op = call[t].op
        /\ \A u \in Caller \ {t} : Same(u)
    BY <2>1 DEF Same, TypeOK, RequestLabel
  <2> QED
    BY <1>7, <2>1, <2>2 DEF RequestLabel
<1>11. CASE Take(t)
  <2>1. SUFFICES ASSUME ~Panic("mapped page of the wrong kind") PROVE Aside
    BY DEF Died
  <2>2. /\ pc[t] \in {"request", "take"} /\ UNCHANGED <<pg, vm, hashed>>
        /\ cur' = cur \/ \E p : cur' = [cur EXCEPT ![t] = p]
        /\ call' = [call EXCEPT ![t].left = @ - 1]
        /\ \E label \in {"request", "queue"} : pc' = [pc EXCEPT ![t] = label]
    BY <1>11, <2>1 DEF Take, NextIteration
  <2>3. pc'[t] \in RequestLabel /\ \A u \in Caller \ {t} : pc'[u] = pc[u]
    BY <2>2 DEF TypeOK, RequestLabel
  <2>4. call'[t].op = call[t].op /\ \A u \in Caller \ {t} : call'[u] = call[u]
    BY <2>2 DEF TypeOK, CallRecord
  <2>5. \A u \in Caller \ {t} : cur'[u] = cur[u]
    BY <2>2 DEF TypeOK
  <2> QED
    BY <1>7, <2>2, <2>3, <2>4, <2>5 DEF RequestLabel, Same
<1>12. CASE Queue(t)
  <2>1. /\ pc[t] = "queue" /\ UNCHANGED <<pg, vm, hashed, call>>
        /\ cur' = [cur EXCEPT ![t] = NoPage]
        /\ pc' = [pc EXCEPT ![t] = "count"]
    BY <1>12 DEF Queue, StartCounting
  <2>2. /\ pc'[t] = "count" /\ call'[t].op = call[t].op
        /\ \A u \in Caller \ {t} : Same(u)
    BY <2>1 DEF Same, TypeOK
  <2> QED
    BY <1>7, <2>1, <2>2 DEF RequestLabel
<1>13. CASE RequestDone(t)
  <2>1. /\ pc[t] = "request" /\ UNCHANGED <<pg, vm, hashed, call, cur>>
        /\ pc' = [pc EXCEPT ![t] = "idle"]
    BY <1>13 DEF RequestDone
  <2>2. /\ pc'[t] = "idle" /\ call'[t].op = call[t].op
        /\ \A u \in Caller \ {t} : Same(u)
    BY <2>1 DEF Same, TypeOK
  <2> QED
    BY <1>7, <2>1, <2>2 DEF RequestLabel
<1> QED
  BY <1>1, <1>2, <1>3, <1>4, <1>5, <1>6, <1>8, <1>9, <1>10, <1>11, <1>12, <1>13
  DEF OtherAppStep, Counting

\* Reading a fault and waking the threads that wait for it.
LEMMA OtherFaultAside ==
  ASSUME Known, OtherFaultStep
  PROVE  Aside
<1> USE ThreadsAssumption DEF Known, Caller, Thread, Goto
<1>1. ASSUME NEW t \in App, ReadFault(t) PROVE Aside
  <2>1. /\ pc[FaultThread] = "poll" /\ pc'[FaultThread] = "alloc"
        /\ UNCHANGED <<pg, vm, hashed>> /\ \A u \in Caller \ {FaultThread} : Same(u)
    BY <1>1 DEF ReadFault, Same, TypeOK
  <2> QED
    BY <2>1, AsideOne DEF Backed, Has
<1>2. CASE Wake
  <2>1. /\ UNCHANGED <<pg, vm, hashed, call, cur>> /\ pc[FaultThread] = "wake"
        /\ \A u \in Caller : \/ pc'[u] = pc[u]
                             \/ pc[u] \in {"wake", "faulting"} /\ pc'[u] \in {"poll", "idle"}
    BY <1>2 DEF Wake, WaitsFor
  <2> QED
    BY <2>1 DEF Aside, Backed, Has
<1> QED
  BY <1>1, <1>2 DEF OtherFaultStep

\* The migration thread, but for remapping and freeing.
LEMMA OtherMigratorAside ==
  ASSUME Known, OtherMigratorStep
  PROVE  Aside \/ Died
<1> USE ThreadsAssumption DEF Known, Caller, Thread, Goto, FaultThread, Migrator
<1>1. SUFFICES ASSUME ~Died PROVE Aside
  OBVIOUS
<1>2. /\ UNCHANGED <<pg, vm, hashed, call, cur>>
      /\ pc' = pc \/ \E label : pc' = [pc EXCEPT ![Migrator] = label]
  <2>1. CASE Scan
    BY <2>1 DEF Scan
  <2>2. CASE TakePage
    BY <1>1, <2>2 DEF TakePage, Died
  <2>3. CASE TakeNext
    BY <1>1, <2>3 DEF TakeNext, Died
  <2>4. CASE Protect
    BY <1>1, <2>4 DEF Protect, Died, LoopOver
  <2>5. CASE Copy
    BY <1>1, <2>5 DEF Copy, Died
  <2>6. CASE RestoreNext
    BY <2>6 DEF RestoreNext, StartCounting
  <2>7. CASE Counting(Migrator)
    BY <2>7 DEF Counting, LoadCounter, StoreCounter
  <2> QED
    BY <2>1, <2>2, <2>3, <2>4, <2>5, <2>6, <2>7 DEF OtherMigratorStep
<1>3. \A u \in Caller : pc'[u] = pc[u]
  BY <1>2 DEF TypeOK
<1> QED
  BY <1>2, <1>3 DEF Aside, Backed, Has

\* Every step of Next is one of these.
LEMMA StepKinds ==
  ASSUME Known, Next
  PROVE  \/ Aside \/ Died
         \/ \E t \in App : \/ \E lo, hi \in VA, populate \in BOOLEAN : lo <= hi /\ Mmap(t, lo, hi, populate)
                           \/ RemovePage(t) \/ Unmap(t)
         \/ \E t \in Caller : Place(t) \/ Map(t) \/ Publish(t) \/ AddPage(t)
         \/ Remap \/ Restore
<1> USE DEF Caller
<1>1. ASSUME NEW t \in App, Calls(t)
      PROVE  \/ OtherAppStep(t)
             \/ \E lo, hi \in VA, populate \in BOOLEAN : lo <= hi /\ Mmap(t, lo, hi, populate)
  BY <1>1 DEF Calls, OtherAppStep
<1>2. ASSUME NEW t \in App, AppStep(t)
      PROVE  \/ OtherAppStep(t) \/ AnyAllocate(t) \/ RemovePage(t) \/ Unmap(t)
             \/ Place(t) \/ Map(t) \/ Publish(t) \/ AddPage(t)
  BY <1>2 DEF AppStep, Allocation, OtherAppStep, AnyAllocate
<1>3. FaultStep => \/ OtherFaultStep \/ AnyAllocate(FaultThread)
                   \/ Place(FaultThread) \/ Map(FaultThread) \/ Publish(FaultThread)
                   \/ AddPage(FaultThread)
  BY DEF FaultStep, OtherFaultStep, Allocation, AnyAllocate
<1>4. MigratorStep => OtherMigratorStep \/ Remap \/ Restore
  BY DEF MigratorStep, OtherMigratorStep
<1> QED
  BY <1>1, <1>2, <1>3, <1>4, OtherAppAside, OtherFaultAside, OtherMigratorAside, AllocateAside
  DEF Next

\* A dead process takes no step.
LEMMA OnlyRunning ==
  ASSUME Known, Next
  PROVE  Running
<1> USE ThreadsAssumption, Alive DEF Known, Thread
<1>1. ASSUME NEW t \in Thread, LoadCounter(t) \/ StoreCounter(t) PROVE Running
  BY <1>1 DEF LoadCounter, StoreCounter
<1>2. ASSUME NEW t \in Thread, Allocation(t) PROVE Running
  BY <1>2 DEF Allocation, Allocate, Place, Map, Publish, AddPage
<1>3. ASSUME NEW t \in App, Calls(t) PROVE Running
  BY <1>3 DEF Calls, Mmap, Touch, Munmap, Request
<1>4. ASSUME NEW t \in App, AppStep(t) PROVE Running
  BY <1>1, <1>2, <1>4
  DEF AppStep, Counting, RemovePage, UncountPage, Unmap, Choose, Rotate, RotateBack, Take, Queue,
      RequestDone
<1>5. FaultStep => Running
  BY <1>2 DEF FaultStep, ReadFault, Wake
<1>6. MigratorStep => Running
  BY <1>1
  DEF MigratorStep, Counting, Scan, TakePage, TakeNext, Protect, Copy, Remap, Restore, RestoreNext
<1> QED
  BY <1>3, <1>4, <1>5, <1>6 DEF Next

-----------------------------------------------------------------------------
(* The application makes the calls in Ops, and no others.                   *)

OpsOK == \A t \in App : call[t].op \in Ops \cup {"none"}

\* No call has been made when the library starts.
LEMMA InitOps == Init => OpsOK
  BY ThreadsAssumption DEF Init, OpsOK, NoCall, RegionCall, Thread

\* Every step keeps to the calls in Ops.
LEMMA NextOps ==
  ASSUME Known, OpsOK, [Next]_vars
  PROVE  OpsOK'
<1> USE ThreadsAssumption DEF Known, Thread, Caller
<1>1. ASSUME NEW t \in App, Calls(t) PROVE OpsOK'
  <2>1. call'[t].op \in Ops /\ (\A u \in App \ {t} : call'[u] = call[u]) => OpsOK'
    BY DEF OpsOK
  <2>3. ASSUME NEW lo, NEW hi, NEW populate, Mmap(t, lo, hi, populate) PROVE OpsOK'
    <3>1. call'[t] = RegionCall("mmap", lo, hi) /\ "mmap" \in Ops /\ \A u \in App \ {t} : call'[u] = call[u]
      BY <2>3 DEF Mmap, TypeOK
    <3> QED
      BY <2>1, <3>1 DEF RegionCall
  <2>4. ASSUME NEW v, Touch(t, v) PROVE OpsOK'
    <3>1. call'[t] = RegionCall("touch", v, v) /\ "touch" \in Ops /\ \A u \in App \ {t} : call'[u] = call[u]
      BY <2>4 DEF Touch, TypeOK
    <3> QED
      BY <2>1, <3>1 DEF RegionCall
  <2>5. ASSUME NEW lo, NEW hi, Munmap(t, lo, hi) PROVE OpsOK'
    <3>1. call'[t] = RegionCall("munmap", lo, hi) /\ "munmap" \in Ops /\ \A u \in App \ {t} : call'[u] = call[u]
      BY <2>5 DEF Munmap, TypeOK
    <3> QED
      BY <2>1, <3>1 DEF RegionCall
  <2>6. ASSUME NEW to, NEW n, NEW random, Request(t, to, n, random) PROVE OpsOK'
    <3>1. call'[t] = RequestCall(to, n, random) /\ "request" \in Ops /\ \A u \in App \ {t} : call'[u] = call[u]
      BY <2>6 DEF Request, TypeOK
    <3> QED
      BY <2>1, <3>1 DEF RequestCall
  <2> QED
    BY <1>1, <2>3, <2>4, <2>5, <2>6 DEF Calls
<1>2. ASSUME NEW t \in Thread,
             \/ call' = call
             \/ call' = [call EXCEPT ![t].va = @ + 1]
             \/ call' = [call EXCEPT ![t].left = @ - 1]
             \/ \E c : call' = [call EXCEPT ![t].choose = c]
             \/ t = FaultThread /\ \E r : call' = [call EXCEPT ![t] = r]
      PROVE  OpsOK'
  <2>1. call \in [Thread -> CallRecord]
    BY DEF TypeOK
  <2>2. \A u \in App : call'[u].op = call[u].op
    BY <1>2, <2>1 DEF CallRecord
  <2> QED
    BY <2>2 DEF OpsOK
<1>3. ASSUME NEW t \in Caller, Allocation(t) PROVE OpsOK'
  BY <1>2, <1>3 DEF Allocation, Allocate, Place, Map, Publish, AddPage, Panic
<1>4. ASSUME NEW t \in Thread, Counting(t) PROVE OpsOK'
  BY <1>2, <1>4 DEF Counting, LoadCounter, StoreCounter
<1>5. ASSUME NEW t \in App, AppStep(t) PROVE OpsOK'
  <2>1. CASE RemovePage(t) \/ UncountPage(t) \/ Unmap(t)
    BY <1>2, <2>1 DEF RemovePage, UncountPage, Unmap
  <2>2. CASE Choose(t) \/ Queue(t) \/ RequestDone(t)
    BY <1>2, <2>2 DEF Choose, Queue, RequestDone, Panic
  <2>3. CASE Rotate(t)
    <3>1. call' = call \/ \E c : call' = [call EXCEPT ![t].choose = c]
      BY <2>3 DEF Rotate, Panic
    <3> QED
      BY <1>2, <3>1
  <2>4. CASE RotateBack(t) \/ Take(t)
    BY <1>2, <2>4 DEF RotateBack, Take, NextIteration, Panic
  <2> QED
    BY <1>3, <1>4, <1>5, <2>1, <2>2, <2>3, <2>4 DEF AppStep
<1>6. FaultStep => OpsOK'
  BY <1>2, <1>3 DEF FaultStep, ReadFault, Wake
<1>7. MigratorStep => OpsOK'
  BY <1>2, <1>4
  DEF MigratorStep, Scan, TakePage, TakeNext, Protect, Copy, Remap, Restore, RestoreNext, Panic
<1>8. UNCHANGED vars => OpsOK'
  BY DEF vars, OpsOK
<1> QED
  BY <1>1, <1>5, <1>6, <1>7, <1>8 DEF Next

\* Without a call nobody is in it.
LEMMA NobodyCalls ==
  ASSUME Known, OpsOK, NEW t \in App
  PROVE  /\ "munmap" \notin Ops => pc[t] \notin {"munmap", "removed"}
         /\ "request" \notin Ops => pc[t] \notin RequestLabel /\ call[t].op # "request"
  BY DEF Known, LocalInv, AppOK, OpsOK

-----------------------------------------------------------------------------
(* Without requests the migration thread has nothing to do.                 *)

Still == Running => pc[Migrator] = "scan" /\ \A to \in ToList : list[to] = <<>>

\* No page is queued for migration when the library starts.
LEMMA InitStill == Init => Still
  BY ThreadsAssumption DEF Init, Still, ToList, Thread, List, FaultThread, Migrator

\* Application threads that are not in a request.
NoRequests == \A t \in App : /\ pc[t] \notin RequestLabel
                             /\ pc[t] = "count" => call[t].op # "request"

\* Then the migration thread finds that the counter it reads is zero.
LEMMA StillScans ==
  ASSUME Known, CountInv, Still, Running, NoRequests, MigratorStep
  PROVE  Scan /\ num[batch.to] = 0
<1> USE ThreadsAssumption DEF Known, Thread, Caller, FaultThread, Migrator
<1>1. pc[Migrator] = "scan" /\ \A to \in ToList : list[to] = <<>>
  BY DEF Still
<1>2. Scan
  BY <1>1
  DEF MigratorStep, Counting, LoadCounter, StoreCounter, TakePage, TakeNext, Protect, Copy,
      Remap, Restore, RestoreNext
<1>3. batch.to \in ToList /\ batch.page = <<>>
  BY <1>1 DEF LocalInv, MigratorOK, TypeOK, BatchRecord, EmptyBatch
<1>4. Uncounted(batch.to) = {}
  BY DEF Uncounted, NoRequests
<1>5. num[batch.to] = Len(list[batch.to]) + InBatch(batch.to) - Cardinality(Uncounted(batch.to))
  BY <1>3 DEF CountInv, QueueCountExact
<1>6. Len(list[batch.to]) = 0 /\ InBatch(batch.to) = 0
  BY <1>1, <1>3 DEF InBatch
<1> QED
  BY <1>2, <1>4, <1>5, <1>6, FS_EmptySet

\* Without requests the counter the migration thread waits on stays zero.
LEMMA NextStill ==
  ASSUME NoRequests, Known, CountInv, Still, [Next]_vars
  PROVE  Still'
<1> USE ThreadsAssumption DEF Known, Thread, Caller, FaultThread, Migrator
<1>1. CASE UNCHANGED vars
  BY <1>1 DEF vars, Still, Running
<1>2. SUFFICES ASSUME Next, Running' PROVE Still'
  BY <1>1 DEF Still
<1>3. pc[Migrator] = "scan" /\ \A to \in ToList : list[to] = <<>>
  BY <1>2, OnlyRunning DEF Still
<1>4. ~Died
  BY <1>2 DEF Died, Panic, Running
<1>5. \A t \in App : pc[t] \notin RequestLabel
  BY DEF NoRequests
<1>6. ASSUME pc'[Migrator] = pc[Migrator],
             \/ list' = list
             \/ \E l \in List \ ToList : \E s : list' = [list EXCEPT ![l] = s]
      PROVE  Still'
  BY <1>3, <1>6 DEF TypeOK, Still, List
<1>7. ASSUME NEW t \in App, Calls(t) PROVE Still'
  BY <1>6, <1>7 DEF Calls, Mmap, Touch, Munmap, Request, Goto, TypeOK
<1>8. ASSUME NEW t \in Caller, Allocation(t) PROVE Still'
  <2>1. /\ pc'[Migrator] = pc[Migrator]
        /\ \/ list' = list
           \/ \E l \in List \ ToList : \E s : list' = [list EXCEPT ![l] = s]
    BY <1>4, <1>8, ListNames
    DEF Allocation, Allocate, Place, Map, Publish, AddPage, Goto, StartCounting, Enqueue, Dequeue,
        TypeOK, Died
  <2> QED
    BY <1>6, <2>1
<1>9. ASSUME NEW t \in App, AppStep(t) PROVE Still'
  <2>1. CASE Counting(t) \/ RemovePage(t) \/ UncountPage(t) \/ Unmap(t)
    BY <1>6, <2>1
    DEF Counting, LoadCounter, StoreCounter, RemovePage, UncountPage, Unmap, Goto, StartCounting,
        TypeOK
  <2> QED
    BY <1>5, <1>8, <1>9, <2>1
    DEF AppStep, Choose, Rotate, RotateBack, Take, Queue, RequestDone, RequestLabel
<1>10. FaultStep => Still'
  <2>1. ASSUME NEW t \in App, ReadFault(t) PROVE Still'
    BY <1>6, <2>1 DEF ReadFault, Goto, TypeOK
  <2>2. CASE Wake
    <3>1. list' = list /\ pc'[Migrator] = pc[Migrator]
      BY <2>2, <1>3 DEF Wake, WaitsFor
    <3> QED
      BY <1>6, <3>1
  <2> QED
    BY <1>8, <2>1, <2>2 DEF FaultStep
<1>11. MigratorStep => Still'
  <2>2. MigratorStep => Scan /\ num[batch.to] = 0
    BY <1>2, StillScans, OnlyRunning
  <2>3. Scan /\ num[batch.to] = 0 => UNCHANGED <<pc, list>>
    BY DEF Scan
  <2> QED
    BY <1>6, <2>2, <2>3
<1> QED
  BY <1>2, <1>7, <1>9, <1>10, <1>11 DEF Next

-----------------------------------------------------------------------------
(* Tracked pages and mappings agree.                                        *)

\* What the kernel maps at the address of a page is the frame the page names,
\* for tracked pages and for those that a thread is about to track.
Match ==
  /\ \A p \in hashed : vm[pg[p].va] = FrameOf(p)
  /\ \A t \in Caller : Backed(t) => vm[call[t].va] = FrameOf(cur[t])

\* A page that has been given an address is in the table or about to be, and
\* the batch pages that Protect has passed have one.
KnownVa ==
  /\ \A p \in Page : pg[p].va # 0 => p \in hashed \/ \E t \in Caller : pc[t] = "add" /\ cur[t] = p
  /\ \A j \in 1 .. Len(batch.page) :
       \/ pc[Migrator] \in {"copy", "remap"}
       \/ pc[Migrator] = "protect" /\ j < batch.i
       => pg[batch.page[j]].va # 0

\* Without migrations every page keeps its own frame, and a frame that is
\* mapped is mapped once, for a page that nobody is about to map.
Placed ==
  /\ \A p \in Page : FrameOf(p) = p
  /\ \A v \in VA : vm[v] \in Frame =>
       /\ vm[v] \in Page /\ pg[vm[v]].present
       /\ \A t \in Caller : pc[t] = "map" => cur[t] # vm[v]
  /\ FramesDistinct

\* Two threads never fill the same address.
LEMMA FillersApart ==
  ASSUME TypeOK, LocalInv, Track, NEW t \in Caller, NEW u \in Caller, t # u, Fills(t), Fills(u)
  PROVE  call[t].va # call[u].va
<1> USE DEF Caller
<1>1. ASSUME NEW r \in Caller, NEW w \in App, r # w, Fills(r), Fills(w)
      PROVE  call[r].va # call[w].va
  <2>1. call[w].op = "mmap" /\ pc[w] # "idle"
    BY <1>1, Parts
  <2>2. call[r].va \notin call[w].lo .. call[w].hi
    BY <1>1, <2>1, FillsAlone
  <2>3. call[w].va \in call[w].lo .. call[w].hi
    BY <1>1 DEF Track, FillOK, TypeOK, CallRecord, Thread, VA
  <2> QED
    BY <2>2, <2>3
<1> QED
  BY <1>1

\* What a thread that unmaps its region removes is used by nobody.
LEMMA UnmapsUnused ==
  ASSUME Known, Track, NEW t \in App, pc[t] = "munmap", call[t].va > call[t].hi,
         NEW v \in VA, Used(v)
  PROVE  v \notin call[t].lo .. call[t].hi
<1> USE ThreadsAssumption DEF Thread, Known
<1>1. call[t].op = "munmap" /\ Unmaps(t) /\ ~Fills(t)
  BY DEF LocalInv, AppOK, Unmaps, Fills, Has
<1>2. call[t].va \in Nat /\ call[t].hi \in Nat /\ call[t].lo \in Nat
  BY DEF TypeOK, CallRecord
<1>3. Tracked(v) => v \notin call[t].lo .. call[t].hi
  BY <1>1, <1>2 DEF Track, UnmapOK
<1>4. ASSUME NEW u \in Caller, Backed(u), call[u].va = v PROVE v \notin call[t].lo .. call[t].hi
  <2>1. Fills(u) /\ u # t
    BY <1>1, <1>4 DEF Backed, Fills
  <2> QED
    BY <1>1, <1>4, <2>1, FillsAlone
<1> QED
  BY <1>3, <1>4 DEF Used

\* A step that leaves used addresses and present pages alone.
LEMMA KeepsMatch ==
  ASSUME Known, Track, Match, hashed' \subseteq hashed,
         \A p \in Page : pg[p].present => FrameOf(p)' = FrameOf(p),
         \A p \in hashed : pg'[p].va = pg[p].va,
         \A v \in VA : Used(v) => vm'[v] = vm[v],
         \A u \in Caller : Backed(u)' => Backed(u) /\ call'[u].va = call[u].va /\ cur'[u] = cur[u]
  PROVE  Match'
<1>1. ASSUME NEW p \in hashed' PROVE vm'[pg'[p].va] = FrameOf(p)'
  <2>1. p \in hashed /\ p \in Page /\ pg[p].present /\ pg[p].va \in VA /\ Used(pg[p].va)
    BY <1>1 DEF Known, TypeOK, Track, TableOK, Used, Tracked
  <2>2. vm[pg[p].va] = FrameOf(p)
    BY <2>1 DEF Match
  <2> QED
    BY <2>1, <2>2
<1>2. ASSUME NEW u \in Caller, Backed(u)' PROVE vm'[call'[u].va] = FrameOf(cur[u])' /\ cur'[u] = cur[u]
  <2>1. Backed(u) /\ call'[u].va = call[u].va /\ cur'[u] = cur[u]
    BY <1>2
  <2>2. cur[u] \in Page /\ pg[cur[u]].present /\ call[u].va \in VA /\ Used(call[u].va)
    BY <2>1 DEF Track, HasOK, FillOK, Fills, Backed, Used
  <2>3. vm[call[u].va] = FrameOf(cur[u])
    BY <2>1 DEF Match
  <2> QED
    BY <2>1, <2>2, <2>3
<1> QED
  BY <1>1, <1>2 DEF Match, FrameOf, TierOf

\* The death of the process changes no page, and nobody is left to track one.
LEMMA DiedMatch == ASSUME Match, ThreadsAssumption, Died PROVE Match'
<1>1. UNCHANGED <<hashed, vm, pg>> /\ \A u \in Caller : pc'[u] = "dead"
  BY DEF Died, Panic, Caller, Thread
<1>2. \A u \in Caller : ~Backed(u)'
  BY <1>1 DEF Backed, Has
<1> QED
  BY <1>1, <1>2 DEF Match, FrameOf, TierOf

\* Steps aside leave pages and mappings in agreement.
LEMMA AsideMatch == ASSUME Known, Track, Match, Aside PROVE Match'
<1>1. \A p : FrameOf(p)' = FrameOf(p)
  BY DEF Aside, FrameOf, TierOf
<1> QED
  BY <1>1, KeepsMatch DEF Aside

\* Mmap, RemovePage, Unmap.
LEMMA RegionMatch ==
  ASSUME Known, Track, Match, NEW t \in App,
         \/ \E lo, hi \in VA, populate \in BOOLEAN : lo <= hi /\ Mmap(t, lo, hi, populate)
         \/ RemovePage(t) \/ Unmap(t)
  PROVE  Match'
<1> USE ThreadsAssumption DEF Thread, Known, Caller, Goto
<1>1. ASSUME NEW lo, NEW hi, NEW populate, Mmap(t, lo, hi, populate) PROVE Match'
  <2>1. /\ pc[t] = "idle" /\ UNCHANGED <<pg, hashed, cur>>
        /\ vm' = [v \in VA |-> IF v \in lo .. hi THEN Reserved ELSE vm[v]]
        /\ \A v \in lo .. hi : vm[v] = Unmapped
        /\ \A u \in Caller \ {t} : Same(u)
        /\ pc'[t] \in {"alloc", "idle"}
    BY <1>1 DEF Mmap, Same, TypeOK
  <2>2. \A v \in VA : Used(v) => vm'[v] = vm[v]
    BY <2>1, UsedIsMapped, MarksApart
  <2>3. \A u \in Caller : Backed(u)' => Backed(u) /\ Same(u)
    BY <2>1 DEF Backed, Has, Same
  <2>4. \A p : FrameOf(p)' = FrameOf(p)
    BY <2>1 DEF FrameOf, TierOf
  <2> QED
    BY <2>1, <2>2, <2>3, <2>4, KeepsMatch DEF Same
<1>2. CASE RemovePage(t)
  <2>1. /\ UNCHANGED <<pg, vm>> /\ hashed' \subseteq hashed /\ pc[t] = "munmap"
        /\ pc' = pc \/ pc' = [pc EXCEPT ![t] = "removed"]
        /\ cur' = cur \/ \E p : cur' = [cur EXCEPT ![t] = p]
        /\ call' = [call EXCEPT ![t].va = @ + 1]
    BY <1>2 DEF RemovePage, Untrack
  <2>2. pc'[t] \in {"munmap", "removed"} /\ \A u \in Caller \ {t} : pc'[u] = pc[u]
    BY <2>1 DEF TypeOK
  <2>3. \A u \in Caller \ {t} : cur'[u] = cur[u] /\ call'[u] = call[u]
    BY <2>1 DEF TypeOK
  <2>4. \A u \in Caller : Backed(u)' => u # t /\ Backed(u)
    BY <2>2, <2>3 DEF Backed, Has
  <2>5. \A p : FrameOf(p)' = FrameOf(p)
    BY <2>1 DEF FrameOf, TierOf
  <2> QED
    BY <2>1, <2>3, <2>4, <2>5, KeepsMatch
<1>3. CASE Unmap(t)
  <2>1. /\ UNCHANGED <<pg, hashed, cur, call>> /\ pc[t] = "munmap" /\ call[t].va > call[t].hi
        /\ vm' = [v \in VA |-> IF v \in call[t].lo .. call[t].hi THEN Unmapped ELSE vm[v]]
        /\ pc'[t] = "idle" /\ \A u \in Caller \ {t} : pc'[u] = pc[u]
    BY <1>3 DEF Unmap, TypeOK
  <2>2. \A v \in VA : Used(v) => vm'[v] = vm[v]
    BY <2>1, UnmapsUnused
  <2>3. \A u \in Caller : Backed(u)' => Backed(u)
    BY <2>1 DEF Backed, Has
  <2>4. \A p : FrameOf(p)' = FrameOf(p)
    BY <2>1 DEF FrameOf, TierOf
  <2> QED
    BY <2>1, <2>2, <2>3, <2>4, KeepsMatch
<1> QED
  BY <1>1, <1>2, <1>3

\* Place and Publish write a page that is not in the table, and not its frame.
LEMMA PlaceMatch ==
  ASSUME Known, Track, Match, NEW t \in Caller, Place(t) \/ Publish(t)
  PROVE  Match'
<1> USE ThreadsAssumption DEF Thread, Known, Caller, Goto
<1>1. /\ UNCHANGED <<vm, hashed, cur, call>> /\ pc[t] \in {"place", "publish"}
      /\ \/ pc[t] = "place" /\ pc' = [pc EXCEPT ![t] = "map"]
         \/ pc[t] = "publish" /\ pc' = [pc EXCEPT ![t] = "add"]
      /\ \/ pg' = [pg EXCEPT ![cur[t]].present = TRUE]
         \/ pg' = [pg EXCEPT ![cur[t]].va = call[t].va]
  BY DEF Place, Publish
<1>2. /\ \/ pc[t] = "place" /\ pc'[t] = "map"
         \/ pc[t] = "publish" /\ pc'[t] = "add"
      /\ \A u \in Caller \ {t} : pc'[u] = pc[u]
  <2>1. pc \in [Thread -> Label]
    BY DEF TypeOK
  <2>2. CASE pc[t] = "place" /\ pc' = [pc EXCEPT ![t] = "map"]
    BY <2>1, <2>2
  <2>3. CASE pc[t] = "publish" /\ pc' = [pc EXCEPT ![t] = "add"]
    BY <2>1, <2>3
  <2> QED
    BY <1>1, <2>2, <2>3
<1>3. \A u \in Caller : Backed(u)' => Backed(u)
  BY <1>1, <1>2 DEF Backed, Has
<1>4. cur[t] \in Page \ hashed
  BY <1>1 DEF Track, HasOK, Has
<1>5. /\ \A p \in Page : /\ pg'[p].in_dram = pg[p].in_dram
                         /\ pg'[p].devdax_offset = pg[p].devdax_offset
      /\ \A p \in Page \ {cur[t]} : pg'[p] = pg[p]
  <2>1. pg \in [Page -> PageRecord]
    BY DEF TypeOK
  <2>2. CASE pg' = [pg EXCEPT ![cur[t]].present = TRUE]
    BY <1>4, <2>1, <2>2 DEF PageRecord
  <2>3. CASE pg' = [pg EXCEPT ![cur[t]].va = call[t].va]
    BY <1>4, <2>1, <2>3 DEF PageRecord
  <2> QED
    BY <1>1, <2>2, <2>3
<1>6. \A p \in Page : FrameOf(p)' = FrameOf(p)
  BY <1>5 DEF FrameOf, TierOf
<1>7. \A p \in hashed : pg'[p].va = pg[p].va
  BY <1>4, <1>5 DEF TypeOK
<1> QED
  BY <1>1, <1>3, <1>6, <1>7, KeepsMatch

\* Map: the address is nobody else's.
LEMMA MapMatch ==
  ASSUME Known, Track, Match, NEW t \in Caller, Map(t)
  PROVE  Match'
<1> USE ThreadsAssumption DEF Thread, Known
<1> DEFINE a == call[t].va
<1>1. /\ UNCHANGED <<pg, hashed, cur, call>> /\ pc[t] = "map"
      /\ vm' = [vm EXCEPT ![a] = FrameOf(cur[t])]
      /\ \E label : pc' = [pc EXCEPT ![t] = label]
  BY DEF Map, StartCounting, Goto
<1>2. Fills(t) /\ Has(t)
  BY <1>1 DEF Fills, Has
<1>3. a \in VA /\ call[t].hi \in VA /\ a <= call[t].hi /\ ~Tracked(a)
  BY <1>2 DEF Track, FillOK, VA
<1>4. /\ vm'[a] = FrameOf(cur[t]) /\ \A v \in VA \ {a} : vm'[v] = vm[v]
      /\ \A u \in Caller \ {t} : pc'[u] = pc[u]
  BY <1>1, <1>3 DEF TypeOK, Caller
<1>5. ASSUME NEW p \in hashed PROVE vm'[pg[p].va] = FrameOf(p)
  <2>1. pg[p].va \in VA \ {a}
    BY <1>3 DEF Track, TableOK, Tracked
  <2> QED
    BY <1>4, <2>1 DEF Match
<1>6. ASSUME NEW u \in Caller, Backed(u)' PROVE vm'[call[u].va] = FrameOf(cur[u])
  <2>1. CASE u = t
    BY <1>4, <2>1
  <2>2. CASE u # t
    <3>1. Backed(u) /\ Fills(u)
      BY <1>1, <1>4, <1>6, <2>2 DEF Backed, Has, Fills
    <3>2. call[u].va \in VA \ {a}
      BY <1>2, <2>2, <3>1, FillersApart DEF Track, FillOK
    <3> QED
      BY <1>4, <3>1, <3>2 DEF Match
  <2> QED
    BY <2>1, <2>2
<1> HIDE DEF a
<1> QED
  BY <1>1, <1>5, <1>6 DEF Match, FrameOf, TierOf

\* AddPage: the page was about to be tracked.
LEMMA AddPageMatch ==
  ASSUME Known, Track, Match, NEW t \in Caller, AddPage(t), ~Died
  PROVE  Match'
<1> USE ThreadsAssumption DEF Thread, Known
<1>1. ~Panic("page already tracked")
  BY DEF Died
<1>2. /\ UNCHANGED <<pg, vm>> /\ pc[t] = "add" /\ hashed' = hashed \cup {cur[t]}
      /\ \E p : cur' = [cur EXCEPT ![t] = p]
      /\ call' = [call EXCEPT ![t].va = @ + 1]
      /\ \E label \in {"wake", "alloc", "idle"} : pc' = [pc EXCEPT ![t] = label]
  BY <1>1 DEF AddPage, Goto
<1>3. Backed(t) /\ pg[cur[t]].va = call[t].va
  BY <1>2 DEF Backed, Has, Track, HasOK
<1>4. pc'[t] \in {"wake", "alloc", "idle"} /\ \A u \in Caller \ {t} : pc'[u] = pc[u]
  BY <1>2 DEF TypeOK, Caller
<1>5. \A u \in Caller \ {t} : cur'[u] = cur[u] /\ call'[u] = call[u]
  BY <1>2 DEF TypeOK, Caller
<1>6. \A u \in Caller : Backed(u)' => u # t /\ Backed(u)
  BY <1>4, <1>5 DEF Backed, Has
<1>7. \A p \in hashed' : vm'[pg'[p].va] = FrameOf(p)
  BY <1>2, <1>3 DEF Match
<1>8. \A u \in Caller : Backed(u)' => vm'[call'[u].va] = FrameOf(cur'[u])
  BY <1>2, <1>5, <1>6 DEF Match
<1> QED
  BY <1>2, <1>7, <1>8 DEF Match, FrameOf, TierOf

\* Remap: the page has the address that is remapped, and no other page has it.
LEMMA RemapMatch ==
  ASSUME Known, Track, Match, KnownVa, Remap
  PROVE  Match'
<1> USE ThreadsAssumption DEF Thread, Known
<1> DEFINE h   == batch.page[batch.i]
           off == batch.offset[batch.i]
           dst == Target(batch.to)
           a   == pg[h].va
<1>1. /\ pc[Migrator] = "remap" /\ UNCHANGED <<hashed, call, cur>>
      /\ vm' = [vm EXCEPT ![a] = <<dst, off>>]
      /\ pg' = [pg EXCEPT ![h].in_dram = (dst = "dram"), ![h].devdax_offset = off]
      /\ \E label : pc' = [pc EXCEPT ![Migrator] = label]
  BY DEF Remap, LoopOver, Goto
<1>2. /\ batch.i \in 1 .. Len(batch.page) /\ batch.page \in Seq(Page)
      /\ dst \in Tier
  BY <1>1 DEF LocalInv, MigratorOK, TypeOK, BatchRecord, Target, Tier
<1>3. h \in Page /\ a # 0
  BY <1>1, <1>2 DEF KnownVa
<1>4. h \in hashed \/ \E t \in Caller : pc[t] = "add" /\ cur[t] = h
  BY <1>3 DEF KnownVa
<1>5. a \in VA
  <2>1. CASE h \in hashed
    BY <2>1 DEF Track, TableOK
  <2>2. ASSUME NEW t \in Caller, pc[t] = "add", cur[t] = h PROVE a \in VA
    BY <2>2 DEF Track, HasOK, FillOK, Has, Fills
  <2> QED
    BY <1>4, <2>1, <2>2
<1>6. vm'[a] = <<dst, off>> /\ \A v \in VA \ {a} : vm'[v] = vm[v]
  BY <1>1, <1>5 DEF TypeOK
<1>7. /\ pg'[h].in_dram = (dst = "dram") /\ pg'[h].devdax_offset = off /\ pg'[h].va = a
      /\ \A p \in Page \ {h} : pg'[p] = pg[p]
  <2>1. pg \in [Page -> PageRecord]
    BY DEF TypeOK
  <2> HIDE DEF h, off, dst
  <2> QED
    BY <1>1, <1>3, <2>1 DEF PageRecord
<1>8. /\ \A p : p = h => FrameOf(p)' = <<dst, off>>
      /\ \A p \in Page \ {h} : FrameOf(p)' = FrameOf(p)
  <2> HIDE DEF h, off, dst
  <2> QED
    BY <1>2, <1>7 DEF FrameOf, TierOf, Tier
<1>9. \A u \in Caller : Backed(u)' = Backed(u)
  BY <1>1 DEF Backed, Has, TypeOK, Caller, FaultThread, Migrator
<1>10. ASSUME NEW p \in hashed PROVE vm'[pg'[p].va] = FrameOf(p)'
  <2>1. CASE p = h
    BY <1>6, <1>7, <1>8, <2>1
  <2>2. CASE p # h
    <3>1. pg[p].va # a
      <4>1. CASE h \in hashed
        BY <2>2, <4>1 DEF Track, TableOK
      <4>2. ASSUME NEW t \in Caller, pc[t] = "add", cur[t] = h PROVE pg[p].va # a
        <5>1. ~Tracked(call[t].va) /\ call[t].va = a
          BY <4>2 DEF Track, HasOK, FillOK, Has, Fills, VA
        <5> HIDE DEF a
        <5> QED
          BY <5>1 DEF Tracked
      <4> QED
        BY <1>4, <4>1, <4>2
    <3>2. p \in Page \ {h} /\ pg[p].va \in VA \ {a}
      BY <2>2, <3>1 DEF Track, TableOK, TypeOK
    <3> QED
      BY <1>6, <1>7, <1>8, <3>2 DEF Match
  <2> QED
    BY <2>1, <2>2
<1>11. ASSUME NEW u \in Caller, Backed(u), NEW p, p = cur[u] PROVE vm'[call[u].va] = FrameOf(p)'
  <2>1. /\ Fills(u) /\ cur[u] \in Page /\ cur[u] \notin hashed /\ call[u].va \in VA
        /\ ~Tracked(call[u].va)
    BY <1>11 DEF Backed, Fills, Track, HasOK, FillOK, VA
  <2>2. CASE h \in hashed
    <3>1. cur[u] # h /\ call[u].va # a
      BY <2>1, <2>2 DEF Tracked
    <3> QED
      BY <1>6, <1>8, <1>11, <2>1, <3>1 DEF Match
  <2>3. ASSUME NEW t \in Caller, pc[t] = "add", cur[t] = h
        PROVE  vm'[call[u].va] = FrameOf(p)'
    <3>1. Has(t) /\ Fills(t) /\ call[t].va = a
      BY <2>3 DEF Has, Fills, Track, HasOK
    <3>2. CASE u = t
      BY <1>6, <1>8, <1>11, <2>3, <3>1, <3>2
    <3>3. CASE u # t
      <4>1. cur[u] # h /\ call[u].va # a
        BY <1>11, <2>1, <2>3, <3>1, <3>3, FillersApart DEF Track, HandsApart, Backed
      <4> QED
        BY <1>6, <1>8, <1>11, <2>1, <4>1 DEF Match
    <3> QED
      BY <3>2, <3>3
  <2> QED
    BY <1>4, <2>2, <2>3
<1> HIDE DEF h, off, dst, a
<1>12. \A u \in Caller : Backed(u)' => vm'[call'[u].va] = FrameOf(cur[u])'
  BY <1>1, <1>9, <1>11 DEF FrameOf, TierOf
<1> QED
  BY <1>1, <1>10, <1>12 DEF Match

\* Restore: the freed entry is not present.
LEMMA RestoreMatch ==
  ASSUME Known, Track, Match, Restore, Running
  PROVE  Match'
<1> USE ThreadsAssumption DEF Thread, Known
<1> DEFINE m == batch.next[batch.i]
           off == batch.offset[batch.i]
           b == FreedTier(batch.to) = "dram"
<1>1. /\ pc[Migrator] = "restore" /\ UNCHANGED <<hashed, call, cur, vm>>
      /\ pg' = [pg EXCEPT ![m].devdax_offset = off, ![m].present = FALSE, ![m].in_dram = b]
      /\ \E label : pc' = [pc EXCEPT ![Migrator] = label]
  BY DEF Restore, Goto
<1>2. batch.i \in BatchNexts
  BY <1>1, SizesAssumption DEF LocalInv, MigratorOK, TypeOK, BatchRecord, BatchNexts
<1>3. ~pg[m].present
  <2>1. Fits(pg, m, FreeList(Target(batch.to)))
    BY <1>1, <1>2 DEF KindInv, BatchOK, NextOK
  <2>2. FreeList(Target(batch.to)) \in FreeLists
    BY ListKinds DEF Target, Tier
  <2> QED
    BY <2>1, <2>2 DEF Fits
<1>4. /\ \A p \in Page \ {m} : pg'[p] = pg[p]
      /\ \A p \in Page : pg'[p].va = pg[p].va
  <2>1. pg \in [Page -> PageRecord]
    BY DEF TypeOK
  <2> HIDE DEF m, off, b
  <2> QED
    BY <1>1, <2>1 DEF PageRecord
<1>5. \A p \in Page : pg[p].present => FrameOf(p)' = FrameOf(p)
  <2> HIDE DEF m
  <2> QED
    BY <1>3, <1>4 DEF FrameOf, TierOf
<1>6. \A u \in Caller : Backed(u)' = Backed(u)
  BY <1>1 DEF Backed, Has, TypeOK, Caller, FaultThread, Migrator
<1>7. \A p \in hashed : pg'[p].va = pg[p].va
  BY <1>4 DEF TypeOK
<1> QED
  BY <1>1, <1>5, <1>6, <1>7, KeepsMatch

\* Every step keeps pages and mappings in agreement.
LEMMA NextMatch ==
  ASSUME Known, TrackInv, Match, [Next]_vars,
         Running => KnownVa \/ pc[Migrator] # "remap"
  PROVE  Match'
<1>1. CASE UNCHANGED vars
  <2>1. UNCHANGED <<pg, vm, hashed, call, cur, pc>>
    BY <1>1 DEF vars
  <2> QED
    BY <2>1 DEF Match, Backed, Has, FrameOf, TierOf
<1>2. SUFFICES ASSUME Next PROVE Match'
  BY <1>1
<1>3. Running /\ Track
  BY <1>2, OnlyRunning DEF TrackInv
<1>4. Remap => pc[Migrator] = "remap"
  BY DEF Remap
<1> QED
  BY <1>2, <1>3, <1>4, StepKinds, AsideMatch, DiedMatch, RegionMatch, PlaceMatch, MapMatch,
     AddPageMatch, RemapMatch, RestoreMatch, ThreadsAssumption

-----------------------------------------------------------------------------
(* Without munmap: pages that have an address.                              *)

\* A step that takes no page out of the table and no address from a page.
LEMMA KeepsVa ==
  ASSUME KnownVa, TypeOK, hashed \subseteq hashed', batch' = batch, pc'[Migrator] = pc[Migrator],
         \A p \in Page : pg'[p].va # 0 =>
           \/ pg[p].va # 0
           \/ p \in hashed' \/ \E t \in Caller : pc'[t] = "add" /\ cur'[t] = p,
         \A p \in Page : pg[p].va # 0 => pg'[p].va # 0,
         \A u \in Caller : pc[u] = "add" => \/ pc'[u] = "add" /\ cur'[u] = cur[u]
                                            \/ cur[u] \in hashed'
  PROVE  KnownVa'
<1>1. \A p \in Page : pg'[p].va # 0 =>
        p \in hashed' \/ \E t \in Caller : pc'[t] = "add" /\ cur'[t] = p
  <2>1. ASSUME NEW p \in Page, pg[p].va # 0
        PROVE  p \in hashed' \/ \E t \in Caller : pc'[t] = "add" /\ cur'[t] = p
    BY <2>1 DEF KnownVa
  <2> QED
    BY <2>1
<1>2. \A j \in 1 .. Len(batch.page) : batch.page[j] \in Page
  BY DEF TypeOK, BatchRecord
<1>3. \A j \in 1 .. Len(batch.page) :
        \/ pc[Migrator] \in {"copy", "remap"}
        \/ pc[Migrator] = "protect" /\ j < batch.i
        => pg'[batch.page[j]].va # 0
  BY <1>2 DEF KnownVa
<1> QED
  BY <1>1, <1>3 DEF KnownVa

\* A step of the migration thread, which writes no address.
LEMMA MigratorVa ==
  ASSUME KnownVa, TypeOK, hashed' = hashed, cur' = cur,
         \A p \in Page : pg'[p].va = pg[p].va,
         \A u \in Caller : pc'[u] = pc[u],
         \A j \in 1 .. Len(batch'.page) :
           \/ pc'[Migrator] \in {"copy", "remap"}
           \/ pc'[Migrator] = "protect" /\ j < batch'.i
           => batch'.page[j] \in Page /\ pg[batch'.page[j]].va # 0
  PROVE  KnownVa'
  BY DEF KnownVa

\* Protect checks the addresses of the batch before the loops that use them.
LEMMA MigratorKeepsVa ==
  ASSUME Known, KnownVa, MigratorStep, ~Died
  PROVE  KnownVa'
<1> USE ThreadsAssumption DEF Known, Caller, Thread, FaultThread, Migrator, Goto
<1>0. /\ pc \in [Thread -> Label] /\ batch \in BatchRecord /\ pg \in [Page -> PageRecord]
      /\ batch.page \in Seq(Page) /\ \A j \in 1 .. Len(batch.page) : batch.page[j] \in Page
  BY DEF TypeOK, BatchRecord
<1>1. \E label : pc' = [pc EXCEPT ![Migrator] = label]
  <2>1. pc = [pc EXCEPT ![Migrator] = pc[Migrator]]
    BY <1>0
  <2>2. Scan \/ Counting(Migrator) => \E label : pc' = [pc EXCEPT ![Migrator] = label]
    BY <2>1 DEF Scan, Counting, LoadCounter, StoreCounter
  <2> QED
    BY <2>2 DEF MigratorStep, TakePage, TakeNext, Protect, Copy, Remap, Restore, RestoreNext,
       LoopOver, StartCounting, Died
<1>2. \A u \in Caller : pc'[u] = pc[u]
  BY <1>0, <1>1
<1>3. ASSUME UNCHANGED <<hashed, cur, pg>>, pc'[Migrator] \notin {"protect", "copy", "remap"}
      PROVE KnownVa'
  BY <1>2, <1>3, MigratorVa
<1>4. CASE Scan
  BY <1>0, <1>4, <1>3 DEF Scan
<1>5. CASE TakePage
  BY <1>0, <1>5, <1>3 DEF TakePage, Died
<1>6. CASE TakeNext
  <2>1. /\ UNCHANGED <<hashed, cur, pg>> /\ batch'.i = batch.i /\ batch.i = 1
        /\ batch'.page = batch.page
        /\ pc'[Migrator] \in {"take_page", "protect"}
    BY <1>0, <1>6 DEF TakeNext, Died, LocalInv, MigratorOK, BatchRecord
  <2> QED
    BY <1>2, <2>1, MigratorVa
<1>7. CASE Protect
  <2>1. /\ UNCHANGED <<hashed, cur, pg>> /\ pc[Migrator] = "protect"
        /\ pg[batch.page[batch.i]].va # 0
        /\ batch' = [batch EXCEPT !.i = IF @ < batch.want THEN @ + 1 ELSE 1]
        /\ pc'[Migrator] = IF batch.i < batch.want THEN "protect" ELSE "copy"
    BY <1>0, <1>7 DEF Protect, Died, LoopOver
  <2>2. /\ batch.i \in Nat /\ batch.want \in Nat /\ batch.i <= batch.want
        /\ Len(batch.page) = batch.want
        /\ batch'.page = batch.page
        /\ batch'.i = IF batch.i < batch.want THEN batch.i + 1 ELSE 1
    BY <1>0, <2>1, SizesAssumption DEF LocalInv, MigratorOK, BatchRecord
  <2>3. \A j \in 1 .. batch.i : j \in 1 .. Len(batch.page) /\ pg[batch.page[j]].va # 0
    BY <2>1, <2>2 DEF KnownVa
  <2>4. CASE batch.i < batch.want
    <3>1. \A j \in 1 .. Len(batch.page) : j < batch'.i => j \in 1 .. batch.i
      BY <2>2, <2>4
    <3> QED
      BY <1>0, <1>2, <2>1, <2>2, <2>3, <2>4, <3>1, MigratorVa
  <2>5. CASE batch.i = batch.want
    BY <1>0, <1>2, <2>1, <2>2, <2>3, <2>5, MigratorVa
  <2> QED
    BY <2>2, <2>4, <2>5
<1>8. CASE Copy
  <2>1. /\ UNCHANGED <<hashed, cur, pg, batch>> /\ pc[Migrator] = "copy"
    BY <1>8 DEF Copy, Died
  <2> QED
    BY <1>0, <1>2, <2>1, MigratorVa DEF KnownVa
<1>9. CASE Remap
  <2> DEFINE h   == batch.page[batch.i]
             off == batch.offset[batch.i]
             dst == Target(batch.to)
  <2>1. /\ UNCHANGED <<hashed, cur>> /\ pc[Migrator] = "remap"
        /\ batch' = [batch EXCEPT !.i = IF @ < batch.want THEN @ + 1 ELSE 1]
        /\ pg' = [pg EXCEPT ![h].in_dram = (dst = "dram"), ![h].devdax_offset = off]
    BY <1>9 DEF Remap, LoopOver
  <2>2. \A p \in Page : pg'[p].va = pg[p].va
    <3> HIDE DEF h, off, dst
    <3> QED
      BY <1>0, <2>1 DEF PageRecord
  <2>3. batch'.page = batch.page
    BY <1>0, <2>1 DEF BatchRecord
  <2>4. \A j \in 1 .. Len(batch.page) : pg[batch.page[j]].va # 0
    BY <2>1 DEF KnownVa
  <2> HIDE DEF h, off, dst
  <2> QED
    BY <1>0, <1>2, <2>1, <2>2, <2>3, <2>4, MigratorVa
<1>10. CASE Restore
  <2> DEFINE m == batch.next[batch.i]
             off == batch.offset[batch.i]
             b == FreedTier(batch.to) = "dram"
  <2>1. /\ UNCHANGED <<hashed, cur>>
        /\ pc'[Migrator] = "restore_next"
        /\ pg' = [pg EXCEPT ![m].devdax_offset = off, ![m].present = FALSE, ![m].in_dram = b]
    BY <1>0, <1>10 DEF Restore
  <2>2. \A p \in Page : pg'[p].va = pg[p].va
    <3> HIDE DEF m, off, b
    <3> QED
      BY <1>0, <2>1 DEF PageRecord
  <2> HIDE DEF m, off, b
  <2> QED
    BY <1>2, <2>1, <2>2, MigratorVa
<1>11. CASE RestoreNext
  BY <1>0, <1>11, <1>3 DEF RestoreNext, StartCounting
<1>12. CASE Counting(Migrator)
  <2>1. /\ UNCHANGED <<hashed, cur, pg>> /\ pc[Migrator] = "count"
        /\ pc'[Migrator] \in {"count", "scan"}
    BY <1>0, <1>12 DEF Counting, LoadCounter, StoreCounter, AfterCounting
  <2> QED
    BY <1>3, <2>1
<1> QED
  BY <1>4, <1>5, <1>6, <1>7, <1>8, <1>9, <1>10, <1>11, <1>12 DEF MigratorStep

\* The other threads leave the batch alone.
LEMMA OthersKeepBatch ==
  ASSUME Known, (\E t \in App : Calls(t) \/ AppStep(t)) \/ FaultStep, ~Died
  PROVE  batch' = batch /\ pc'[Migrator] = pc[Migrator]
<1> USE ThreadsAssumption DEF Known, Caller, Thread, FaultThread, Migrator, Goto, StartCounting
<1>1. ASSUME NEW t \in App \cup {FaultThread}, NEW label,
             pc' = pc \/ pc' = [pc EXCEPT ![t] = label]
      PROVE  pc'[Migrator] = pc[Migrator]
  BY <1>1 DEF TypeOK
<1>2. ASSUME NEW t \in App, Calls(t) PROVE batch' = batch /\ pc'[Migrator] = pc[Migrator]
  BY <1>1, <1>2 DEF Calls, Mmap, Touch, Munmap, Request
<1>3. ASSUME NEW t \in App \cup {FaultThread}, Allocation(t)
      PROVE  batch' = batch /\ pc'[Migrator] = pc[Migrator]
  BY <1>1, <1>3 DEF Allocation, Allocate, Place, Map, Publish, AddPage, Died
<1>4. ASSUME NEW t \in App, AppStep(t) PROVE batch' = batch /\ pc'[Migrator] = pc[Migrator]
  <2>1. CASE Counting(t)
    BY <1>1, <2>1 DEF Counting, LoadCounter, StoreCounter
  <2>2. CASE RemovePage(t) \/ UncountPage(t) \/ Unmap(t)
    BY <1>1, <2>2 DEF RemovePage, UncountPage, Unmap
  <2>3. CASE Choose(t) \/ Rotate(t) \/ RotateBack(t)
    BY <1>1, <2>3 DEF Choose, Rotate, RotateBack, Died
  <2>4. CASE Take(t) \/ Queue(t) \/ RequestDone(t)
    BY <1>1, <2>4 DEF Take, Queue, RequestDone, Died
  <2> QED
    BY <1>3, <1>4, <2>1, <2>2, <2>3, <2>4 DEF AppStep
<1>5. ASSUME NEW t \in App, ReadFault(t) PROVE batch' = batch /\ pc'[Migrator] = pc[Migrator]
  BY <1>1, <1>5 DEF ReadFault
<1>6. CASE Wake
  BY <1>6 DEF Wake, WaitsFor, LocalInv, MigratorOK, MigratorLabel
<1> QED
  BY <1>2, <1>3, <1>4, <1>5, <1>6 DEF FaultStep

\* Every step preserves it, while nobody unmaps.
LEMMA NextKnownVa ==
  ASSUME \A t \in App : pc[t] \notin {"munmap", "removed"},
         Known, TrackInv, Running => KnownVa, [Next]_vars
  PROVE  (Running => KnownVa)'
<1> USE ThreadsAssumption DEF Thread, Caller, Goto
<1>1. CASE UNCHANGED vars
  BY <1>1 DEF vars, KnownVa, Running
<1>2. SUFFICES ASSUME Next, Running' PROVE KnownVa'
  BY <1>1
<1>3. Running /\ Track /\ KnownVa /\ ~Died
  BY <1>2, OnlyRunning DEF TrackInv, Died, Panic, Running
<1>4. CASE MigratorStep
  BY <1>3, <1>4, MigratorKeepsVa
<1>5. SUFFICES ASSUME ~MigratorStep PROVE KnownVa'
  BY <1>4
<1>6. batch' = batch /\ pc'[Migrator] = pc[Migrator] /\ TypeOK
  BY <1>2, <1>3, <1>5, OthersKeepBatch DEF Known, Next
<1>7. CASE Aside
  BY <1>3, <1>6, <1>7, KeepsVa DEF Aside
<1>8. ASSUME NEW t \in App, NEW lo, NEW hi, NEW populate, Mmap(t, lo, hi, populate) PROVE KnownVa'
  <2>1. /\ UNCHANGED <<pg, hashed, cur>> /\ pc[t] = "idle" /\ \A u \in Caller \ {t} : pc'[u] = pc[u]
    BY <1>6, <1>8 DEF Mmap, TypeOK
  <2> QED
    BY <1>3, <1>6, <2>1, KeepsVa
<1>9. ASSUME NEW t \in App PROVE ~RemovePage(t) /\ ~Unmap(t)
  BY <1>9 DEF RemovePage, Unmap
<1>10. ASSUME NEW t \in Caller, Place(t) PROVE KnownVa'
  <2>1. /\ pg' = [pg EXCEPT ![cur[t]].present = TRUE] /\ UNCHANGED <<hashed, cur>>
        /\ pc[t] = "place" /\ \A u \in Caller \ {t} : pc'[u] = pc[u]
    BY <1>6, <1>10 DEF Place, TypeOK
  <2>2. \A p \in Page : pg'[p].va = pg[p].va
    BY <1>6, <2>1 DEF TypeOK, PageRecord
  <2> QED
    BY <1>3, <1>6, <2>1, <2>2, KeepsVa
<1>11. ASSUME NEW t \in Caller, Map(t) PROVE KnownVa'
  <2>1. /\ UNCHANGED <<pg, hashed, cur>> /\ pc[t] = "map" /\ \A u \in Caller \ {t} : pc'[u] = pc[u]
    BY <1>6, <1>11 DEF Map, StartCounting, TypeOK
  <2> QED
    BY <1>3, <1>6, <2>1, KeepsVa
<1>12. ASSUME NEW t \in Caller, Publish(t) PROVE KnownVa'
  <2>1. /\ pg' = [pg EXCEPT ![cur[t]].va = call[t].va] /\ UNCHANGED <<hashed, cur>>
        /\ pc[t] = "publish" /\ pc'[t] = "add" /\ \A u \in Caller \ {t} : pc'[u] = pc[u]
    BY <1>6, <1>12 DEF Publish, TypeOK
  <2>2. call[t].va \in VA
    BY <1>3, <2>1 DEF Track, FillOK, Fills, Has
  <2>3. call[t].va # 0
    BY <2>2 DEF VA
  <2>4. /\ \A p \in Page : p = cur[t] => pg'[p].va = call[t].va
        /\ \A p \in Page : p # cur[t] => pg'[p].va = pg[p].va
    BY <1>6, <2>1 DEF TypeOK, PageRecord
  <2>5. \A p \in Page : pg[p].va # 0 => pg'[p].va # 0
    BY <2>3, <2>4
  <2>6. \A p \in Page : pg'[p].va # 0 =>
          \/ pg[p].va # 0
          \/ p \in hashed' \/ \E u \in Caller : pc'[u] = "add" /\ cur'[u] = p
    BY <2>1, <2>4
  <2>7. \A u \in Caller : pc[u] = "add" => pc'[u] = "add" /\ cur'[u] = cur[u]
    BY <2>1
  <2> QED
    BY <1>3, <1>6, <2>1, <2>5, <2>6, <2>7, KeepsVa
<1>13. ASSUME NEW t \in Caller, AddPage(t) PROVE KnownVa'
  <2>1. ~Panic("page already tracked")
    BY <1>3 DEF Died
  <2>2. /\ pg' = pg /\ hashed' = hashed \cup {cur[t]}
        /\ \A u \in Caller \ {t} : pc'[u] = pc[u] /\ cur'[u] = cur[u]
    BY <1>6, <1>13, <2>1 DEF AddPage, TypeOK
  <2> QED
    BY <1>3, <1>6, <2>2, KeepsVa
<1> QED
  BY <1>2, <1>3, <1>5, <1>7, <1>8, <1>9, <1>10, <1>11, <1>12, <1>13, StepKinds DEF MigratorStep

\* A page that has an address keeps it: what a thread publishes is new.
LEMMA AddressesStay ==
  ASSUME Known, TrackInv, Running => KnownVa, Next, Running', NEW p \in Page, pg[p].va # 0
  PROVE  pg'[p].va = pg[p].va
<1> USE ThreadsAssumption DEF Known, Caller, Thread
<1>1. Running /\ Track /\ KnownVa /\ ~Died /\ pg \in [Page -> PageRecord]
  BY OnlyRunning DEF TrackInv, Died, Panic, Running, TypeOK
<1>2. CASE pg' = pg
  BY <1>2
<1>3. ASSUME NEW t \in Caller, Publish(t) PROVE pg'[p].va = pg[p].va
  <2>1. Has(t) /\ pc[t] = "publish" /\ pg' = [pg EXCEPT ![cur[t]].va = call[t].va]
    BY <1>3 DEF Publish, Has
  <2>2. cur[t] # p
    <3>1. CASE p \in hashed
      BY <1>1, <2>1, <3>1 DEF Track, HasOK
    <3>2. ASSUME NEW u \in Caller, pc[u] = "add", cur[u] = p PROVE cur[t] # p
      BY <1>1, <2>1, <3>2 DEF Track, HandsApart, Has
    <3> QED
      BY <1>1, <3>1, <3>2 DEF KnownVa
  <2> QED
    BY <1>1, <2>1, <2>2
<1>4. ASSUME NEW t \in Caller, Place(t) PROVE pg'[p].va = pg[p].va
  BY <1>1, <1>4 DEF Place, PageRecord
<1>5. CASE Remap
  BY <1>1, <1>5 DEF Remap, PageRecord
<1>6. CASE Restore
  BY <1>1, <1>6 DEF Restore, PageRecord
<1>7. ASSUME NEW t \in Caller, Map(t) \/ AddPage(t) PROVE pg' = pg
  BY <1>7 DEF Map, AddPage, Panic
<1>8. ASSUME NEW t \in App,
             (\E lo, hi \in VA, populate \in BOOLEAN : lo <= hi /\ Mmap(t, lo, hi, populate))
             \/ RemovePage(t) \/ Unmap(t)
      PROVE  pg' = pg
  BY <1>8 DEF Mmap, RemovePage, Unmap
<1> QED
  BY <1>1, <1>2, <1>3, <1>4, <1>5, <1>6, <1>7, <1>8, StepKinds DEF Aside

-----------------------------------------------------------------------------
(* Without requests: frames that are mapped once.                           *)

\* Every page starts with its own frame, and none is mapped.
LEMMA InitPlaced == Init => Placed
<1> SUFFICES ASSUME Init PROVE Placed
  OBVIOUS
<1>1. ASSUME NEW p \in Page PROVE FrameOf(p) = p
  <2>1. /\ pg[p].in_dram <=> p[1] = "dram"
        /\ pg[p].devdax_offset = p[2]
    BY <1>1 DEF Init, InitialOffset
  <2>2. CASE \E i \in 0 .. FASTMEM_PAGES - 1 : p = <<"dram", i>>
    <3>1. PICK i : p = <<"dram", i>>
      BY <2>2
    <3>2. p[1] = "dram" /\ p[2] = i
      BY <3>1
    <3>3. TierOf(p) = "dram"
      BY <2>1, <3>2 DEF TierOf
    <3> QED
      BY <2>1, <3>1, <3>2, <3>3 DEF FrameOf
  <2>3. CASE \E i \in 0 .. SLOWMEM_PAGES - 1 : p = <<"nvm", i>>
    <3>1. PICK i : p = <<"nvm", i>>
      BY <2>3
    <3>2. p[1] = "nvm" /\ p[2] = i
      BY <3>1
    <3>3. TierOf(p) = "nvm"
      BY <2>1, <3>2 DEF TierOf
    <3> QED
      BY <2>1, <3>1, <3>2, <3>3 DEF FrameOf
  <2> QED
    BY <1>1, <2>2, <2>3 DEF Page
<1>2. \A v \in VA : vm[v] = Unmapped
  BY DEF Init
<1> QED
  BY <1>1, <1>2, MarksApart DEF Placed, FramesDistinct

\* A step that maps no frame and leaves the pages where they are.
LEMMA KeepsPlaced ==
  ASSUME Placed, \A p \in Page : FrameOf(p)' = FrameOf(p),
         \A p \in Page : pg[p].present => pg'[p].present,
         \A v \in VA : vm'[v] \in Frame => vm'[v] = vm[v],
         \A u \in Caller : pc'[u] = "map" => pc[u] = "map" /\ cur'[u] = cur[u]
  PROVE  Placed'
<1>1. \A p \in Page : FrameOf(p)' = p
  BY DEF Placed
<1>2. \A v \in VA : vm'[v] \in Frame =>
        /\ vm'[v] \in Page /\ pg'[vm'[v]].present
        /\ \A t \in Caller : pc'[t] = "map" => cur'[t] # vm'[v]
  BY DEF Placed
<1>3. FramesDistinct'
  BY DEF Placed, FramesDistinct
<1> QED
  BY <1>1, <1>2, <1>3 DEF Placed

\* Map: the page is the thread's own, and its frame is not mapped anywhere.
LEMMA MapPlaced ==
  ASSUME Known, Track, Placed, NEW t \in Caller, Map(t)
  PROVE  Placed'
<1> USE ThreadsAssumption DEF Thread, Known
<1> DEFINE a == call[t].va
           h == cur[t]
<1>1. /\ UNCHANGED <<pg, hashed, cur, call>> /\ pc[t] = "map"
      /\ vm' = [vm EXCEPT ![a] = FrameOf(h)]
      /\ pc'[t] # "map" /\ \A u \in Caller \ {t} : pc'[u] = pc[u]
  BY DEF Map, StartCounting, Goto, TypeOK, Caller
<1>2. Has(t) /\ Fills(t) /\ h \in Page /\ pg[h].present /\ a \in VA
  BY <1>1 DEF Fills, Has, Track, FillOK, HasOK
<1>3. FrameOf(h) = h
  BY <1>2 DEF Placed
<1>4. vm'[a] = h /\ \A v \in VA \ {a} : vm'[v] = vm[v]
  BY <1>1, <1>2, <1>3 DEF TypeOK
<1>5. \A u \in Caller : pc'[u] = "map" => u # t /\ pc[u] = "map" /\ cur[u] # h
  BY <1>1, <1>2 DEF Track, HandsApart, Has
<1>6. \A v \in VA : vm[v] \in Frame => vm[v] # h
  BY <1>1 DEF Placed
<1> HIDE DEF a, h
<1>7. \A p \in Page : FrameOf(p)' = p
  BY <1>1 DEF Placed, FrameOf, TierOf
<1>8. \A v \in VA : vm'[v] \in Frame =>
        /\ vm'[v] \in Page /\ pg'[vm'[v]].present
        /\ \A u \in Caller : pc'[u] = "map" => cur'[u] # vm'[v]
  BY <1>1, <1>2, <1>4, <1>5 DEF Placed
<1>9. FramesDistinct'
  <2>1. ASSUME NEW u \in VA, NEW v \in VA, u # v, vm'[u] \in Frame PROVE vm'[u] # vm'[v]
    <3>1. CASE u = a
      BY <1>4, <1>6, <2>1, <3>1
    <3>2. CASE v = a
      BY <1>4, <1>6, <2>1, <3>2
    <3>3. CASE u # a /\ v # a
      BY <1>4, <2>1, <3>3 DEF Placed, FramesDistinct
    <3> QED
      BY <3>1, <3>2, <3>3
  <2> QED
    BY <2>1 DEF FramesDistinct
<1> QED
  BY <1>7, <1>8, <1>9 DEF Placed

\* Place: a page that was not present is mapped nowhere.
LEMMA PlacePlaced ==
  ASSUME Known, Track, Placed, Running, NEW t \in Caller, Place(t)
  PROVE  Placed'
<1> USE ThreadsAssumption DEF Thread, Known
<1>1. /\ UNCHANGED <<vm, cur>> /\ pc[t] = "place" /\ pg' = [pg EXCEPT ![cur[t]].present = TRUE]
      /\ \A u \in Caller \ {t} : pc'[u] = pc[u]
  BY DEF Place, Goto, TypeOK, Caller
<1>2. cur[t] \in Page /\ ~pg[cur[t]].present
  BY <1>1 DEF Has, Track, HasOK, KindInv, HandOK
<1>3. \A p \in Page : /\ pg'[p].in_dram = pg[p].in_dram
                      /\ pg'[p].devdax_offset = pg[p].devdax_offset
                      /\ pg[p].present => pg'[p].present
  BY <1>1, <1>2 DEF TypeOK, PageRecord
<1>4. \A p \in Page : FrameOf(p)' = p
  BY <1>3 DEF Placed, FrameOf, TierOf
<1>5. \A v \in VA : vm[v] \in Frame => cur[t] # vm[v]
  BY <1>2 DEF Placed
<1>6. \A v \in VA : vm'[v] \in Frame =>
        /\ vm'[v] \in Page /\ pg'[vm'[v]].present
        /\ \A u \in Caller : pc'[u] = "map" => cur'[u] # vm'[v]
  BY <1>1, <1>3, <1>5 DEF Placed
<1>7. FramesDistinct'
  BY <1>1 DEF Placed, FramesDistinct
<1> QED
  BY <1>4, <1>6, <1>7 DEF Placed

\* Every step but those of migrations preserves it.
LEMMA NextPlaced ==
  ASSUME Known, TrackInv, Placed, [Next]_vars, Running => pc[Migrator] = "scan"
  PROVE  Placed'
<1> USE ThreadsAssumption DEF Thread, Caller, Goto
<1>1. ASSUME UNCHANGED <<pg, vm, hashed>>,
             \A u \in Caller : pc'[u] = "map" => pc[u] = "map" /\ cur'[u] = cur[u]
      PROVE  Placed'
  <2>1. \A p \in Page : FrameOf(p)' = FrameOf(p)
    BY <1>1 DEF FrameOf, TierOf
  <2> QED
    BY <1>1, <2>1, KeepsPlaced
<1>2. CASE UNCHANGED vars
  BY <1>1, <1>2 DEF vars
<1>3. SUFFICES ASSUME Next PROVE Placed'
  BY <1>2
<1>4. Running /\ Track /\ TypeOK /\ pc[Migrator] = "scan"
  BY <1>3, OnlyRunning DEF TrackInv, Known
<1>5. CASE Aside
  BY <1>1, <1>5 DEF Aside
<1>6. CASE Died
  BY <1>1, <1>6 DEF Died, Panic
<1>7. ASSUME NEW t \in App, NEW lo, NEW hi, NEW populate, Mmap(t, lo, hi, populate) PROVE Placed'
  <2>1. /\ UNCHANGED <<pg, cur>>
        /\ vm' = [v \in VA |-> IF v \in lo .. hi THEN Reserved ELSE vm[v]]
        /\ \A u \in Caller : pc'[u] = "map" => pc[u] = "map"
    BY <1>4, <1>7 DEF Mmap, TypeOK
  <2>2. \A p \in Page : FrameOf(p)' = FrameOf(p)
    BY <2>1 DEF FrameOf, TierOf
  <2> QED
    BY <2>1, <2>2, KeepsPlaced, MarksApart
<1>8. ASSUME NEW t \in App, RemovePage(t) PROVE Placed'
  <2>1. /\ UNCHANGED <<pg, vm>> /\ pc[t] = "munmap"
        /\ pc' = pc \/ pc' = [pc EXCEPT ![t] = "removed"]
        /\ cur' = cur \/ \E p : cur' = [cur EXCEPT ![t] = p]
    BY <1>8 DEF RemovePage
  <2>2. pc'[t] # "map" /\ \A u \in Caller \ {t} : pc'[u] = pc[u]
    BY <1>4, <2>1 DEF TypeOK
  <2>3. \A u \in Caller \ {t} : cur'[u] = cur[u]
    BY <1>4, <2>1 DEF TypeOK
  <2>4. \A p \in Page : FrameOf(p)' = FrameOf(p)
    BY <2>1 DEF FrameOf, TierOf
  <2> QED
    BY <2>1, <2>2, <2>3, <2>4, KeepsPlaced
<1>9. ASSUME NEW t \in App, Unmap(t) PROVE Placed'
  <2>1. /\ UNCHANGED <<pg, cur>>
        /\ vm' = [v \in VA |-> IF v \in call[t].lo .. call[t].hi THEN Unmapped ELSE vm[v]]
        /\ \A u \in Caller : pc'[u] = "map" => pc[u] = "map"
    BY <1>4, <1>9 DEF Unmap, TypeOK
  <2>2. \A p \in Page : FrameOf(p)' = FrameOf(p)
    BY <2>1 DEF FrameOf, TierOf
  <2> QED
    BY <2>1, <2>2, KeepsPlaced, MarksApart
<1>10. ASSUME NEW t \in Caller, Publish(t) PROVE Placed'
  <2>1. /\ UNCHANGED <<vm, cur>> /\ pg' = [pg EXCEPT ![cur[t]].va = call[t].va]
        /\ \A u \in Caller : pc'[u] = "map" => pc[u] = "map"
    BY <1>4, <1>10 DEF Publish, TypeOK
  <2>2. \A p \in Page : /\ pg'[p].in_dram = pg[p].in_dram
                        /\ pg'[p].devdax_offset = pg[p].devdax_offset
                        /\ pg'[p].present = pg[p].present
    BY <1>4, <2>1 DEF TypeOK, PageRecord
  <2>3. \A p \in Page : FrameOf(p)' = FrameOf(p)
    BY <2>2 DEF FrameOf, TierOf
  <2> QED
    BY <2>1, <2>2, <2>3, KeepsPlaced
<1>11. ASSUME NEW t \in Caller, AddPage(t), ~Died PROVE Placed'
  <2>1. ~Panic("page already tracked")
    BY <1>11 DEF Died
  <2>2. /\ UNCHANGED <<pg, vm>>
        /\ \E p : cur' = [cur EXCEPT ![t] = p]
        /\ \E label \in {"wake", "alloc", "idle"} : pc' = [pc EXCEPT ![t] = label]
    BY <1>11, <2>1 DEF AddPage
  <2>3. pc'[t] # "map" /\ \A u \in Caller \ {t} : pc'[u] = pc[u]
    BY <1>4, <2>2 DEF TypeOK
  <2>4. \A u \in Caller \ {t} : cur'[u] = cur[u]
    BY <1>4, <2>2 DEF TypeOK
  <2>5. \A p \in Page : FrameOf(p)' = FrameOf(p)
    BY <2>2 DEF FrameOf, TierOf
  <2> QED
    BY <2>2, <2>3, <2>4, <2>5, KeepsPlaced
<1>12. ~Remap /\ ~Restore
  BY <1>4 DEF Remap, Restore
<1> QED
  BY <1>3, <1>4, <1>5, <1>6, <1>7, <1>8, <1>9, <1>10, <1>11, <1>12, MapPlaced, PlacePlaced, StepKinds

-----------------------------------------------------------------------------
(* The theorems.                                                            *)

\* No two tracked pages have the same address, also after the process died.
Unique == \A p, q \in hashed : pg[p].va = pg[q].va => p = q

\* Every step keeps tracked addresses apart, and so does the death of the process.
LEMMA NextUnique ==
  ASSUME Known, TrackInv, TrackInv', Unique, [Next]_vars
  PROVE  Unique'
<1>1. CASE UNCHANGED <<pg, hashed>>
  BY <1>1 DEF Unique
<1>2. CASE Running'
  BY <1>2 DEF TrackInv, Track, TableOK, Unique
<1>3. Next => UNCHANGED <<pg, hashed>> \/ Running'
  <2>1. SUFFICES ASSUME Next PROVE UNCHANGED <<pg, hashed>> \/ Running'
    OBVIOUS
  <2>2. Running
    BY <2>1, OnlyRunning
  <2>3. Aside \/ Died => UNCHANGED <<pg, hashed>>
    BY DEF Aside, Died, Panic
  <2>4. ASSUME NEW t \in App,
               \/ \E lo, hi \in VA, populate \in BOOLEAN : lo <= hi /\ Mmap(t, lo, hi, populate)
               \/ RemovePage(t) \/ Unmap(t)
        PROVE  panic' = panic
    BY <2>4 DEF Mmap, RemovePage, Unmap
  <2>5. ASSUME NEW t \in Caller, Place(t) \/ Map(t) \/ Publish(t) \/ AddPage(t), ~Died
        PROVE  panic' = panic
    BY <2>5 DEF Place, Map, Publish, AddPage, Died
  <2>6. Remap \/ Restore => panic' = panic
    BY DEF Remap, Restore
  <2> QED
    BY <2>1, <2>2, <2>3, <2>4, <2>5, <2>6, StepKinds DEF Running
<1> QED
  BY <1>1, <1>2, <1>3 DEF vars

\* Nothing is tracked when the library starts.
LEMMA InitMatch == Init => Match /\ Unique /\ (Running => KnownVa)
<1> USE ThreadsAssumption DEF Thread, Caller, FaultThread, Migrator
<1>1. Init => hashed = {} /\ \A t \in Caller : ~Backed(t)
  BY DEF Init, Backed, Has
<1>2. Init => KnownVa
  BY DEF Init, KnownVa
<1> QED
  BY <1>1, <1>2 DEF Match, Unique

\* What hemem.c:380-390 relies on: as long as the application does not unmap,
\* or requests no migrations, what the library records of a tracked page is
\* what the kernel maps at its address, whatever the interleaving of mmaps,
\* faults, requests and migrations.  (With both it may not be: a page that is
\* unmapped while it waits for the migration thread is remapped all the same,
\* over whatever has been mapped at its address since.  hemem.c:476.)
THEOREM TrackedPagesAreMapped ==
  ASSUME "munmap" \notin Ops \/ "request" \notin Ops
  PROVE  Spec => []TrackedPagesMatch
<1>1. Match /\ Unique => TrackedPagesMatch
  BY DEF Match, Unique, TrackedPagesMatch, FrameOf
<1>2. Init => Match /\ Unique /\ OpsOK /\ Still /\ (Running => KnownVa)
  BY InitMatch, InitOps, InitStill
<1>3. IInv => CountInv
  BY DEF IInv
<1>4. CASE "munmap" \notin Ops
  <2>1. /\ Known /\ TrackInv /\ TrackInv' /\ Match /\ Unique /\ OpsOK /\ (Running => KnownVa)
        /\ [Next]_vars
        => (Match /\ Unique /\ OpsOK /\ (Running => KnownVa))'
    BY <1>4, NextMatch, NextUnique, NextOps, NextKnownVa, NobodyCalls
  <2> QED
    BY <1>1, <1>2, <2>1, TrackInvariant, PTL DEF Spec
<1>5. CASE "request" \notin Ops
  <2>1. /\ Known /\ TrackInv /\ TrackInv' /\ CountInv /\ Match /\ Unique /\ OpsOK /\ Still
        /\ [Next]_vars
        => (Match /\ Unique /\ OpsOK /\ Still)'
    <3>1. Still => (Running => pc[Migrator] # "remap")
      BY DEF Still
    <3> QED
      BY <1>5, <3>1, NextMatch, NextUnique, NextOps, NextStill, NobodyCalls DEF NoRequests
  <2> QED
    BY <1>1, <1>2, <1>3, <2>1, TrackInvariant, KindInvariant, PTL DEF Spec
<1> QED
  BY <1>4, <1>5

\* While no migration is requested, no two virtual pages show the same frame:
\* mmap, first-touch faults and munmap never hand out a frame twice.
THEOREM FramesAreDistinct ==
  ASSUME "request" \notin Ops
  PROVE  Spec => []FramesDistinct
<1>1. Placed => FramesDistinct
  BY DEF Placed
<1>2. Init => Placed /\ OpsOK /\ Still
  BY InitPlaced, InitOps, InitStill
<1>3. IInv => CountInv
  BY DEF IInv
<1>4. /\ Known /\ TrackInv /\ CountInv /\ Placed /\ OpsOK /\ Still /\ [Next]_vars
      => (Placed /\ OpsOK /\ Still)'
  <2>1. Still => (Running => pc[Migrator] = "scan")
    BY DEF Still
  <2> QED
    BY <2>1, NextPlaced, NextOps, NextStill, NobodyCalls DEF NoRequests
<1> QED
  BY <1>1, <1>2, <1>3, <1>4, TrackInvariant, KindInvariant, PTL DEF Spec

=============================================================================
