---------------------------- MODULE MigTestProofs ----------------------------
(***************************************************************************)
(* mig-test.c, for every size of the buffer and of the batches: the program *)
(* uses the library as PageManager says a client does, it never dies, each  *)
(* of its wait loops ends with all pages where it takes them to be and with *)
(* all counters settled, and its munmap is final.                           *)
(*                                                                          *)
(* The argument counts.  While main() fills the buffer, and while a round   *)
(* of requests is on its way through the migration thread, each list and    *)
(* each counter is a sum of what main() has still to do and of the stage    *)
(* the batch is in.  When the counter that main() polls is zero, the sums   *)
(* leave one possibility.                                                   *)
(***************************************************************************)
EXTENDS MigTest, PageManagerTrackProofs

-----------------------------------------------------------------------------
(* The inductive invariant.                                                 *)

Bit(b) == IF b THEN 1 ELSE 0

\* A round of requests is being served: the list it fills, and its two tiers.
InRound == at \in {"wait_down", "wait_up"}
Asked   == IF at = "wait_down" THEN "dram_to_nvm_list" ELSE "nvm_to_dram_list"
Src     == Source(Asked)
Dst     == Target(Asked)

\* main() is in the call it made last, or back from it.
MainOK ==
  /\ pc[FaultThread] = "poll" /\ pc[Migrator] # "dead"
  /\ at \in {"mmap", "migrate_down", "wait_down", "migrate_up", "wait_up", "munmap",
             "wait_total", "return"}
  /\ at \in {"mmap", "migrate_up", "munmap", "return"} => pc[main] = "idle"
  /\ at = "migrate_down" =>
       /\ pc[main] \in MmapLabel \cup {"count", "idle"}
       /\ call[main].op = "mmap" /\ call[main].lo = 1 /\ call[main].hi = npage
  /\ InRound =>
       /\ pc[main] \in RequestLabel \cup {"count", "idle"}
       /\ call[main].op = "request" /\ call[main].to = Asked
  /\ at = "wait_total" =>
       /\ pc[main] \in {"munmap", "removed", "count", "idle"}
       /\ call[main].op = "munmap" /\ call[main].lo = 1 /\ call[main].hi = npage

\* Only the list of the round is in use.
QueuesOK == \A to \in ToList :
  \/ InRound /\ to = Asked
  \/ list[to] = <<>> /\ (batch.to = to => pc[Migrator] = "scan")

\* What a thread has loaded from a counter is still its value.
RegsExact == \A t \in Thread : reg[t] # NoReg => reg[t][1] = num[Head(upd[t]).counter]

\* main() fills the buffer: `done' pages have been added to the table.
Filling ==
  LET done == call[main].va - 1
  IN /\ pc[main] # "alloc_nvm"
     /\ pc[main] \in {"place", "map"} => TierOf(cur[main]) = "dram"
     /\ pc[main] = "idle" => done = npage
     /\ Len(list["dram_mmap_list"]) = done + Bit(pc[main] \in {"map", "count", "publish", "add"})
     /\ Len(list["dram_free_list"]) =
          FASTMEM_PAGES - done - Bit(pc[main] \in {"place", "map", "count", "publish", "add"})
     /\ num["dram_mmap_list"] =
          done + Bit(pc[main] \in {"publish", "add"} \/ (pc[main] = "count" /\ Len(upd[main]) = 1))
     /\ num["dram_free_list"] = FASTMEM_PAGES - done - Bit(pc[main] \in {"publish", "add"})
     /\ list["nvm_mmap_list"] = <<>> /\ num["nvm_mmap_list"] = 0
     /\ Len(list["nvm_free_list"]) = SLOWMEM_PAGES /\ num["nvm_free_list"] = SLOWMEM_PAGES
     /\ pc[main] = "count" =>
          \/ upd[main] = <<[counter |-> "dram_mmap_list", delta |-> 1],
                           [counter |-> "dram_free_list", delta |-> -1]>>
          \/ upd[main] = <<[counter |-> "dram_free_list", delta |-> -1]>>

\* Iterations left in the request.
Left == call[main].left

\* Pages of the batch that are on no list; those that are back on one but not
\* counted; freed entries that are back but not counted; and the entries taken
\* for the batch and not counted.
Held == CASE pc[Migrator] \in {"scan", "count"} -> 0
          [] pc[Migrator] = "restore"           -> batch.want - batch.i + 1
          [] pc[Migrator] = "restore_next"      -> batch.want - batch.i
          [] OTHER                              -> Len(batch.page)
Back == CASE pc[Migrator] = "restore"                           -> batch.i - 1
          [] pc[Migrator] = "restore_next"                      -> batch.i
          [] pc[Migrator] = "count" /\ Len(upd[Migrator]) = 4   -> batch.want
          [] OTHER                                              -> 0
Freed == CASE pc[Migrator] \in {"restore", "restore_next"}      -> batch.i - 1
           [] pc[Migrator] = "count" /\ Len(upd[Migrator]) >= 3 -> batch.want
           [] OTHER                                             -> 0
Taken == IF pc[Migrator] = "count" /\ Len(upd[Migrator]) = 1 THEN 0 ELSE Len(batch.next)

\* The lists and counters that main()'s thread changes in a round.
Requesting ==
  /\ Len(list[MmapList(Src)]) + Bit(pc[main] = "rotate_back") = Left
  /\ num[MmapList(Src)] = Left + Bit(pc[main] \in {"queue", "count"})
  /\ pc[main] = "idle" => Left = 0

\* Every page that has been requested is queued, in the batch, or moved.
InTransit ==
  Len(list[MmapList(Dst)]) + Held + Len(list[Asked]) + Bit(pc[main] = "queue") = npage - Left

\* The four updates of the counters at the end of a batch; what is left of them
\* is the last one, two, three or four.
Updates == <<[counter |-> MmapList(Dst), delta |-> batch.want],
             [counter |-> FreeList(Src), delta |-> batch.want],
             [counter |-> FreeList(Dst), delta |-> -batch.want],
             [counter |-> Asked, delta |-> -batch.want]>>
Ending  == \/ upd[Migrator] = Updates
           \/ upd[Migrator] = <<Updates[2], Updates[3], Updates[4]>>
           \/ upd[Migrator] = <<Updates[3], Updates[4]>>
           \/ upd[Migrator] = <<Updates[4]>>

\* The lists and counters that the migration thread changes.
Migrating ==
  /\ num[MmapList(Dst)] = Len(list[MmapList(Dst)]) - Back
  /\ num[FreeList(Dst)] = Len(list[FreeList(Dst)]) + Taken
  /\ num[FreeList(Src)] = Len(list[FreeList(Src)]) - Freed
  /\ Len(list[FreeList(Dst)]) + Len(list[MmapList(Dst)]) + Held - Bit(pc[Migrator] = "take_next")
       = FramesIn(Dst)
  /\ Len(list[FreeList(Src)]) + Bit(pc[Migrator] = "restore_next")
       = FramesIn(Src) - npage + Len(list[MmapList(Dst)])
  /\ Back <= Len(list[MmapList(Dst)])
  /\ pc[Migrator] = "count" =>
       batch.want > 0 /\ Len(batch.next) = batch.want /\ Ending

\* Between rounds: all pages of the buffer are in one tier.
Settled(tier, other) ==
  /\ Len(list[MmapList(tier)]) = npage /\ list[MmapList(other)] = <<>>
  /\ Len(list[FreeList(tier)]) = FramesIn(tier) - npage
  /\ Len(list[FreeList(other)]) = FramesIn(other)
  /\ \A l \in List : num[l] = Len(list[l])

Untouched ==
  /\ list["dram_mmap_list"] = <<>> /\ list["nvm_mmap_list"] = <<>>
  /\ Len(list["dram_free_list"]) = FASTMEM_PAGES /\ num["dram_free_list"] = FASTMEM_PAGES
  /\ Len(list["nvm_free_list"]) = SLOWMEM_PAGES /\ num["nvm_free_list"] = SLOWMEM_PAGES
  /\ num["dram_mmap_list"] = 0 /\ num["nvm_mmap_list"] = 0

CountsOK ==
  /\ at = "mmap" => Untouched
  /\ at = "migrate_down" => Filling
  /\ InRound => Requesting /\ InTransit /\ Migrating
  /\ at = "migrate_up" => Settled("nvm", "dram")
  /\ at = "munmap" => Settled("dram", "nvm")

\* Pages have addresses in the buffer, from the first round to munmap every
\* address has a page, and after munmap there is neither.
VasOK ==
  /\ \A p \in Page : pg[p].va <= npage
  /\ \A p \in Page : pg[p].present => pg[p].va # 0 \/ (Has(main) /\ cur[main] = p)
  /\ \A v \in VA : v > npage => vm[v] = Unmapped
  /\ at = "migrate_down" => \A v \in 1 .. call[main].va - 1 : Tracked(v)
  /\ InRound \/ at \in {"migrate_up", "munmap"} => \A v \in 1 .. npage : Tracked(v)
  /\ at \in {"wait_total", "return"} /\ pc[main] = "idle" =>
       hashed = {} /\ \A v \in VA : vm[v] = Unmapped
  /\ at \notin {"wait_total", "return"} =>
       Match /\ KnownVa /\ \A v \in VA : vm[v] \in Frame => Used(v)

\* The frame that a page names is one of its tier.
Inside(p) == pg[p].devdax_offset < FramesIn(TierOf(p))

\* p is one of the first k elements of s.
Among(s, k, p) == \E j \in 1 .. Len(s) : j <= k /\ s[j] = p

\* How many entries of a free list are good for an allocation to come.  Those
\* that a move gives back keep an offset of the other tier: on DRAM's list they
\* come last, and NVM's is not used once the buffer is in NVM.
Good(l) ==
  CASE l = "nvm_free_list" -> IF at \in {"mmap", "migrate_down", "wait_down"} THEN Len(list[l]) ELSE 0
    [] l # "nvm_free_list" /\ at \in {"mmap", "migrate_down"} -> Len(list[l])
    [] l # "nvm_free_list" /\ at \in {"wait_down", "migrate_up"} -> FASTMEM_PAGES - npage
    [] OTHER -> Len(list[l]) - npage

\* The entries of the batch that have not passed their frame on to its page.
Ahead == CASE pc[Migrator] \in {"take_page", "take_next", "protect", "copy"} -> 1 .. Len(batch.next)
           [] pc[Migrator] = "remap"                                        -> batch.i .. Len(batch.next)
           [] OTHER                                                         -> {}

\* p has its frame, or will be used for one: it is present, on its way to be,
\* a good free entry, or an entry of the batch.
Live(p) == \/ pg[p].present
           \/ pc[main] = "place" /\ cur[main] = p
           \/ \E l \in FreeLists : Among(list[l], Good(l), p)
           \/ \E j \in Ahead : batch.next[j] = p

\* Live pages name frames of their devices, and no two the same one.
FramesOK ==
  /\ \A p \in Page : Live(p) => Inside(p)
  /\ \A p, q \in Page : Live(p) /\ Live(q) /\ FrameOf(p) = FrameOf(q) => p = q
  /\ \A j \in Ahead : batch.offset[j] = pg[batch.next[j]].devdax_offset

\* What is known of PageManager's variables, and what main() adds to it.
LibInv == Known /\ CountInv /\ TrackInv
MigInv == /\ LibInv /\ Running
          /\ MainOK /\ QueuesOK /\ RegsExact /\ CountsOK /\ VasOK /\ FramesOK

-----------------------------------------------------------------------------
(* The steps are steps of PageManager.                                      *)

\* The program has one thread beside the two of the library.
LEMMA Threads ==
  /\ App = {main} /\ Caller = {main, FaultThread} /\ Thread = {main, FaultThread, Migrator}
  /\ main # FaultThread /\ main # Migrator /\ FaultThread # Migrator /\ main # NoThread
  /\ npage \in Nat \ {0} /\ npage <= NumVA /\ npage <= SLOWMEM_PAGES
  /\ 2 * npage <= FASTMEM_PAGES /\ FASTMEM_PAGES \in Nat /\ SLOWMEM_PAGES \in Nat
<1>1. App = {main}
  BY MigTestAssumption
<1>2. main \notin {FaultThread, Migrator, NoThread}
  BY <1>1, ThreadsAssumption
<1>3. FaultThread # Migrator
  BY DEF FaultThread, Migrator
<1>4. /\ npage \in Nat \ {0} /\ npage <= NumVA /\ npage <= SLOWMEM_PAGES
      /\ 2 * npage <= FASTMEM_PAGES /\ FASTMEM_PAGES \in Nat /\ SLOWMEM_PAGES \in Nat
  BY MigTestAssumption, SizesAssumption
<1>5. Caller = {main, FaultThread} /\ Thread = {main, FaultThread, Migrator}
  BY <1>1 DEF Caller, Thread
<1> QED
  BY <1>1, <1>2, <1>3, <1>4, <1>5

\* The calls of main() are calls of a client.
LEMMA MigSteps ==
  ASSUME [MigNext]_mvars
  PROVE  [Next]_vars
<1>1. 1 \in VA /\ npage \in VA /\ 1 <= npage /\ npage \in 1 .. MaxPagesNum /\ main \in App
  BY MigTestAssumption, SizesAssumption DEF VA
<1>2. \A to \in {"dram_to_nvm_list", "nvm_to_dram_list"} : Request(main, to, npage, TRUE) => Calls(main)
  BY <1>1, MigTestAssumption DEF Calls
<1>3. Mmap(main, 1, npage, TRUE) \/ Munmap(main, 1, npage) => Calls(main)
  BY <1>1 DEF Calls
<1>4. Main => Calls(main) \/ UNCHANGED vars
  BY <1>2, <1>3
  DEF Main, MapBuffer, MigrateDown, WaitDown, MigrateUp, WaitUp, UnmapBuffer, WaitTotal
<1>5. Library => Next
  BY <1>1 DEF Library, Next
<1> QED
  BY <1>1, <1>4, <1>5 DEF MigNext, mvars, Next

\* Every step keeps what is known of the library.
LEMMA NextLib ==
  ASSUME LibInv, [MigNext]_mvars
  PROVE  LibInv'
  BY MigSteps, NextLocal, NextCount, NextOwn, NextKind, NextTrack DEF LibInv, Known, CountInv

-----------------------------------------------------------------------------
(* What can happen when.                                                    *)

\* What is known in a state of the invariant, unpacked.
LEMMA Unpacked ==
  ASSUME MigInv
  PROVE  /\ Running /\ TypeOK /\ LocalInv /\ Track /\ AppOK(main) /\ MigratorOK
         /\ list \in [List -> Seq(Page)] /\ num \in [List -> Int] /\ pg \in [Page -> PageRecord]
         /\ pc \in [Thread -> Label] /\ call \in [Thread -> CallRecord] /\ batch \in BatchRecord
         /\ vm \in [VA -> Frame \cup {Unmapped, Reserved}] /\ hashed \subseteq Page
         /\ cur \in [Thread -> Page \cup {NoPage}] /\ reg \in [Thread -> Seq(Int)]
         /\ upd \in [Thread -> Seq(UpdateRecord)]
         /\ call[main].left \in Nat /\ call[main].va \in Nat
         /\ batch.to \in ToList /\ batch.want \in Nat /\ batch.i \in Nat
         /\ batch.page \in Seq(Page) /\ batch.next \in Seq(Page) /\ batch.offset \in Seq(Nat)
<1>1. Running /\ TypeOK /\ LocalInv /\ Track
  BY DEF MigInv, LibInv, Known, TrackInv
<1>2. main \in App /\ main \in Thread
  BY Threads
<1>3. call[main] \in CallRecord /\ batch \in BatchRecord
  BY <1>1, <1>2 DEF TypeOK
<1>4. batch.want \in Nat
  BY <1>3, SizesAssumption DEF BatchRecord
<1> QED
  BY <1>1, <1>2, <1>3, <1>4 DEF TypeOK, LocalInv, CallRecord, BatchRecord

\* The lists of a round are five.
LEMMA RoundLists ==
  ASSUME InRound
  PROVE  /\ Asked \in ToList /\ Src \in Tier /\ Dst \in Tier /\ Src # Dst
         /\ {MmapList(Src), MmapList(Dst), FreeList(Src), FreeList(Dst)} \subseteq List \ ToList
         /\ MmapList(Src) # MmapList(Dst) /\ FreeList(Src) # FreeList(Dst)
         /\ MmapList(Src) # FreeList(Src) /\ MmapList(Src) # FreeList(Dst)
         /\ MmapList(Dst) # FreeList(Src) /\ MmapList(Dst) # FreeList(Dst)
  BY DEF InRound, Asked, Src, Dst, Source, Target, MmapList, FreeList, List, ToList, Tier

\* Nobody faults: the buffer is populated.
LEMMA NoFaults ==
  ASSUME MigInv
  PROVE  ~FaultStep
<1>1. pc[main] # "faulting" /\ pc[FaultThread] = "poll"
  BY DEF MigInv, MainOK, MmapLabel, RequestLabel, InRound
<1> QED
  BY <1>1, Threads
  DEF FaultStep, ReadFault, Allocation, Allocate, Place, Map, Publish, AddPage, Wake

\* main() makes its next call when it is back from the last.
LEMMA MainSteps ==
  ASSUME MigInv, MigNext
  PROVE  \/ Main /\ pc[main] = "idle"
         \/ AppStep(main) /\ UNCHANGED at
         \/ MigratorStep /\ UNCHANGED at
  BY NoFaults
  DEF MigNext, Library, Main, MapBuffer, MigrateDown, WaitDown, MigrateUp, WaitUp, UnmapBuffer,
      WaitTotal, At

\* Outside of rounds the migration thread is at rest.
LEMMA AtRest ==
  ASSUME MigInv, ~InRound
  PROVE  Still /\ NoRequests
<1>1. batch.to \in ToList
  BY Unpacked
<1>2. Still
  BY <1>1 DEF MigInv, QueuesOK, Still
<1>3. NoRequests
  <2>1. pc[main] \notin RequestLabel /\ (pc[main] = "count" => call[main].op # "request")
    BY DEF MigInv, MainOK, InRound, RequestLabel, MmapLabel
  <2> QED
    BY <2>1, Threads DEF NoRequests
<1> QED
  BY <1>2, <1>3

\* Then it only scans.
LEMMA OnlyScans ==
  ASSUME MigInv, ~InRound, MigratorStep
  PROVE  /\ UNCHANGED <<list, num, pg, hashed, vm, lock, pc, call, cur, upd, reg, panic>>
         /\ batch' = EmptyBatch(NextLoop(batch.to)) /\ pc[Migrator] = "scan"
<1>1. Scan /\ num[batch.to] = 0
  BY AtRest, StillScans DEF MigInv, LibInv
<1> QED
  BY <1>1 DEF Scan

\* The steps of main()'s thread, by the call it is in.
LEMMA CallSteps ==
  ASSUME MigInv, AppStep(main)
  PROVE  \/ /\ at = "migrate_down"
            /\ \/ Allocate(main, "dram") \/ Place(main) \/ Map(main) \/ Publish(main)
               \/ AddPage(main) \/ LoadCounter(main) \/ StoreCounter(main)
         \/ /\ InRound
            /\ \/ Choose(main) \/ Rotate(main) \/ RotateBack(main) \/ Take(main) \/ Queue(main)
               \/ RequestDone(main) \/ LoadCounter(main) \/ StoreCounter(main)
         \/ /\ at = "wait_total"
            /\ \/ RemovePage(main) \/ UncountPage(main) \/ Unmap(main)
               \/ LoadCounter(main) \/ StoreCounter(main)
<1>1. pc[main] # "idle"
  BY DEF AppStep, Allocation, Allocate, Place, Map, Publish, AddPage, Counting, LoadCounter,
         StoreCounter, RemovePage, UncountPage, Unmap, Choose, Rotate, RotateBack, Take, Queue,
         RequestDone
<1>2. CASE at = "migrate_down"
  <2>1. pc[main] \in {"alloc", "place", "map", "publish", "add", "count"}
    BY <1>1, <1>2 DEF MigInv, MainOK, MmapLabel, CountsOK, Filling
  <2> QED
    BY <1>2, <2>1
    DEF AppStep, Allocation, Allocate, Counting, RemovePage, UncountPage, Unmap, Choose, Rotate,
        RotateBack, Take, Queue, RequestDone
<1>3. CASE InRound
  <2>1. pc[main] \in RequestLabel \cup {"count"}
    BY <1>1, <1>3 DEF MigInv, MainOK
  <2> QED
    BY <1>3, <2>1
    DEF AppStep, Allocation, Allocate, Place, Map, Publish, AddPage, Counting, RemovePage,
        UncountPage, Unmap, RequestLabel
<1>4. CASE at = "wait_total"
  <2>1. pc[main] \in {"munmap", "removed", "count"}
    BY <1>1, <1>4 DEF MigInv, MainOK
  <2> QED
    BY <1>4, <2>1
    DEF AppStep, Allocation, Allocate, Place, Map, Publish, AddPage, Counting, Choose, Rotate,
        RotateBack, Take, Queue, RequestDone
<1> QED
  BY <1>1, <1>2, <1>3, <1>4 DEF MigInv, MainOK, InRound

-----------------------------------------------------------------------------
(* The process does not die.                                                *)

\* In a round main() has no page in hand that is not in the table.
LEMMA RoundHands ==
  ASSUME MigInv, InRound
  PROVE  \A t \in Caller : ~Has(t) /\ pc[t] # "add" /\ pc[t] # "place"
<1>1. pc[FaultThread] = "poll" /\ pc[main] \in RequestLabel \cup {"count", "idle"}
      /\ call[main].op = "request"
  BY DEF MigInv, MainOK
<1> QED
  BY <1>1, Threads DEF Has, RequestLabel

\* The pages of the batch are present, and mapped at their address.
LEMMA BatchPresent ==
  ASSUME MigInv, NEW j \in 1 .. Len(batch.page),
         pc[Migrator] \in {"take_page", "take_next", "protect", "copy"}
  PROVE  LET p == batch.page[j]
         IN /\ p \in Page /\ pg[p].present /\ TierOf(p) = Source(batch.to)
            /\ Inside(p)
            /\ InRound => pg[p].va # 0 /\ pg[p].va \in VA /\ vm[pg[p].va] \in Frame
<1> DEFINE p == batch.page[j]
<1>1. p \in Page
  BY Unpacked
<1>2. j \in BatchPages
  BY DEF BatchPages
<1>3. Fits(pg, p, batch.to)
  BY <1>2 DEF MigInv, LibInv, Known, KindInv, BatchOK, PageOK
<1>4. batch.to \in ToList
  BY Unpacked
<1>5. pg[p].present /\ TierOf(p) = Source(batch.to)
  BY <1>3, <1>4, ListKinds DEF Fits, TierOf
<1>6. Inside(p)
  BY <1>1, <1>5 DEF MigInv, FramesOK, Live
<1>7. InRound => pg[p].va # 0 /\ pg[p].va \in VA /\ vm[pg[p].va] \in Frame
  <2>1. SUFFICES ASSUME InRound PROVE pg[p].va # 0 /\ pg[p].va \in VA /\ vm[pg[p].va] \in Frame
    OBVIOUS
  <2>2. pg[p].va # 0
    BY <1>1, <1>5, <2>1, RoundHands, Threads DEF MigInv, VasOK
  <2>3. p \in hashed
    BY <1>1, <2>1, <2>2, RoundHands DEF MigInv, VasOK, KnownVa, InRound
  <2> QED
    BY <2>2, <2>3, Unpacked DEF Track, TableOK
<1> QED
  BY <1>1, <1>5, <1>6, <1>7

\* In a round the batch is one of it.
LEMMA RoundBatch ==
  ASSUME MigInv, pc[Migrator] # "scan"
  PROVE  InRound /\ batch.to = Asked
  BY Unpacked DEF MigInv, QueuesOK

\* An entry of the batch is absent, of the tier the page moves to, and nowhere
\* else.
LEMMA EntryAlone ==
  ASSUME MigInv, NEW i \in BatchNexts,
         pc[Migrator] \in {"take_page", "take_next", "protect", "copy", "remap", "restore"}
  PROVE  LET n == batch.next[i]
         IN /\ n \in Page /\ ~pg[n].present /\ TierOf(n) = Target(batch.to)
            /\ \A l \in List : \A j \in 1 .. Len(list[l]) : list[l][j] # n
            /\ \A j \in BatchNexts : batch.next[j] = n => j = i
<1> DEFINE n == batch.next[i]
<1>1. Known /\ Running /\ TypeOK /\ OwnInv /\ LocalInv
  BY Unpacked DEF MigInv, LibInv, Known
<1>2. \A j \in BatchNexts : <<<<"next_page", j>>, batch.next[j]>> \in Hands
  BY SlotsFilled
<1>3. n \in Page
  <2>1. i \in 1 .. Len(batch.next)
    BY Unpacked DEF BatchNexts, MigratorOK
  <2> QED
    BY <2>1, Unpacked
<1>4. Fits(pg, n, FreeList(Target(batch.to)))
  BY <1>1 DEF Known, KindInv, BatchOK, NextOK
<1>5. Target(batch.to) \in Tier
  BY DEF Target, Tier
<1>6. ~pg[n].present /\ TierOf(n) = Target(batch.to)
  BY <1>4, <1>5, ListKinds DEF Fits, TierOf
<1>7. /\ \A l \in List : \A j \in 1 .. Len(list[l]) : list[l][j] # n
      /\ \A x : <<x, n>> \in Hands => x = <<"next_page", i>>
  <2>1. <<<<"next_page", i>>, n>> \in Hands
    BY <1>2
  <2> HIDE DEF n
  <2> QED
    BY <1>1, <1>3, <2>1, AloneInSlot
<1>8. ASSUME NEW j \in BatchNexts, batch.next[j] = n PROVE j = i
  BY <1>2, <1>7, <1>8
<1> QED
  BY <1>3, <1>6, <1>7, <1>8

\* Entries that are to pass on their frames are entries of the batch.
LEMMA AheadInBatch ==
  ASSUME MigInv, NEW j \in Ahead
  PROVE  /\ pc[Migrator] \in {"take_page", "take_next", "protect", "copy", "remap"}
         /\ j \in BatchNexts /\ j \in 1 .. Len(batch.next) /\ j \in 1 .. Len(batch.offset)
<1>1. pc[Migrator] \in {"take_page", "take_next", "protect", "copy", "remap"}
  BY DEF Ahead
<1>2. Len(batch.offset) = Len(batch.next) /\ (pc[Migrator] = "remap" => batch.i \in 1 .. batch.want)
  BY <1>1, Unpacked DEF MigratorOK
<1>3. batch.i \in Nat /\ Len(batch.next) \in Nat /\ batch.want \in Nat
  BY Unpacked
<1>4. j \in 1 .. Len(batch.next)
  BY <1>1, <1>2, <1>3 DEF Ahead
<1> QED
  BY <1>1, <1>2, <1>4 DEF BatchNexts

\* There is a free entry for every page that moves.
LEMMA EntryFree ==
  ASSUME MigInv, pc[Migrator] = "take_next"
  PROVE  list[FreeList(Target(batch.to))] # <<>>
<1>1. InRound /\ batch.to = Asked
  BY RoundBatch
<1>2. InTransit /\ Migrating
  BY <1>1 DEF MigInv, CountsOK
<1>3. FreeList(Dst) \in List /\ MmapList(Dst) \in List /\ Asked \in List /\ Dst \in Tier
  BY <1>1, RoundLists, ListNames
<1>4. /\ Len(list[FreeList(Dst)]) \in Nat /\ Len(list[MmapList(Dst)]) \in Nat
      /\ Len(list[Asked]) \in Nat /\ Left \in Nat
  <2>1. \A l \in List : Len(list[l]) \in Nat
    BY Unpacked
  <2>2. Left \in Nat
    BY Unpacked DEF Left
  <2> QED
    BY <1>3, <2>1, <2>2
<1>5. FramesIn(Dst) >= npage /\ FramesIn(Dst) \in Nat
  BY <1>3, Threads DEF FramesIn, Tier
<1>6. Held \in Nat
  BY Unpacked DEF Held
<1> DEFINE moved == Len(list[MmapList(Dst)])
           free == Len(list[FreeList(Dst)])
           queued == Len(list[Asked])
           inHand == Bit(pc[main] = "queue")
<1>7. moved + Held + queued + inHand = npage - Left /\ inHand \in Nat
  BY <1>2 DEF InTransit, Bit
<1>8. free + moved + Held - 1 = FramesIn(Dst)
  BY <1>2 DEF Migrating, Bit
<1>9. moved \in Nat /\ free \in Nat /\ queued \in Nat /\ npage \in Nat
  BY <1>4, Threads
<1> HIDE DEF moved, free, queued, inHand
<1>10. free > 0
  <2>1. moved + Held <= npage
    BY <1>4, <1>6, <1>7, <1>9
  <2>2. free = FramesIn(Dst) - (moved + Held) + 1
    <3>1. FramesIn(Dst) \in Nat
      BY <1>5
    <3> QED
      BY <1>6, <1>8, <1>9, <3>1
  <2>3. moved + Held <= FramesIn(Dst)
    BY <1>5, <1>6, <1>9, <2>1
  <2> QED
    BY <1>5, <1>6, <1>9, <2>2, <2>3
<1>11. Len(list[FreeList(Target(batch.to))]) > 0
  BY <1>1, <1>10 DEF free, Dst
<1> QED
  BY <1>11

\* Those that PageManager's invariants exclude are excluded for every client;
\* the others are excluded for this one.
LEMMA StaysAlive ==
  ASSUME MigInv, MigNext
  PROVE  Running'
<1>1. LibInv' /\ Running
  BY NextLib DEF MigInv
<1>2. ASSUME NEW why \in WrongKind \cup {"page already tracked", "NULL page"} PROVE ~Panic(why)
  <2>1. panic' \notin WrongKind \cup {"page already tracked", "NULL page"}
    BY <1>1 DEF LibInv, Known, KindInv, TrackInv, CountInv, NoNullPage
  <2> QED
    BY <1>2, <2>1 DEF Panic
<1>3. SUFFICES panic' = panic
  BY <1>1 DEF Running
<1>4. WrongKind = {"free page of the wrong kind", "mapped page of the wrong kind",
                   "page in the wrong tier"}
  BY DEF WrongKind
<1>5. CASE Main
  BY <1>5
  DEF Main, MapBuffer, MigrateDown, WaitDown, MigrateUp, WaitUp, UnmapBuffer, WaitTotal, Mmap,
      Request, Munmap, vars
<1>6. ASSUME AppStep(main) PROVE panic' = panic
  <2>1. Allocate(main, "dram") => panic' = panic
    BY <1>2, <1>4 DEF Allocate
  <2>2. AddPage(main) => panic' = panic
    BY <1>2 DEF AddPage
  <2>3. InRound => Requesting /\ Left \in Nat
    BY Unpacked DEF MigInv, CountsOK, Left
  <2>4. InRound => From(main) = MmapList(Src)
    BY DEF MigInv, MainOK, From, Src
  <2>5. InRound /\ Choose(main) => panic' = panic
    <3>1. ASSUME InRound, Choose(main) PROVE num[From(main)] # 0
      <4>1. num[From(main)] = Left + 0 /\ Left > 0
        BY <2>3, <2>4, <3>1 DEF Choose, Requesting, Left, Bit
      <4> QED
        BY <2>3, <3>1, <4>1
    <3> QED
      BY <3>1 DEF Choose
  <2>6. InRound /\ Rotate(main) => panic' = panic
    <3>1. ASSUME InRound, Rotate(main) PROVE list[From(main)] # <<>>
      <4>1. Left > 0 /\ pc[main] = "rotate"
        BY <3>1, Unpacked DEF Rotate, AppOK, Left
      <4>2. Len(list[From(main)]) = Left
        BY <2>3, <2>4, <3>1, <4>1, RoundLists, Unpacked DEF Requesting, Bit
      <4> QED
        BY <2>3, <4>1, <4>2
    <3> QED
      BY <3>1 DEF Rotate
  <2>7. Take(main) => panic' = panic
    BY <1>2, <1>4 DEF Take
  <2> QED
    BY <1>6, <2>1, <2>2, <2>5, <2>6, <2>7, CallSteps
    DEF Place, Map, Publish, LoadCounter, StoreCounter, RotateBack, Queue, RequestDone,
        RemovePage, UncountPage, Unmap
<1>7. ASSUME MigratorStep PROVE panic' = panic
  <2>1. TakePage => panic' = panic
    BY <1>2 DEF TakePage
  <2>2. TakeNext => panic' = panic
    BY EntryFree DEF TakeNext
  <2>3. Protect => panic' = panic
    <3>1. ASSUME Protect PROVE LET va == pg[batch.page[batch.i]].va IN va # 0 /\ vm[va] # Unmapped
      <4>1. InRound /\ pc[Migrator] = "protect"
        BY <3>1, RoundBatch DEF Protect
      <4>2. batch.i \in 1 .. Len(batch.page)
        BY <4>1, Unpacked DEF MigratorOK
      <4>3. Unmapped \notin Frame
        BY DEF Unmapped, Frame, Tier
      <4> QED
        BY <4>1, <4>2, <4>3, BatchPresent
    <3> QED
      BY <3>1 DEF Protect
  <2>4. Copy => panic' = panic
    <3>1. ASSUME Copy, NEW j \in 1 .. batch.want
          PROVE  /\ pg[batch.page[j]].devdax_offset < FramesIn(Source(batch.to))
                 /\ batch.offset[j] < FramesIn(Target(batch.to))
      <4>1. pc[Migrator] = "copy"
        BY <3>1 DEF Copy
      <4>2. j \in 1 .. Len(batch.page) /\ j \in 1 .. Len(batch.offset)
        BY <4>1, Unpacked DEF MigratorOK
      <4>3. TierOf(batch.page[j]) = Source(batch.to) /\ Inside(batch.page[j])
        BY <4>1, <4>2, BatchPresent
      <4>4. batch.offset[j] < FramesIn(Target(batch.to))
        <5>1. j \in Ahead
          BY <4>1, <4>2, Unpacked DEF MigratorOK, Ahead
        <5>2. Live(batch.next[j]) /\ batch.offset[j] = pg[batch.next[j]].devdax_offset
          BY <5>1 DEF Live, MigInv, FramesOK
        <5>3. batch.next[j] \in Page /\ TierOf(batch.next[j]) = Target(batch.to)
          BY <5>1, AheadInBatch, EntryAlone
        <5> QED
          BY <5>2, <5>3 DEF MigInv, FramesOK, Inside
      <4> QED
        BY <4>3, <4>4 DEF Inside
    <3>2. Copy => \A j \in 1 .. batch.want :
                    ~(\/ pg[batch.page[j]].devdax_offset >= FramesIn(Source(batch.to))
                      \/ batch.offset[j] >= FramesIn(Target(batch.to)))
      <4>1. SUFFICES ASSUME Copy, NEW j \in 1 .. batch.want
                     PROVE  ~(\/ pg[batch.page[j]].devdax_offset >= FramesIn(Source(batch.to))
                              \/ batch.offset[j] >= FramesIn(Target(batch.to)))
        OBVIOUS
      <4>2. pc[Migrator] = "copy"
        BY <4>1 DEF Copy
      <4>3. j \in 1 .. Len(batch.page) /\ j \in 1 .. Len(batch.offset)
        BY <4>2, Unpacked DEF MigratorOK
      <4>4. /\ pg[batch.page[j]].devdax_offset \in Nat /\ batch.offset[j] \in Nat
        <5>1. batch.page[j] \in Page /\ batch.offset[j] \in Nat
          <6>1. batch.page \in Seq(Page) /\ batch.offset \in Seq(Nat)
            BY Unpacked
          <6> QED
            BY <4>3, <6>1
        <5> QED
          BY <5>1, Unpacked DEF PageRecord
      <4>5. FramesIn(Source(batch.to)) \in Nat /\ FramesIn(Target(batch.to)) \in Nat
        BY Threads DEF FramesIn
      <4> QED
        BY <3>1, <4>1, <4>4, <4>5
    <3> QED
      BY <1>2, <1>4, <3>2 DEF Copy
  <2> QED
    BY <1>7, <2>1, <2>2, <2>3, <2>4
    DEF MigratorStep, Scan, Remap, Restore, RestoreNext, Counting, LoadCounter, StoreCounter
<1> QED
  BY <1>5, <1>6, <1>7, MainSteps

-----------------------------------------------------------------------------
(* Whom a step leaves alone.                                                *)

\* Nothing kills the process, so that no step is a death of it.
LEMMA NoDeath ==
  ASSUME MigInv, MigNext
  PROVE  ~Died /\ \A why : why # "none" => ~Panic(why)
  BY StaysAlive DEF Died, Panic, Running

\* The migration thread's step leaves main()'s thread where it is.
LEMMA MigratorFrame ==
  ASSUME MigInv, MigNext, MigratorStep
  PROVE  /\ UNCHANGED <<hashed, call, cur, panic>>
         /\ pc'[main] = pc[main] /\ pc'[FaultThread] = pc[FaultThread]
         /\ upd'[main] = upd[main] /\ reg'[main] = reg[main]
<1> USE Threads DEF Goto, StartCounting, LoopOver
<1>1. /\ pc \in [Thread -> Label] /\ upd \in [Thread -> Seq(UpdateRecord)]
      /\ reg \in [Thread -> Seq(Int)]
  BY Unpacked
<1>2. \A label : pc' = [pc EXCEPT ![Migrator] = label] =>
                   pc'[main] = pc[main] /\ pc'[FaultThread] = pc[FaultThread]
  BY <1>1
<1>3. \A u : upd' = [upd EXCEPT ![Migrator] = u] => upd'[main] = upd[main]
  BY <1>1
<1>4. \A r : reg' = [reg EXCEPT ![Migrator] = r] => reg'[main] = reg[main]
  BY <1>1
<1>5. CASE Scan \/ TakePage \/ TakeNext
  BY <1>2, <1>5, NoDeath DEF Scan, TakePage, TakeNext
<1>6. CASE Protect \/ Copy \/ Remap
  BY <1>2, <1>6, NoDeath DEF Protect, Copy, Remap
<1>7. CASE Restore
  BY <1>2, <1>7 DEF Restore
<1>8. CASE RestoreNext
  BY <1>2, <1>3, <1>8 DEF RestoreNext
<1>9. CASE LoadCounter(Migrator)
  BY <1>4, <1>9 DEF LoadCounter
<1>10. CASE StoreCounter(Migrator)
  <2>1. pc'[main] = pc[main] /\ pc'[FaultThread] = pc[FaultThread]
    BY <1>2, <1>10 DEF StoreCounter
  <2> QED
    BY <1>3, <1>4, <1>10, <2>1 DEF StoreCounter
<1> QED
  BY <1>5, <1>6, <1>7, <1>8, <1>9, <1>10 DEF MigratorStep, Counting

\* A step of main()'s thread leaves the others where they are.
LEMMA MainFrame ==
  ASSUME MigInv, MigNext, AppStep(main) \/ Main
  PROVE  /\ UNCHANGED <<batch, panic>>
         /\ pc'[Migrator] = pc[Migrator] /\ pc'[FaultThread] = pc[FaultThread]
         /\ upd'[Migrator] = upd[Migrator] /\ reg'[Migrator] = reg[Migrator]
         /\ \E label : pc' = [pc EXCEPT ![main] = label]
<1> USE Threads DEF Goto, StartCounting
<1>1. /\ pc \in [Thread -> Label] /\ upd \in [Thread -> Seq(UpdateRecord)]
      /\ reg \in [Thread -> Seq(Int)]
  BY Unpacked
<1> DEFINE P == \E label : pc' = [pc EXCEPT ![main] = label]
<1>2. P => pc'[Migrator] = pc[Migrator] /\ pc'[FaultThread] = pc[FaultThread]
  BY <1>1
<1>3. \A u : upd' = [upd EXCEPT ![main] = u] => upd'[Migrator] = upd[Migrator]
  BY <1>1
<1>4. \A r : reg' = [reg EXCEPT ![main] = r] => reg'[Migrator] = reg[Migrator]
  BY <1>1
<1>5. pc' = pc => P
  <2>1. pc = [pc EXCEPT ![main] = pc[main]]
    BY <1>1
  <2> QED
    BY <2>1
<1> DEFINE Q == P /\ UNCHANGED <<batch, panic>> /\ upd'[Migrator] = upd[Migrator]
                  /\ reg'[Migrator] = reg[Migrator]
<1>6. ASSUME Main PROVE Q
  <2>1. CASE WaitDown \/ WaitUp \/ WaitTotal
    BY <1>5, <2>1 DEF WaitDown, WaitUp, WaitTotal, vars
  <2>2. CASE MapBuffer \/ MigrateDown \/ MigrateUp \/ UnmapBuffer
    BY <2>2 DEF MapBuffer, MigrateDown, MigrateUp, UnmapBuffer, Mmap, Request, Munmap
  <2> QED
    BY <1>6, <2>1, <2>2 DEF Main
<1>7. ASSUME AppStep(main) PROVE Q
  <2>1. CASE Allocate(main, "dram") \/ Place(main) \/ Publish(main) \/ AddPage(main)
    BY <2>1, NoDeath DEF Allocate, Place, Publish, AddPage
  <2>2. CASE Map(main)
    BY <1>3, <2>2 DEF Map
  <2>3. CASE LoadCounter(main)
    BY <1>4, <1>5, <2>3 DEF LoadCounter
  <2>4. CASE StoreCounter(main)
    <3>1. P
      BY <1>5, <2>4 DEF StoreCounter
    <3> QED
      BY <1>3, <1>4, <2>4, <3>1 DEF StoreCounter
  <2>5. CASE Choose(main) \/ Rotate(main) \/ RotateBack(main) \/ Take(main)
    BY <2>5, NoDeath DEF Choose, Rotate, RotateBack, Take
  <2>6. CASE Queue(main) \/ RequestDone(main)
    BY <1>3, <2>6 DEF Queue, RequestDone
  <2>7. CASE UncountPage(main) \/ Unmap(main)
    BY <1>3, <2>7 DEF UncountPage, Unmap
  <2>8. CASE RemovePage(main)
    BY <1>5, <2>8 DEF RemovePage
  <2> QED
    BY <1>7, <2>1, <2>2, <2>3, <2>4, <2>5, <2>6, <2>7, <2>8, CallSteps
<1> QED
  BY <1>2, <1>6, <1>7

-----------------------------------------------------------------------------
(* Where the threads are, and their queues and registers.                   *)

\* What each call of main() leaves in the thread's variables.
LEMMA NextMainOK ==
  ASSUME MigInv, MigNext
  PROVE  MainOK'
<1> USE Threads DEF InRound, Asked, At, Then
<1>1. MainOK /\ call \in [Thread -> CallRecord] /\ pc \in [Thread -> Label]
  BY Unpacked DEF MigInv
<1>2. CASE Main /\ pc[main] = "idle"
  <2>1. pc'[FaultThread] = "poll" /\ pc'[Migrator] # "dead"
    BY <1>1, <1>2, MainFrame DEF MainOK
  <2>2. CASE MapBuffer
    BY <1>1, <2>1, <2>2 DEF MapBuffer, Mmap, RegionCall, MainOK, MmapLabel, Goto
  <2>3. CASE MigrateDown \/ MigrateUp
    BY <1>1, <2>1, <2>3 DEF MigrateDown, MigrateUp, Request, RequestCall, MainOK, RequestLabel, Goto
  <2>4. CASE UnmapBuffer
    BY <1>1, <2>1, <2>4 DEF UnmapBuffer, Munmap, RegionCall, MainOK, Goto
  <2>5. CASE WaitDown \/ WaitUp \/ WaitTotal
    BY <1>1, <2>1, <2>5 DEF WaitDown, WaitUp, WaitTotal, vars, MainOK
  <2> QED
    BY <1>2, <2>2, <2>3, <2>4, <2>5 DEF Main
<1>3. CASE MigratorStep /\ UNCHANGED at
  <2>1. pc'[Migrator] # "dead"
    BY <1>1, <1>3, NoDeath
    DEF MainOK, MigratorStep, Scan, TakePage, TakeNext, Protect, Copy, Remap, Restore, RestoreNext,
        Counting, LoadCounter, StoreCounter, AfterCounting, LoopOver, StartCounting, Goto
  <2> QED
    BY <1>1, <1>3, <2>1, MigratorFrame DEF MainOK
<1>4. CASE AppStep(main) /\ UNCHANGED at
  <2>0. pc'[FaultThread] = "poll" /\ pc'[Migrator] # "dead"
    BY <1>1, <1>4, MainFrame DEF MainOK
  <2>1. CASE at = "migrate_down" /\ \/ Allocate(main, "dram") \/ Place(main) \/ Map(main)
                                    \/ Publish(main) \/ LoadCounter(main)
    BY <1>1, <1>4, <2>0, <2>1, NoDeath
    DEF MainOK, Allocate, Place, Map, Publish, LoadCounter, MmapLabel, Goto, StartCounting
  <2>2. CASE at = "migrate_down" /\ AddPage(main)
    <3>1. /\ call'[main] = [call[main] EXCEPT !.va = @ + 1]
          /\ pc'[main] = IF call[main].va < call[main].hi THEN "alloc" ELSE "idle"
      BY <1>1, <2>2, NoDeath DEF AddPage, Goto
    <3>2. call'[main].op = call[main].op /\ call'[main].lo = call[main].lo
          /\ call'[main].hi = call[main].hi
      BY <1>1, <3>1 DEF CallRecord
    <3> QED
      BY <1>1, <1>4, <2>0, <2>2, <3>1, <3>2 DEF MainOK, MmapLabel
  <2>3. CASE StoreCounter(main)
    <3>1. call' = call /\ (pc' = pc \/ pc' = [pc EXCEPT ![main] = AfterCounting(main)])
      BY <2>3 DEF StoreCounter, Goto
    <3>2. AfterCounting(main) = CASE call[main].op = "request" -> "request"
                                  [] call[main].op = "mmap"    -> "publish"
                                  [] OTHER                     -> "munmap"
      BY DEF AfterCounting
    <3>3. pc[main] = "count"
      BY <2>3 DEF StoreCounter
    <3> QED
      BY <1>1, <1>4, <2>0, <3>1, <3>2, <3>3 DEF MainOK, MmapLabel, RequestLabel
  <2>4. CASE InRound /\ \/ Choose(main) \/ Rotate(main) \/ RotateBack(main) \/ Take(main)
                        \/ Queue(main) \/ RequestDone(main) \/ LoadCounter(main)
    <3>1. \/ call' = call
          \/ \E c : call' = [call EXCEPT ![main].choose = c]
          \/ \E n : call' = [call EXCEPT ![main].left = n]
      BY <2>4, NoDeath
      DEF Choose, Rotate, RotateBack, Take, Queue, RequestDone, LoadCounter, NextIteration
    <3>2. call'[main].op = call[main].op /\ call'[main].to = call[main].to
      BY <1>1, <3>1 DEF CallRecord
    <3>3. pc'[main] \in RequestLabel \cup {"count", "idle"}
      BY <1>1, <2>4, NoDeath
      DEF Choose, Rotate, RotateBack, Take, Queue, RequestDone, LoadCounter, RequestLabel, Goto,
          StartCounting
    <3> QED
      BY <1>1, <1>4, <2>0, <2>4, <3>2, <3>3 DEF MainOK
  <2>5. CASE at = "wait_total" /\ \/ RemovePage(main) \/ UncountPage(main) \/ Unmap(main)
                                  \/ LoadCounter(main)
    <3>1. call' = call \/ call' = [call EXCEPT ![main].va = @ + 1]
      BY <2>5 DEF RemovePage, UncountPage, Unmap, LoadCounter
    <3>2. call'[main].op = call[main].op /\ call'[main].lo = call[main].lo
          /\ call'[main].hi = call[main].hi
      BY <1>1, <3>1 DEF CallRecord
    <3>3. pc'[main] \in {"munmap", "removed", "count", "idle"}
      BY <1>1, <2>5 DEF RemovePage, UncountPage, Unmap, LoadCounter, Goto, StartCounting
    <3> QED
      BY <1>1, <1>4, <2>0, <2>5, <3>2, <3>3 DEF MainOK
  <2> QED
    BY <1>4, <2>1, <2>2, <2>3, <2>4, <2>5, CallSteps
<1> QED
  BY <1>2, <1>3, <1>4, MainSteps

\* When the counter of the round is zero, nothing is left of the round.
LEMMA RoundOver ==
  ASSUME MigInv, pc[main] = "idle", NEW to \in ToList, num[to] = 0
  PROVE  list[to] = <<>> /\ (batch.to = to => pc[Migrator] = "scan")
<1>1. Uncounted(to) = {}
  BY Threads DEF Uncounted
<1>2. num[to] = Len(list[to]) + InBatch(to) - Cardinality(Uncounted(to))
      /\ num[to] >= IF batch.to = to THEN batch.want ELSE 0
  BY DEF MigInv, LibInv, CountInv, QueueCountExact, CountersOK
<1>3. Cardinality(Uncounted(to)) = 0
  BY <1>1, FS_EmptySet
<1>4. list[to] \in Seq(Page) /\ Len(list[to]) \in Nat /\ InBatch(to) \in Nat
  BY Unpacked, ListNames DEF InBatch
<1>5. Len(list[to]) = 0
  BY <1>2, <1>3, <1>4
<1>6. list[to] = <<>>
  BY <1>4, <1>5
<1>7. ASSUME batch.to = to PROVE pc[Migrator] = "scan"
  <2>1. batch.want = 0
    BY <1>2, <1>7, Unpacked
  <2>2. pc[Migrator] = "count" => InRound
    BY RoundBatch
  <2>3. pc[Migrator] = "count" => batch.want > 0
    BY <2>2 DEF MigInv, CountsOK, Migrating
  <2>4. pc[Migrator] # "count"
    BY <2>1, <2>3
  <2>5. pc[Migrator] # "dead"
    BY DEF MigInv, MainOK
  <2>6. Len(batch.page) \in Nat /\ batch.i \in Nat
    BY Unpacked
  <2> QED
    BY <2>1, <2>4, <2>5, <2>6, Unpacked DEF MigratorOK, MigratorLabel
<1> QED
  BY <1>6, <1>7

\* main() makes a call between two rounds without touching a list.
LEMMA MainLists ==
  ASSUME Main
  PROVE  UNCHANGED <<list, num, pg, hashed, cur, upd, reg>>
  BY DEF Main, MapBuffer, MigrateDown, WaitDown, MigrateUp, WaitUp, UnmapBuffer, WaitTotal, Mmap,
         Request, Munmap, vars

\* The round's list is the only one that fills, and the batch is taken from it.
LEMMA NextQueuesOK ==
  ASSUME MigInv, MigNext
  PROVE  QueuesOK'
<1> USE Threads DEF InRound, Asked
<1>1. QueuesOK /\ MainOK /\ list \in [List -> Seq(Page)] /\ batch \in BatchRecord
      /\ pc \in [Thread -> Label]
  BY Unpacked DEF MigInv
<1>2. CASE Main /\ pc[main] = "idle"
  <2>1. UNCHANGED <<list, batch>> /\ pc'[Migrator] = pc[Migrator]
    BY <1>2, MainLists, MainFrame
  <2>2. CASE WaitDown \/ WaitUp
    <3>1. InRound /\ num[Asked] = 0 /\ Asked \in ToList
      BY <2>2, RoundLists DEF WaitDown, WaitUp, At
    <3>2. list[Asked] = <<>> /\ (batch.to = Asked => pc[Migrator] = "scan")
      BY <1>2, <3>1, RoundOver
    <3> QED
      BY <1>1, <2>1, <3>2 DEF QueuesOK
  <2>3. CASE MapBuffer \/ MigrateDown \/ MigrateUp \/ UnmapBuffer \/ WaitTotal
    BY <1>1, <2>1, <2>3 DEF QueuesOK, MapBuffer, MigrateDown, MigrateUp, UnmapBuffer, WaitTotal, At
  <2> QED
    BY <1>2, <2>2, <2>3 DEF Main
<1>3. CASE AppStep(main) /\ UNCHANGED at
  <2>1. batch' = batch /\ pc'[Migrator] = pc[Migrator]
    BY <1>3, MainFrame
  <2>2. CASE Queue(main)
    <3>1. InRound /\ call[main].to = Asked
      BY <1>1, <1>3, <2>2, CallSteps DEF Queue, MainOK, MmapLabel
    <3>2. \A to \in ToList \ {Asked} : list'[to] = list[to]
      BY <1>1, <2>2, <3>1, ListNames DEF Queue, Enqueue
    <3> QED
      BY <1>1, <1>3, <2>1, <3>1, <3>2 DEF QueuesOK
  <2>3. CASE ~Queue(main)
    <3>1. list' = list \/ \E l \in List \ ToList : \E s : list' = [list EXCEPT ![l] = s]
      BY <1>3, <2>3, CallSteps, ListNames, NoDeath
      DEF Allocate, Place, Map, Publish, AddPage, LoadCounter, StoreCounter, Choose, Rotate,
          RotateBack, Take, RequestDone, RemovePage, UncountPage, Unmap, Dequeue, Enqueue
    <3>2. \A to \in ToList : list'[to] = list[to]
      BY <1>1, <3>1, ListNames
    <3> QED
      BY <1>1, <1>3, <2>1, <3>2 DEF QueuesOK
  <2> QED
    BY <2>2, <2>3
<1>4. CASE MigratorStep /\ UNCHANGED at
  <2>1. CASE ~InRound
    BY <1>1, <1>4, <2>1, OnlyScans DEF QueuesOK
  <2>2. CASE InRound /\ Scan
    <3>1. batch.to # Asked => num[batch.to] = 0
      <4>1. SUFFICES ASSUME batch.to # Asked PROVE num[batch.to] = 0
        OBVIOUS
      <4>2. batch.to \in ToList /\ list[batch.to] = <<>> /\ batch.page = <<>>
        BY <1>1, <2>2, <4>1, Unpacked DEF QueuesOK, Scan, MigratorOK, EmptyBatch
      <4>3. Uncounted(batch.to) = {}
        BY <1>1, <2>2, <4>1 DEF Uncounted, MainOK
      <4>4. num[batch.to] = Len(list[batch.to]) + InBatch(batch.to) - Cardinality(Uncounted(batch.to))
        BY <4>2 DEF MigInv, LibInv, CountInv, QueueCountExact
      <4> QED
        BY <4>2, <4>3, <4>4, FS_EmptySet DEF InBatch
    <3>2. CASE num[batch.to] = 0
      <4>1. list' = list /\ pc' = pc /\ pc[Migrator] = "scan"
        BY <2>2, <3>2 DEF Scan
      <4> QED
        BY <1>1, <1>4, <2>2, <4>1 DEF QueuesOK
    <3>3. CASE num[batch.to] # 0
      <4>1. list' = list /\ batch.to = Asked /\ batch'.to = batch.to
        BY <1>1, <2>2, <3>1, <3>3 DEF Scan, BatchRecord
      <4> QED
        BY <1>1, <1>4, <2>2, <4>1 DEF QueuesOK
    <3> QED
      BY <3>2, <3>3
  <2>3. CASE InRound /\ ~Scan
    <3>1. batch.to = Asked
      BY <1>4, <2>3, RoundBatch
      DEF MigratorStep, Counting, LoadCounter, StoreCounter, TakePage, TakeNext, Protect, Copy,
          Remap, Restore, RestoreNext
    <3>2. batch'.to = batch.to
      <4>1. CASE TakePage \/ TakeNext \/ Copy
        BY <1>1, <4>1, NoDeath DEF TakePage, TakeNext, Copy, BatchRecord
      <4>2. CASE Protect \/ Remap \/ Restore
        BY <1>1, <4>2, NoDeath DEF Protect, Remap, Restore, LoopOver, BatchRecord
      <4>3. CASE RestoreNext \/ LoadCounter(Migrator)
        BY <1>1, <4>3 DEF RestoreNext, LoadCounter, BatchRecord
      <4>4. CASE StoreCounter(Migrator)
        BY <1>1, <4>4 DEF StoreCounter, EmptyBatch
      <4> QED
        BY <1>4, <2>3, <4>1, <4>2, <4>3, <4>4 DEF MigratorStep, Counting
    <3>3. list' = list \/ \E l \in (List \ ToList) \cup {Asked} : \E s : list' = [list EXCEPT ![l] = s]
      BY <1>4, <2>3, <3>1, ListNames, NoDeath
      DEF MigratorStep, Counting, LoadCounter, StoreCounter, TakePage, TakeNext, Protect, Copy,
          Remap, Restore, RestoreNext, Enqueue, Dequeue
    <3>4. \A to \in ToList \ {Asked} : list'[to] = list[to]
      BY <1>1, <3>3, ListNames
    <3> QED
      BY <1>1, <1>4, <2>3, <3>1, <3>2, <3>4 DEF QueuesOK
  <2> QED
    BY <2>1, <2>2, <2>3
<1> QED
  BY <1>2, <1>3, <1>4, MainSteps

\* Two threads update counters at the same time only in a round, and then both
\* hold stats_lock.
LEMMA OneCounts ==
  ASSUME MigInv, NEW t \in Thread, StoreCounter(t), NEW u \in Thread \ {t}
  PROVE  reg[u] = NoReg
<1> USE Threads
<1>1. RegistersOK /\ Running /\ MainOK
  BY DEF MigInv, LibInv, CountInv
<1>2. SUFFICES ASSUME reg[u] # NoReg PROVE FALSE
  OBVIOUS
<1>3. pc[t] = "count" /\ pc[u] = "count" /\ lock[CounterLock(t)] = t /\ lock[CounterLock(u)] = u
  BY <1>1, <1>2 DEF StoreCounter, RegistersOK
<1>4. {t, u} = {main, Migrator}
  BY <1>1, <1>3 DEF MainOK
<1>5. InRound
  BY <1>3, <1>4, RoundBatch
<1>6. call[main].op = "request"
  BY <1>1, <1>5 DEF MainOK
<1>7. CounterLock(t) = CounterLock(u)
  BY <1>4, <1>6 DEF CounterLock
<1> QED
  BY <1>3, <1>7

\* So no update is lost.
LEMMA NextRegsExact ==
  ASSUME MigInv, MigNext
  PROVE  RegsExact'
<1> USE Threads
<1>1. /\ RegsExact /\ RegistersOK /\ Running
      /\ reg \in [Thread -> Seq(Int)] /\ upd \in [Thread -> Seq(UpdateRecord)]
  BY Unpacked DEF MigInv, LibInv, CountInv
<1>2. ASSUME num' = num, reg' = reg,
             \A t \in Thread : upd'[t] = upd[t] \/ pc[t] # "count"
      PROVE  RegsExact'
  BY <1>1, <1>2 DEF RegsExact, RegistersOK
<1>3. ASSUME NEW t \in Thread, StoreCounter(t)
      PROVE  RegsExact'
  <2>1. \A u \in Thread : reg'[u] = NoReg
    BY <1>1, <1>3, OneCounts DEF StoreCounter
  <2> QED
    BY <2>1 DEF RegsExact
<1>4. ASSUME NEW t \in Thread, LoadCounter(t)
      PROVE  RegsExact'
  <2>1. num' = num /\ upd' = upd /\ reg' = [reg EXCEPT ![t] = <<num[Head(upd[t]).counter]>>]
    BY <1>4 DEF LoadCounter
  <2>2. \A u \in Thread : reg'[u] = reg[u] \/ reg'[u] = <<num[Head(upd[u]).counter]>>
    BY <1>1, <2>1
  <2> QED
    BY <1>1, <2>1, <2>2 DEF RegsExact
<1>5. CASE Main
  BY <1>2, <1>5, MainLists
<1>6. CASE MigratorStep
  BY <1>1, <1>2, <1>3, <1>4, <1>6, NoDeath
  DEF MigratorStep, Counting, Scan, TakePage, TakeNext, Protect, Copy, Remap, Restore, RestoreNext,
      StartCounting
<1>7. CASE AppStep(main)
  BY <1>1, <1>2, <1>3, <1>4, <1>7, NoDeath, CallSteps
  DEF Allocate, Place, Map, Publish, AddPage, Choose, Rotate, RotateBack, Take, Queue, RequestDone,
      RemovePage, UncountPage, Unmap, StartCounting
<1> QED
  BY <1>5, <1>6, <1>7, MainSteps

-----------------------------------------------------------------------------
(* The sums.                                                                *)

\* What the operations on a list do to its length.
LEMMA DequeueLen ==
  ASSUME MigInv, NEW l \in List, list[l] # <<>>, Dequeue(l)
  PROVE  /\ Len(list'[l]) = Len(list[l]) - 1 /\ Len(list[l]) \in Nat
         /\ \A k \in List \ {l} : list'[k] = list[k]
<1>1. list \in [List -> Seq(Page)]
  BY Unpacked
<1> QED
  BY <1>1 DEF Dequeue
LEMMA EnqueueLen ==
  ASSUME MigInv, NEW l \in List, NEW p \in Page, Enqueue(l, p)
  PROVE  /\ Len(list'[l]) = Len(list[l]) + 1 /\ Len(list[l]) \in Nat
         /\ \A k \in List \ {l} : list'[k] = list[k]
<1>1. list \in [List -> Seq(Page)]
  BY Unpacked
<1> QED
  BY <1>1 DEF Enqueue

\* A store adds what is to be added to the value of the counter.
LEMMA StoreAdds ==
  ASSUME MigInv, NEW t \in Thread, StoreCounter(t), NEW c \in List, NEW d \in Int,
         Head(upd[t]) = [counter |-> c, delta |-> d]
  PROVE  /\ num'[c] = num[c] + d /\ \A k \in List \ {c} : num'[k] = num[k]
         /\ upd'[t] = Tail(upd[t]) /\ UNCHANGED <<list, pg, hashed, vm, call, cur, panic>>
         /\ Len(upd[t]) # 1 => UNCHANGED <<pc, batch>>
         /\ Len(upd[t]) = 1 => pc'[t] = AfterCounting(t)
<1>1. reg[t][1] = num[Head(upd[t]).counter] /\ Head(upd[t]).counter = c /\ Head(upd[t]).delta = d
  BY DEF MigInv, RegsExact, StoreCounter
<1>2. num \in [List -> Int] /\ upd \in [Thread -> Seq(UpdateRecord)] /\ pc \in [Thread -> Label]
  BY Unpacked
<1>3. num' = [num EXCEPT ![c] = num[c] + d]
  BY <1>1 DEF StoreCounter
<1> QED
  BY <1>2, <1>3 DEF StoreCounter, Goto

\* While main() fills the buffer.
LEMMA FillingSteps ==
  ASSUME MigInv, MigNext, at = "migrate_down", AppStep(main), at' = at
  PROVE  Filling'
<1> USE Threads
<1>1. /\ Filling /\ call[main].op = "mmap" /\ call[main].lo = 1 /\ call[main].hi = npage
  BY DEF MigInv, CountsOK, MainOK
<1>2. /\ pc \in [Thread -> Label] /\ call \in [Thread -> CallRecord] /\ pg \in [Page -> PageRecord]
      /\ cur \in [Thread -> Page \cup {NoPage}] /\ upd \in [Thread -> Seq(UpdateRecord)]
      /\ num \in [List -> Int] /\ call[main].va \in Nat /\ list \in [List -> Seq(Page)]
  BY Unpacked
<1>3. Fills(main) => call[main].va \in 1 .. npage
  <2>1. FillOK(main)
    BY Unpacked DEF Track, Caller
  <2> QED
    BY <1>1, <1>2, <2>1 DEF FillOK
<1>4. {"dram_mmap_list", "dram_free_list", "nvm_mmap_list", "nvm_free_list"} \subseteq List
  BY DEF List
<1>5. CASE Allocate(main, "dram")
  <2>1. pc[main] = "alloc" /\ call[main].va \in 1 .. npage
    BY <1>3, <1>5 DEF Allocate, Fills
  <2>2. Len(list["dram_free_list"]) = FASTMEM_PAGES - (call[main].va - 1)
    BY <1>1, <2>1 DEF Filling, Bit
  <2>3. list["dram_free_list"] # <<>>
    BY <2>1, <2>2
  <2>4. /\ Dequeue("dram_free_list") /\ TierOf(cur'[main]) = "dram" /\ pc'[main] = "place"
        /\ UNCHANGED <<num, pg, call>>
    BY <1>2, <1>5, <2>3, NoDeath DEF Allocate, FreeList, Goto
  <2>5. Len(list'["dram_free_list"]) = Len(list["dram_free_list"]) - 1
        /\ \A l \in List \ {"dram_free_list"} : list'[l] = list[l]
    BY <1>4, <2>3, <2>4, DequeueLen
  <2>6. TierOf(cur[main])' = "dram"
    BY <2>4 DEF TierOf
  <2> QED
    BY <1>1, <1>2, <1>4, <2>1, <2>2, <2>4, <2>5, <2>6 DEF Filling, Bit
<1>6. CASE Place(main)
  <2>1. pc[main] = "place" /\ TierOf(cur[main]) = "dram" /\ cur[main] \in Page
    BY <1>1, <1>6, Unpacked DEF Filling, Place, AppOK, HoldingLabel
  <2>2. /\ Enqueue("dram_mmap_list", cur[main]) /\ pc'[main] = "map" /\ UNCHANGED <<num, call, cur>>
        /\ pg' = [pg EXCEPT ![cur[main]].present = TRUE]
    BY <1>2, <1>6, <2>1 DEF Place, MmapList, Goto
  <2>3. Len(list'["dram_mmap_list"]) = Len(list["dram_mmap_list"]) + 1
        /\ \A l \in List \ {"dram_mmap_list"} : list'[l] = list[l]
        /\ Len(list["dram_mmap_list"]) \in Nat
    BY <1>4, <2>1, <2>2, EnqueueLen
  <2>4. TierOf(cur[main])' = "dram"
    BY <1>2, <2>1, <2>2 DEF TierOf, PageRecord
  <2>5. pc'[main] = "map" /\ num' = num /\ call' = call
    BY <2>2
  <2>6. /\ Len(list["dram_mmap_list"]) = call[main].va - 1
        /\ Len(list["dram_free_list"]) = FASTMEM_PAGES - (call[main].va - 1) - 1
    BY <1>1, <1>2, <2>1, <2>3 DEF Filling, Bit
  <2>7. Len(list'["dram_mmap_list"]) = call[main].va - 1 + 1
        /\ \A l \in List \ {"dram_mmap_list"} : list'[l] = list[l]
    BY <2>3, <2>6
  <2> QED
    BY <1>1, <1>4, <2>1, <2>4, <2>5, <2>6, <2>7 DEF Filling, Bit
<1>7. CASE Map(main)
  <2>1. pc[main] = "map" /\ TierOf(cur[main]) = "dram"
    BY <1>1, <1>7 DEF Filling, Map
  <2>2. /\ pc'[main] = "count" /\ UNCHANGED <<list, num, call>>
        /\ upd'[main] = <<[counter |-> "dram_mmap_list", delta |-> 1],
                          [counter |-> "dram_free_list", delta |-> -1]>>
    BY <1>2, <1>7, <2>1 DEF Map, StartCounting, Goto, MmapList, FreeList
  <2>3. Len(upd'[main]) = 2
    BY <2>2
  <2> QED
    BY <1>1, <1>2, <2>1, <2>2, <2>3 DEF Filling, Bit
<1>8. CASE LoadCounter(main)
  BY <1>1, <1>8 DEF Filling, LoadCounter, TierOf
<1>9. CASE StoreCounter(main)
  <2>1. pc[main] = "count" /\ UNCHANGED <<list, call, cur, pg>>
    BY <1>9 DEF StoreCounter
  <2>2. CASE upd[main] = <<[counter |-> "dram_mmap_list", delta |-> 1],
                           [counter |-> "dram_free_list", delta |-> -1]>>
    <3>1. Head(upd[main]) = [counter |-> "dram_mmap_list", delta |-> 1] /\ Len(upd[main]) = 2
          /\ Tail(upd[main]) = <<[counter |-> "dram_free_list", delta |-> -1]>>
      BY <2>2
    <3>2. /\ num'["dram_mmap_list"] = num["dram_mmap_list"] + 1
          /\ \A k \in List \ {"dram_mmap_list"} : num'[k] = num[k]
          /\ upd'[main] = Tail(upd[main]) /\ (Len(upd[main]) # 1 => pc' = pc)
      BY <1>4, <1>9, <3>1, StoreAdds
    <3>3. pc' = pc /\ upd'[main] = <<[counter |-> "dram_free_list", delta |-> -1]>>
      BY <3>1, <3>2
    <3>4. Len(upd'[main]) = 1
      BY <3>3
    <3>5. num'["dram_mmap_list"] = call[main].va - 1 + 1
      <4>1. num["dram_mmap_list"] = call[main].va - 1 + 0
        BY <1>1, <2>1, <3>1 DEF Filling, Bit
      <4> QED
        BY <1>2, <3>2, <4>1
    <3>6. \A l \in List \ {"dram_mmap_list"} : num'[l] = num[l]
      BY <3>2
    <3> QED
      BY <1>1, <1>4, <2>1, <3>3, <3>4, <3>5, <3>6 DEF Filling, Bit, TierOf
  <2>3. CASE upd[main] = <<[counter |-> "dram_free_list", delta |-> -1]>>
    <3>1. Head(upd[main]) = [counter |-> "dram_free_list", delta |-> -1] /\ Len(upd[main]) = 1
      BY <2>3
    <3>2. /\ num'["dram_free_list"] = num["dram_free_list"] + (-1)
          /\ \A k \in List \ {"dram_free_list"} : num'[k] = num[k]
          /\ pc'[main] = AfterCounting(main)
      BY <1>4, <1>9, <3>1, StoreAdds
    <3>3. pc'[main] = "publish"
      BY <1>1, <3>2 DEF AfterCounting
    <3>4. num["dram_mmap_list"] = call[main].va - 1 + 1
          /\ num["dram_free_list"] = FASTMEM_PAGES - (call[main].va - 1)
      BY <1>1, <1>2, <2>1, <3>1 DEF Filling, Bit
    <3>5. num'["dram_free_list"] = FASTMEM_PAGES - (call[main].va - 1) - 1
      BY <1>2, <3>2, <3>4
    <3>6. \A l \in List \ {"dram_free_list"} : num'[l] = num[l]
      BY <3>2
    <3> QED
      BY <1>1, <1>4, <2>1, <3>3, <3>4, <3>5, <3>6 DEF Filling, Bit
  <2> QED
    BY <1>1, <2>1, <2>2, <2>3 DEF Filling
<1>10. CASE Publish(main)
  <2>1. pc[main] = "publish" /\ pc'[main] = "add" /\ UNCHANGED <<list, num, call>>
    BY <1>2, <1>10 DEF Publish, Goto
  <2> QED
    BY <1>1, <2>1 DEF Filling, Bit
<1>11. CASE AddPage(main)
  <2>1. pc[main] = "add" /\ call[main].va \in 1 .. npage
    BY <1>3, <1>11 DEF AddPage, Fills, Has
  <2>2. /\ call'[main] = [call[main] EXCEPT !.va = @ + 1] /\ UNCHANGED <<list, num>>
        /\ pc'[main] = IF call[main].va < call[main].hi THEN "alloc" ELSE "idle"
    BY <1>2, <1>11, NoDeath DEF AddPage, Goto
  <2>3. call'[main].va = call[main].va + 1
    BY <1>2, <2>2 DEF CallRecord
  <2> DEFINE done == call[main].va - 1
             done2 == call'[main].va - 1
  <2>4. done2 = done + 1 /\ done \in Nat /\ (pc'[main] = "idle" => done2 = npage)
    <3>1. done2 = done + 1 /\ done \in Nat
      BY <2>1, <2>3
    <3>2. pc'[main] = "idle" => done2 = npage
      BY <1>1, <2>1, <2>2, <2>3
    <3> QED
      BY <3>1, <3>2
  <2>5. /\ Len(list["dram_mmap_list"]) = done + 1
        /\ Len(list["dram_free_list"]) = FASTMEM_PAGES - done - 1
        /\ num["dram_mmap_list"] = done + 1 /\ num["dram_free_list"] = FASTMEM_PAGES - done - 1
        /\ list["nvm_mmap_list"] = <<>> /\ num["nvm_mmap_list"] = 0
        /\ Len(list["nvm_free_list"]) = SLOWMEM_PAGES /\ num["nvm_free_list"] = SLOWMEM_PAGES
    BY <1>1, <2>1 DEF Filling, Bit
  <2> HIDE DEF done, done2
  <2>6. /\ Len(list'["dram_mmap_list"]) = done2 /\ num'["dram_mmap_list"] = done2
        /\ Len(list'["dram_free_list"]) = FASTMEM_PAGES - done2
        /\ num'["dram_free_list"] = FASTMEM_PAGES - done2
    BY <2>2, <2>4, <2>5
  <2>7. pc'[main] \in {"alloc", "idle"}
    BY <2>2
  <2> QED
    BY <2>2, <2>4, <2>5, <2>6, <2>7 DEF Filling, Bit, done2
<1> QED
  BY <1>5, <1>6, <1>7, <1>8, <1>9, <1>10, <1>11, CallSteps DEF InRound

\* The names of a round do not change in it.
LEMMA SameRound ==
  ASSUME at' = at
  PROVE  InRound' = InRound /\ Asked' = Asked /\ Src' = Src /\ Dst' = Dst
  BY DEF InRound, Asked, Src, Dst

\* The stages of the batch: which page it is at, and what it has in its hands.
LEMMA Stages ==
  ASSUME MigInv
  PROVE  /\ pc[Migrator] = "scan" => Held = 0 /\ Back = 0 /\ Freed = 0 /\ Taken = 0
         /\ pc[Migrator] \in {"take_page", "take_next", "protect", "copy", "remap"} =>
              Held = Len(batch.page) /\ Back = 0 /\ Freed = 0 /\ Taken = Len(batch.next)
         /\ pc[Migrator] = "restore" => /\ Held = batch.want - batch.i + 1
                                        /\ Back = batch.i - 1 /\ Freed = batch.i - 1
                                        /\ Taken = Len(batch.next)
         /\ pc[Migrator] = "restore_next" => /\ Held = batch.want - batch.i
                                             /\ Back = batch.i /\ Freed = batch.i - 1
                                             /\ Taken = Len(batch.next)
         /\ pc[Migrator] = "count" => Held = 0
         /\ Held \in Int /\ Back \in Int /\ Freed \in Int /\ Taken \in Int
<1>1. pc[Migrator] = "scan" => batch.next = <<>>
  BY Unpacked DEF MigratorOK, EmptyBatch
<1>2. Len(batch.page) \in Nat /\ Len(batch.next) \in Nat /\ batch.i \in Nat /\ batch.want \in Nat
  BY Unpacked
<1> QED
  BY <1>1, <1>2 DEF Held, Back, Freed, Taken

\* In a round main() takes from one list and puts on another.
LEMMA RoundCall ==
  ASSUME MigInv, InRound
  PROVE  /\ call[main].op = "request" /\ call[main].to = Asked /\ From(main) = MmapList(Src)
         /\ Asked \in List /\ MmapList(Src) \in List /\ Asked # MmapList(Src)
         /\ Asked \notin {MmapList(Dst), FreeList(Src), FreeList(Dst)}
         /\ Left \in Nat /\ Requesting /\ InTransit /\ Migrating
         /\ Len(list[MmapList(Src)]) \in Nat /\ Len(list[MmapList(Dst)]) \in Nat
         /\ Len(list[FreeList(Src)]) \in Nat /\ Len(list[FreeList(Dst)]) \in Nat
         /\ Len(list[Asked]) \in Nat /\ npage \in Nat
         /\ \A l \in List : num[l] \in Int
<1>1. call[main].op = "request" /\ call[main].to = Asked
  BY DEF MigInv, MainOK
<1>2. From(main) = MmapList(Src)
  BY <1>1 DEF From, Src
<1>3. /\ Asked \in List /\ MmapList(Src) \in List /\ Asked # MmapList(Src)
      /\ Asked \notin {MmapList(Dst), FreeList(Src), FreeList(Dst)}
      /\ {MmapList(Dst), FreeList(Src), FreeList(Dst)} \subseteq List
  BY RoundLists, ListNames
<1>4. Left \in Nat /\ Requesting /\ InTransit /\ Migrating
  BY Unpacked DEF MigInv, CountsOK, Left
<1>5. \A l \in List : Len(list[l]) \in Nat /\ num[l] \in Int
  BY Unpacked
<1> QED
  BY <1>1, <1>2, <1>3, <1>4, <1>5, Threads

\* main() leaves the migration thread's lists and counters alone.
LEMMA RequestFrame ==
  ASSUME MigInv, MigNext, InRound, AppStep(main), at' = at
  PROVE  /\ \A l \in {MmapList(Dst), FreeList(Src), FreeList(Dst)} :
              list'[l] = list[l] /\ num'[l] = num[l]
         /\ Migrating'
<1> USE Threads
<1>1. /\ list \in [List -> Seq(Page)] /\ num \in [List -> Int] /\ AppOK(main)
  BY Unpacked
<1> DEFINE Theirs == {MmapList(Dst), FreeList(Src), FreeList(Dst)}
           Ours   == {MmapList(Src), Asked}
           Apart == \A l \in Theirs : list'[l] = list[l] /\ num'[l] = num[l]
<1>2. Theirs \subseteq List /\ Ours \subseteq List /\ Theirs \cap Ours = {}
  BY RoundLists, ListNames
<1>3. From(main) \in Ours /\ call[main].to \in Ours
  BY RoundCall
<1>4. ASSUME StoreCounter(main) PROVE Apart
  <2>1. Head(upd[main]).counter \in Ours
    <3>1. pc[main] = "count" /\ call[main].op = "request"
      BY <1>4, RoundCall DEF StoreCounter
    <3>2. \/ upd[main] = <<[counter |-> call[main].to, delta |-> 1],
                           [counter |-> From(main), delta |-> -1]>>
          \/ upd[main] = <<[counter |-> From(main), delta |-> -1]>>
      BY <1>1, <3>1 DEF AppOK
    <3> QED
      BY <1>3, <3>2
  <2>2. /\ list' = list
        /\ num' = [num EXCEPT ![Head(upd[main]).counter] = reg[main][1] + Head(upd[main]).delta]
    BY <1>4 DEF StoreCounter
  <2> HIDE DEF Theirs, Ours
  <2> QED
    BY <1>1, <1>2, <2>1, <2>2
<1>5. ASSUME ~StoreCounter(main) PROVE Apart
  <2>1. /\ num' = num
        /\ list' = list \/ \E l \in Ours : \E s : list' = [list EXCEPT ![l] = s]
    BY <1>3, <1>5, CallSteps, NoDeath
    DEF Choose, Rotate, RotateBack, Take, Queue, RequestDone, LoadCounter, Enqueue, Dequeue, InRound
  <2> HIDE DEF Theirs, Ours
  <2> QED
    BY <1>1, <1>2, <2>1
<1>6. \A l \in {MmapList(Dst), FreeList(Src), FreeList(Dst)} : list'[l] = list[l] /\ num'[l] = num[l]
  BY <1>4, <1>5
<1>7. Migrating'
  <2>1. batch' = batch /\ pc'[Migrator] = pc[Migrator] /\ upd'[Migrator] = upd[Migrator]
    BY MainFrame
  <2>2. Back' = Back /\ Taken' = Taken /\ Freed' = Freed /\ Held' = Held
    BY <2>1 DEF Back, Taken, Freed, Held
  <2>3. Migrating
    BY RoundCall
  <2>4. Asked' = Asked /\ Src' = Src /\ Dst' = Dst
    BY SameRound
  <2>5. Ending' = Ending
    BY <2>1, <2>4 DEF Ending, Updates
  <2> QED
    BY <1>6, <2>1, <2>2, <2>3, <2>4, <2>5 DEF Migrating, Bit
<1> QED
  BY <1>6, <1>7

\* Every iteration of the request takes a page off one list and puts it on the
\* other, whatever it rotates before.
LEMMA RequestSteps ==
  ASSUME MigInv, MigNext, InRound, AppStep(main), at' = at
  PROVE  Requesting' /\ InTransit'
<1> USE Threads
<1>1. /\ list \in [List -> Seq(Page)] /\ num \in [List -> Int] /\ AppOK(main)
      /\ pc \in [Thread -> Label] /\ call \in [Thread -> CallRecord] /\ pg \in [Page -> PageRecord]
      /\ upd \in [Thread -> Seq(UpdateRecord)]
  BY Unpacked
<1>2. Held' = Held
  BY MainFrame DEF Held
<1>3. Asked' = Asked /\ Src' = Src /\ Dst' = Dst
  BY SameRound
<1>4. list'[MmapList(Dst)] = list[MmapList(Dst)]
  BY RequestFrame
<1> DEFINE S == MmapList(Src)
           A == Asked
           m == Len(list[MmapList(Dst)])
<1>5. /\ S \in List /\ A \in List /\ S # A /\ m \in Nat
      /\ Len(list[S]) + Bit(pc[main] = "rotate_back") = Left
      /\ num[S] = Left + Bit(pc[main] \in {"queue", "count"})
      /\ pc[main] = "idle" => Left = 0
      /\ m + Held + Len(list[A]) + Bit(pc[main] = "queue") = npage - Left
      /\ Len(list[S]) \in Nat /\ Len(list[A]) \in Nat /\ Left \in Nat /\ npage \in Nat
      /\ num[S] \in Int /\ From(main) = S /\ call[main].to = A /\ call[main].op = "request"
  BY RoundCall DEF Requesting, InTransit
<1>6. SUFFICES /\ Len(list'[S]) + Bit(pc'[main] = "rotate_back") = Left'
               /\ num'[S] = Left' + Bit(pc'[main] \in {"queue", "count"})
               /\ pc'[main] = "idle" => Left' = 0
               /\ m + Held + Len(list'[A]) + Bit(pc'[main] = "queue") = npage - Left'
  BY <1>2, <1>3, <1>4 DEF Requesting, InTransit
<1>7. Left = call[main].left /\ Left' = call'[main].left
  BY DEF Left
<1>8. /\ m \in Nat /\ Len(list[S]) \in Nat /\ Len(list[A]) \in Nat /\ Left \in Nat
      /\ npage \in Nat /\ num[S] \in Int /\ S \in List /\ A \in List
  BY <1>5
<1>9. Held \in Int
  BY Stages
<1> HIDE DEF S, A, m
<1>10. CASE Choose(main) \/ RequestDone(main)
  <2>1. UNCHANGED <<list, num>> /\ pc[main] = "request" /\ pc'[main] \in {"take", "rotate", "idle"}
        /\ (pc'[main] = "idle" => call[main].left = 0)
    BY <1>1, <1>10, NoDeath DEF Choose, RequestDone, Goto
  <2>2. call'[main].left = call[main].left
    BY <1>1, <1>10, NoDeath DEF Choose, RequestDone, CallRecord
  <2> QED
    BY <1>5, <1>7, <2>1, <2>2 DEF Bit
<1>11. CASE LoadCounter(main)
  BY <1>5, <1>7, <1>11 DEF LoadCounter
<1>12. CASE Rotate(main)
  <2>1. pc[main] = "rotate" /\ list[S] # <<>> /\ Dequeue(S) /\ num' = num /\ pc'[main] = "rotate_back"
    BY <1>1, <1>5, <1>12, NoDeath DEF Rotate, Goto
  <2>2. call'[main].left = call[main].left
    BY <1>1, <1>12, NoDeath DEF Rotate, CallRecord
  <2>3. Len(list'[S]) = Len(list[S]) - 1 /\ list'[A] = list[A]
    BY <1>5, <2>1, DequeueLen
  <2>4. Len(list[S]) + 0 = Left
    BY <1>5, <2>1 DEF Bit
  <2>5. Len(list'[S]) + 1 = Left
    BY <1>8, <2>3, <2>4
  <2> QED
    BY <1>5, <1>7, <2>1, <2>2, <2>3, <2>5 DEF Bit
<1>13. CASE RotateBack(main)
  <2>1. pc[main] = "rotate_back" /\ cur[main] \in Page
    BY <1>1, <1>13 DEF RotateBack, AppOK, HoldingLabel
  <2>2. /\ Enqueue(S, cur[main]) /\ num' = num /\ call' = call /\ pc'[main] \in {"take", "rotate"}
    BY <1>1, <1>5, <1>13 DEF RotateBack, Goto
  <2>3. Len(list'[S]) = Len(list[S]) + 1 /\ list'[A] = list[A]
    BY <1>5, <2>1, <2>2, EnqueueLen
  <2>4. Len(list[S]) + 1 = Left
    BY <1>5, <2>1 DEF Bit
  <2>5. Len(list'[S]) + 0 = Left
    BY <1>8, <2>3, <2>4
  <2> QED
    BY <1>5, <1>7, <2>1, <2>2, <2>3, <2>5 DEF Bit
<1>14. CASE Take(main)
  <2>1. pc[main] \in {"take", "request"} /\ call[main].left > 0
    BY <1>1, <1>14 DEF Take, AppOK
  <2>2. Len(list[S]) + 0 = Left
    BY <1>5, <2>1 DEF Bit
  <2>3. list[S] # <<>>
    BY <1>5, <1>7, <2>1, <2>2
  <2>4. Dequeue(S) /\ call' = NextIteration(main) /\ pc'[main] = "queue" /\ num' = num
    BY <1>1, <1>5, <1>14, <2>3, NoDeath DEF Take, Goto
  <2>5. call'[main].left = call[main].left - 1
    BY <1>1, <2>4 DEF NextIteration, CallRecord
  <2>6. Len(list'[S]) = Len(list[S]) - 1 /\ list'[A] = list[A]
    BY <1>5, <2>3, <2>4, DequeueLen
  <2>7. num[S] = Left + 0 /\ m + Held + Len(list[A]) + 0 = npage - Left
    BY <1>5, <2>1 DEF Bit
  <2>8. Len(list'[S]) + 0 = Left - 1 /\ num[S] = Left - 1 + 1
    BY <1>8, <2>2, <2>6, <2>7
  <2>9. m + Held + Len(list[A]) + 1 = npage - (Left - 1)
    <3> DEFINE moved == m + Held
    <3>1. moved \in Int
      BY <1>8, <1>9
    <3>2. moved + Len(list[A]) + 0 = npage - Left
      BY <2>7
    <3> HIDE DEF moved
    <3>3. moved + Len(list[A]) + 1 = npage - (Left - 1)
      BY <1>8, <3>1, <3>2
    <3> QED
      BY <3>3 DEF moved
  <2> QED
    BY <1>7, <2>4, <2>5, <2>6, <2>8, <2>9 DEF Bit
<1>15. CASE Queue(main)
  <2>1. pc[main] = "queue" /\ cur[main] \in Page
    BY <1>1, <1>15 DEF Queue, AppOK, HoldingLabel
  <2>2. Enqueue(A, cur[main]) /\ call' = call /\ pc'[main] = "count" /\ num' = num
    BY <1>1, <1>5, <1>15 DEF Queue, Goto, StartCounting
  <2>3. Len(list'[A]) = Len(list[A]) + 1 /\ list'[S] = list[S]
    BY <1>5, <2>1, <2>2, EnqueueLen
  <2>4. m + Held + Len(list[A]) + 1 = npage - Left
    BY <1>5, <2>1 DEF Bit
  <2>5. m + Held + Len(list'[A]) + 0 = npage - Left
    BY <1>8, <1>9, <2>3, <2>4
  <2> QED
    BY <1>5, <1>7, <2>1, <2>2, <2>3, <2>5 DEF Bit
<1>16. CASE StoreCounter(main)
  <2>1. pc[main] = "count"
    BY <1>16 DEF StoreCounter
  <2>2. CASE upd[main] = <<[counter |-> A, delta |-> 1], [counter |-> S, delta |-> -1]>>
    <3>1. Head(upd[main]) = [counter |-> A, delta |-> 1] /\ Len(upd[main]) = 2
      BY <2>2
    <3>2. num'[S] = num[S] /\ UNCHANGED <<list, call>> /\ pc' = pc
      <4>1. /\ \A k \in List \ {A} : num'[k] = num[k]
            /\ UNCHANGED <<list, call>> /\ (Len(upd[main]) # 1 => pc' = pc)
        BY <1>8, <1>16, <3>1, StoreAdds
      <4>2. S \in List \ {A} /\ Len(upd[main]) # 1
        BY <1>5, <3>1
      <4> QED
        BY <4>1, <4>2
    <3> QED
      BY <1>5, <1>7, <3>2
  <2>3. CASE upd[main] = <<[counter |-> S, delta |-> -1]>>
    <3>1. Head(upd[main]) = [counter |-> S, delta |-> -1] /\ Len(upd[main]) = 1
      BY <2>3
    <3>2. num'[S] = num[S] + (-1) /\ UNCHANGED <<list, call>> /\ pc'[main] = AfterCounting(main)
      <4>1. S \in List /\ -1 \in Int
        BY <1>8
      <4> QED
        BY <1>16, <3>1, <4>1, StoreAdds
    <3>3. pc'[main] = "request"
      BY <1>5, <3>2 DEF AfterCounting
    <3>4. num[S] = Left + 1
      BY <1>5, <2>1 DEF Bit
    <3>5. num'[S] = Left + 0
      BY <1>8, <3>2, <3>4
    <3> QED
      BY <1>5, <1>7, <2>1, <3>2, <3>3, <3>5 DEF Bit
  <2> QED
    BY <1>1, <1>5, <2>1, <2>2, <2>3 DEF AppOK
<1> QED
  BY <1>10, <1>11, <1>12, <1>13, <1>14, <1>15, <1>16, CallSteps DEF InRound

\* A sequence put together from three is the one with all the elements.
LEMMA FourElements ==
  ASSUME NEW S, NEW a \in S, NEW b \in S, NEW c \in S, NEW d \in S
  PROVE  (<<a>> \o <<b, c>>) \o <<d>> = <<a, b, c, d>>
<1> DEFINE u == <<a>>
           v == <<b, c>>
           w == <<d>>
           all == <<a, b, c, d>>
<1>1. /\ u \in Seq(S) /\ v \in Seq(S) /\ w \in Seq(S) /\ all \in Seq(S)
      /\ Len(u) = 1 /\ Len(v) = 2 /\ Len(w) = 1 /\ Len(all) = 4
      /\ u[1] = a /\ v[1] = b /\ v[2] = c /\ w[1] = d
      /\ all[1] = a /\ all[2] = b /\ all[3] = c /\ all[4] = d
  OBVIOUS
<1> HIDE DEF u, v, w, all
<1> DEFINE uv == u \o v
<1>2. /\ uv \in Seq(S) /\ Len(uv) = Len(u) + Len(v)
      /\ \A i \in 1 .. Len(u) + Len(v) : uv[i] = IF i <= Len(u) THEN u[i] ELSE v[i - Len(u)]
  BY <1>1, ConcatProperties
<1>3. Len(uv) = 3 /\ uv[1] = a /\ uv[2] = b /\ uv[3] = c
  BY <1>1, <1>2
<1> HIDE DEF uv
<1> DEFINE uvw == uv \o w
<1>4. /\ uvw \in Seq(S) /\ Len(uvw) = Len(uv) + Len(w)
      /\ \A i \in 1 .. Len(uv) + Len(w) : uvw[i] = IF i <= Len(uv) THEN uv[i] ELSE w[i - Len(uv)]
  <2>1. uv \in Seq(S) /\ w \in Seq(S)
    BY <1>1, <1>2
  <2> QED
    BY <2>1, ConcatProperties
<1>5. Len(uvw) = 4 /\ uvw[1] = a /\ uvw[2] = b /\ uvw[3] = c /\ uvw[4] = d
  BY <1>1, <1>3, <1>4
<1> HIDE DEF uvw
<1>6. \A i \in 1 .. Len(uvw) : uvw[i] = all[i]
  BY <1>1, <1>5
<1>7. uvw = all
  BY <1>1, <1>4, <1>5, <1>6, SeqEqual
<1> QED
  BY <1>7 DEF u, v, w, all, uv, uvw

\* The updates that end a round's batch.
LEMMA RoundUpdates ==
  ASSUME InRound, batch.to = Asked
  PROVE  MigrationUpdates(batch.to, batch.want) = Updates
<1> DEFINE a == [counter |-> MmapList(Dst), delta |-> batch.want]
           b == [counter |-> FreeList(Src), delta |-> batch.want]
           c == [counter |-> FreeList(Dst), delta |-> -batch.want]
           d == [counter |-> Asked, delta |-> -batch.want]
<1>1. MigrationUpdates(batch.to, batch.want) = (<<a>> \o <<b, c>>) \o <<d>>
  BY RoundLists DEF MigrationUpdates, Src, Dst
<1>2. Updates = <<a, b, c, d>>
  BY DEF Updates
<1> HIDE DEF a, b, c, d
<1>3. (<<a>> \o <<b, c>>) \o <<d>> = <<a, b, c, d>>
  <2> DEFINE S == {a, b, c, d}
  <2>1. a \in S /\ b \in S /\ c \in S /\ d \in S
    OBVIOUS
  <2> HIDE DEF S
  <2> QED
    BY <2>1, FourElements
<1> QED
  BY <1>1, <1>2, <1>3

\* The migration thread leaves main()'s lists and counters alone.
LEMMA MovingFrame ==
  ASSUME MigInv, MigNext, InRound, MigratorStep, at' = at
  PROVE  Requesting'
<1> USE Threads
<1>1. /\ list \in [List -> Seq(Page)] /\ num \in [List -> Int]
  BY Unpacked
<1> DEFINE Ours == {MmapList(Dst), FreeList(Src), FreeList(Dst), Asked}
           S    == MmapList(Src)
<1>2. Ours \subseteq List /\ S \in List \ Ours
  BY RoundLists, ListNames
<1>3. pc[Migrator] # "scan" => /\ batch.to = Asked /\ MmapList(Target(batch.to)) = MmapList(Dst)
                               /\ FreeList(Target(batch.to)) = FreeList(Dst)
                               /\ FreeList(Source(batch.to)) = FreeList(Src)
  BY RoundBatch DEF Src, Dst
<1>4. list'[S] = list[S] /\ num'[S] = num[S]
  <2>1. CASE StoreCounter(Migrator)
    <3>1. Ending
      BY <2>1, RoundCall DEF StoreCounter, Migrating
    <3>2. Head(upd[Migrator]).counter \in Ours
      BY <3>1 DEF Ending, Updates
    <3>3. /\ list' = list
          /\ num' = [num EXCEPT ![Head(upd[Migrator]).counter] =
                       reg[Migrator][1] + Head(upd[Migrator]).delta]
      BY <2>1 DEF StoreCounter
    <3> HIDE DEF Ours, S
    <3> QED
      BY <1>1, <1>2, <3>2, <3>3
  <2>2. CASE ~StoreCounter(Migrator)
    <3>1. /\ num' = num
          /\ list' = list \/ \E l \in Ours : \E s : list' = [list EXCEPT ![l] = s]
      BY <1>3, <2>2, NoDeath
      DEF MigratorStep, Counting, Scan, TakePage, TakeNext, Protect, Copy, Remap, Restore,
          RestoreNext, LoadCounter, Enqueue, Dequeue
    <3> HIDE DEF Ours, S
    <3> QED
      BY <1>1, <1>2, <3>1
  <2> QED
    BY <2>1, <2>2
<1>5. call' = call /\ pc'[main] = pc[main]
  BY MigratorFrame
<1> QED
  BY <1>4, <1>5, SameRound, RoundCall DEF Requesting, Left

\* A stage of the batch moves what one sum loses to another.
LEMMA MovingSteps ==
  ASSUME MigInv, MigNext, InRound, MigratorStep, at' = at
  PROVE  InTransit' /\ Migrating'
<1> USE Threads
<1>1. /\ pc \in [Thread -> Label] /\ batch \in BatchRecord /\ MigratorOK
      /\ upd \in [Thread -> Seq(UpdateRecord)]
      /\ batch.want \in Nat /\ batch.i \in Nat /\ batch.page \in Seq(Page)
      /\ batch.next \in Seq(Page) /\ batch.offset \in Seq(Nat)
  BY Unpacked
<1>2. Asked' = Asked /\ Src' = Src /\ Dst' = Dst
  BY SameRound
<1>3. Left' = Left /\ pc'[main] = pc[main]
  BY MigratorFrame DEF Left
<1>4. pc[Migrator] # "scan" => /\ batch.to = Asked /\ Target(batch.to) = Dst
                               /\ Source(batch.to) = Src
  BY RoundBatch DEF Src, Dst
<1> DEFINE M  == MmapList(Dst)
           FD == FreeList(Dst)
           FS == FreeList(Src)
           A  == Asked
           m == Len(list[M])       m2 == Len(list'[M])
           d == Len(list[FD])      d2 == Len(list'[FD])
           s == Len(list[FS])      s2 == Len(list'[FS])
           a == Len(list[A])       a2 == Len(list'[A])
           q == Bit(pc[main] = "queue")
           f == FramesIn(Dst)      g == FramesIn(Src)
           tn == Bit(pc[Migrator] = "take_next")     tn2 == Bit(pc'[Migrator] = "take_next")
           rn == Bit(pc[Migrator] = "restore_next")  rn2 == Bit(pc'[Migrator] = "restore_next")
           AtEnd == pc'[Migrator] = "count" =>
                      batch'.want > 0 /\ Len(batch'.next) = batch'.want /\ Ending'
<1>5. /\ M \in List /\ FD \in List /\ FS \in List /\ A \in List
      /\ M # FD /\ M # FS /\ M # A /\ FD # FS /\ FD # A /\ FS # A
  BY RoundLists, ListNames
<1>6. /\ m + Held + a + q = npage - Left
      /\ num[M] = m - Back /\ num[FD] = d + Taken /\ num[FS] = s - Freed
      /\ d + m + Held - tn = f /\ s + rn = g - npage + m /\ Back <= m
  BY RoundCall DEF InTransit, Migrating
<1>7. /\ m \in Nat /\ d \in Nat /\ s \in Nat /\ a \in Nat /\ q \in Nat /\ f \in Nat /\ g \in Nat
      /\ Left \in Nat /\ npage \in Nat /\ tn \in Nat /\ rn \in Nat
      /\ num[M] \in Int /\ num[FD] \in Int /\ num[FS] \in Int
  BY <1>5, RoundCall DEF Bit, FramesIn
<1>8. pc[Migrator] = "count" => batch.want > 0 /\ Len(batch.next) = batch.want /\ Ending
  BY RoundCall DEF Migrating
<1>9. SUFFICES /\ m2 + Held' + a2 + q = npage - Left
               /\ num'[M] = m2 - Back' /\ num'[FD] = d2 + Taken' /\ num'[FS] = s2 - Freed'
               /\ d2 + m2 + Held' - tn2 = f /\ s2 + rn2 = g - npage + m2 /\ Back' <= m2
               /\ AtEnd
  BY <1>2, <1>3 DEF InTransit, Migrating
<1> HIDE DEF M, FD, FS, A, m, d, s, a, m2, d2, s2, a2, q, f, g, tn, rn, tn2, rn2
<1>10. ASSUME UNCHANGED <<list, num>>, Held' = Held, Back' = Back, Freed' = Freed, Taken' = Taken,
              pc[Migrator] \notin {"take_next", "restore_next"},
              pc'[Migrator] \notin {"take_next", "restore_next"}, AtEnd
       PROVE  /\ m2 + Held' + a2 + q = npage - Left
              /\ num'[M] = m2 - Back' /\ num'[FD] = d2 + Taken' /\ num'[FS] = s2 - Freed'
              /\ d2 + m2 + Held' - tn2 = f /\ s2 + rn2 = g - npage + m2 /\ Back' <= m2
              /\ AtEnd
  <2>1. tn2 = tn /\ rn2 = rn
    BY <1>10 DEF tn, tn2, rn, rn2
  <2>2. m2 = m /\ d2 = d /\ s2 = s /\ a2 = a
    BY <1>10 DEF m, m2, d, d2, s, s2, a, a2
  <2> QED
    BY <1>6, <1>10, <2>1, <2>2
<1>11. CASE Scan
  <2>1. /\ pc[Migrator] = "scan" /\ UNCHANGED <<list, num>> /\ pc'[Migrator] \in {"scan", "take_page"}
        /\ batch = EmptyBatch(batch.to)
    BY <1>1, <1>11 DEF Scan, Goto, MigratorOK
  <2>2. batch'.page = <<>> /\ batch'.next = <<>>
    BY <1>1, <1>11, <2>1 DEF Scan, EmptyBatch, BatchRecord
  <2>3. Held' = 0 /\ Back' = 0 /\ Freed' = 0 /\ Taken' = 0
    BY <2>1, <2>2 DEF Held, Back, Freed, Taken
  <2> QED
    BY <1>10, <2>1, <2>3, Stages
<1>12. CASE TakePage
  <2>1. /\ pc[Migrator] = "take_page" /\ list[A] # <<>> /\ Dequeue(A) /\ num' = num
        /\ pc'[Migrator] = "take_next"
        /\ batch' = [batch EXCEPT !.page = Append(@, Head(list[A]))]
    BY <1>1, <1>4, <1>12, NoDeath DEF TakePage, Goto, A
  <2>2. Len(batch'.page) = Len(batch.page) + 1 /\ batch'.next = batch.next
    BY <1>1, <2>1 DEF BatchRecord
  <2>3. Held' = Held + 1 /\ Held \in Nat /\ Back = 0 /\ Back' = 0 /\ Freed = 0 /\ Freed' = 0
        /\ Taken' = Taken
    BY <1>1, <2>1, <2>2 DEF Held, Back, Freed, Taken
  <2>4. a2 = a - 1 /\ m2 = m /\ d2 = d /\ s2 = s
    BY <1>5, <2>1, DequeueLen DEF a2, a, m2, m, d2, d, s2, s
  <2>5. tn = 0 /\ tn2 = 1 /\ rn = 0 /\ rn2 = 0 /\ AtEnd
    BY <2>1 DEF tn, tn2, rn, rn2, Bit
  <2>6. num'[M] = num[M] /\ num'[FD] = num[FD] /\ num'[FS] = num[FS]
    BY <2>1
  <2>7. m2 + Held' + a2 + q = npage - Left
    BY <1>6, <1>7, <2>3, <2>4
  <2>8. num'[M] = m2 - Back' /\ num'[FD] = d2 + Taken' /\ num'[FS] = s2 - Freed' /\ Back' <= m2
    BY <1>6, <1>7, <2>3, <2>4, <2>6
  <2>9. d2 + m2 + Held' - tn2 = f /\ s2 + rn2 = g - npage + m2
    BY <1>6, <1>7, <2>3, <2>4, <2>5
  <2> QED
    BY <2>5, <2>7, <2>8, <2>9
<1>13. CASE TakeNext
  <2>1. /\ pc[Migrator] = "take_next" /\ list[FD] # <<>> /\ Dequeue(FD) /\ num' = num
        /\ pc'[Migrator] \in {"take_page", "protect"}
        /\ \E o : batch' = [batch EXCEPT !.next = Append(@, Head(list[FD])), !.offset = o]
    BY <1>1, <1>4, <1>13, NoDeath DEF TakeNext, Goto, FD
  <2>2. batch'.page = batch.page /\ Len(batch'.next) = Len(batch.next) + 1
    BY <1>1, <2>1 DEF BatchRecord
  <2>3. Held' = Held /\ Held \in Nat /\ Back = 0 /\ Back' = 0 /\ Freed = 0 /\ Freed' = 0
        /\ Taken' = Taken + 1 /\ Taken \in Nat
    <3>1. Held' = Held /\ Held \in Nat
      BY <1>1, <2>1, <2>2 DEF Held
    <3>2. Back = 0 /\ Back' = 0 /\ Freed = 0 /\ Freed' = 0
      BY <2>1 DEF Back, Freed
    <3>3. Taken' = Taken + 1 /\ Taken \in Nat
      BY <1>1, <2>1, <2>2 DEF Taken
    <3> QED
      BY <3>1, <3>2, <3>3
  <2>4. d2 = d - 1 /\ m2 = m /\ a2 = a /\ s2 = s
    BY <1>5, <2>1, DequeueLen DEF a2, a, m2, m, d2, d, s2, s
  <2>5. tn = 1 /\ tn2 = 0 /\ rn = 0 /\ rn2 = 0 /\ AtEnd
    BY <2>1 DEF tn, tn2, rn, rn2, Bit
  <2>6. num'[M] = num[M] /\ num'[FD] = num[FD] /\ num'[FS] = num[FS]
    BY <2>1
  <2>7. m2 + Held' + a2 + q = npage - Left
    BY <1>6, <1>7, <2>3, <2>4
  <2>8. num'[M] = m2 - Back' /\ num'[FD] = d2 + Taken' /\ num'[FS] = s2 - Freed' /\ Back' <= m2
    BY <1>6, <1>7, <2>3, <2>4, <2>6
  <2>9. d2 + m2 + Held' - tn2 = f /\ s2 + rn2 = g - npage + m2
    BY <1>6, <1>7, <2>3, <2>4, <2>5
  <2> QED
    BY <2>5, <2>7, <2>8, <2>9
<1>14. CASE Protect \/ Copy \/ Remap
  <2>1. /\ pc[Migrator] \in {"protect", "copy", "remap"} /\ UNCHANGED <<list, num>>
        /\ pc'[Migrator] \in {"protect", "copy", "remap", "restore"}
        /\ \E n : batch' = batch \/ batch' = [batch EXCEPT !.i = n]
    BY <1>1, <1>14, NoDeath DEF Protect, Copy, Remap, LoopOver, Goto
  <2>2. batch'.page = batch.page /\ batch'.next = batch.next /\ batch'.want = batch.want
    BY <1>1, <2>1 DEF BatchRecord
  <2>3. pc'[Migrator] = "restore" => batch'.i = 1 /\ batch.want = Len(batch.page)
    BY <1>1, <1>14, NoDeath DEF Protect, Copy, Remap, LoopOver, Goto, BatchRecord, MigratorOK
  <2>4. Held' = Held /\ Back' = Back /\ Freed' = Freed /\ Taken' = Taken
    <3>1. Len(batch.page) \in Nat /\ batch.i \in Nat
      BY <1>1
    <3>2. Held = Len(batch.page) /\ Back = 0 /\ Freed = 0
      BY <2>1, Stages
    <3>3. Held' = Held
      BY <2>1, <2>2, <2>3, <3>1, <3>2 DEF Held
    <3>4. Back' = Back
      BY <2>1, <2>3, <3>2 DEF Back
    <3>5. Freed' = Freed
      BY <2>1, <2>3, <3>2 DEF Freed
    <3>6. Taken' = Taken
      BY <2>1, <2>2 DEF Taken
    <3> QED
      BY <3>3, <3>4, <3>5, <3>6
  <2> QED
    BY <1>10, <2>1, <2>4
<1>15. CASE Restore
  <2>1. batch.i \in 1 .. Len(batch.page)
    BY <1>1, <1>15 DEF Restore, MigratorOK
  <2>2. /\ pc[Migrator] = "restore" /\ Enqueue(M, batch.page[batch.i]) /\ batch' = batch
        /\ num' = num /\ pc'[Migrator] = "restore_next" /\ batch.page[batch.i] \in Page
    <3>1. /\ pc[Migrator] = "restore" /\ batch' = batch /\ num' = num
          /\ pc' = [pc EXCEPT ![Migrator] = "restore_next"]
          /\ Enqueue(MmapList(Target(batch.to)), batch.page[batch.i])
      BY <1>15 DEF Restore, Goto
    <3>2. Enqueue(M, batch.page[batch.i])
      BY <1>4, <3>1 DEF M
    <3> QED
      BY <1>1, <2>1, <3>1, <3>2
  <2>3. /\ Held = batch.want - batch.i + 1 /\ Held' = batch.want - batch.i
        /\ Back = batch.i - 1 /\ Back' = batch.i /\ Freed = batch.i - 1 /\ Freed' = batch.i - 1
        /\ Taken = Len(batch.next) /\ Taken' = Len(batch.next) /\ Len(batch.next) \in Nat
    BY <1>1, <2>2 DEF Held, Back, Freed, Taken
  <2>4. m2 = m + 1 /\ d2 = d /\ a2 = a /\ s2 = s
    BY <1>5, <2>2, EnqueueLen DEF a2, a, m2, m, d2, d, s2, s
  <2>5. tn = 0 /\ tn2 = 0 /\ rn = 0 /\ rn2 = 1 /\ AtEnd
    BY <2>2 DEF tn, tn2, rn, rn2, Bit
  <2>6. batch.i \in Nat /\ batch.want \in Nat
    BY <1>1
  <2>7. Held' = Held - 1 /\ Back' = Back + 1 /\ Freed' = Freed /\ Taken' = Taken
        /\ Held \in Int /\ Back \in Int /\ Freed \in Int /\ Taken \in Int
    <3>1. Held' = Held - 1 /\ Back' = Back + 1 /\ Freed' = Freed /\ Taken' = Taken
      BY <2>3, <2>6
    <3> QED
      BY <3>1, Stages
  <2>8. num'[M] = num[M] /\ num'[FD] = num[FD] /\ num'[FS] = num[FS]
    BY <2>2
  <2> QED
    BY <1>6, <1>7, <2>4, <2>5, <2>7, <2>8
<1>16. CASE RestoreNext
  <2>1. batch.i \in 1 .. Len(batch.next) /\ batch.i <= batch.want /\ Len(batch.next) = batch.want
    BY <1>1, <1>16 DEF RestoreNext, MigratorOK
  <2>2. /\ pc[Migrator] = "restore_next" /\ Enqueue(FS, batch.next[batch.i])
        /\ batch' = [batch EXCEPT !.i = @ + 1] /\ num' = num /\ batch.next[batch.i] \in Page
        /\ IF batch.i < batch.want THEN pc'[Migrator] = "restore"
           ELSE pc'[Migrator] = "count" /\ upd'[Migrator] = MigrationUpdates(batch.to, batch.want)
    BY <1>1, <1>4, <1>16, <2>1 DEF RestoreNext, Goto, StartCounting, FS
  <2>3. batch'.i = batch.i + 1 /\ batch'.next = batch.next /\ batch'.want = batch.want
    BY <1>1, <2>2 DEF BatchRecord
  <2>4. pc'[Migrator] = "count" => upd'[Migrator] = Updates /\ Updates' = Updates /\ Len(Updates) = 4
    BY <1>2, <1>4, <2>2, <2>3, RoundUpdates DEF Updates
  <2>5. AtEnd
    BY <2>1, <2>3, <2>4 DEF Ending
  <2>6. Held' = Held /\ Back' = Back /\ Freed' = Freed + 1 /\ Taken' = Taken
        /\ Held \in Int /\ Back \in Int /\ Freed \in Int /\ Taken \in Int
    <3> DEFINE i == batch.i
               w == batch.want
               k == Len(batch.next)
    <3>1. i \in Nat /\ w \in Nat /\ k \in Nat /\ i <= w /\ k = w
      BY <1>1, <2>1
    <3>2. Held = w - i /\ Back = i /\ Freed = i - 1 /\ Taken = k
      BY <2>2, Stages
    <3>3. batch'.i = i + 1 /\ batch'.want = w /\ Len(batch'.next) = k
      BY <2>3
    <3>4. CASE i < w
      <4>1. pc'[Migrator] = "restore"
        BY <2>2, <3>4
      <4>2. Held' = batch'.want - batch'.i + 1 /\ Back' = batch'.i - 1 /\ Freed' = batch'.i - 1
            /\ Taken' = Len(batch'.next)
        BY <4>1 DEF Held, Back, Freed, Taken
      <4> HIDE DEF i, w, k
      <4> QED
        BY <3>1, <3>2, <3>3, <4>2
    <3>5. CASE i = w
      <4>1. pc'[Migrator] = "count"
        BY <2>2, <3>1, <3>5
      <4>2. upd'[Migrator] = Updates /\ Len(Updates) = 4
        BY <2>4, <4>1
      <4>3. Len(upd'[Migrator]) = 4
        BY <4>2
      <4>4. Held' = 0
        BY <4>1 DEF Held
      <4>5. Back' = batch'.want
        BY <4>1, <4>3 DEF Back
      <4>6. Freed' = batch'.want
        BY <4>1, <4>3 DEF Freed
      <4>7. Taken' = Len(batch'.next)
        BY <4>1, <4>3 DEF Taken
      <4> HIDE DEF i, w, k
      <4> QED
        BY <3>1, <3>2, <3>3, <3>5, <4>4, <4>5, <4>6, <4>7
    <3> HIDE DEF i, w, k
    <3> QED
      BY <3>1, <3>4, <3>5
  <2>7. s2 = s + 1 /\ d2 = d /\ a2 = a /\ m2 = m
    BY <1>5, <2>2, EnqueueLen DEF a2, a, m2, m, d2, d, s2, s
  <2>8. tn = 0 /\ tn2 = 0 /\ rn = 1 /\ rn2 = 0
    BY <2>2 DEF tn, tn2, rn, rn2, Bit
  <2>9. num'[M] = num[M] /\ num'[FD] = num[FD] /\ num'[FS] = num[FS]
    BY <2>2
  <2>10. /\ m2 + Held' + a2 + q = npage - Left
         /\ num'[M] = m2 - Back' /\ num'[FD] = d2 + Taken' /\ num'[FS] = s2 - Freed'
         /\ d2 + m2 + Held' - tn2 = f /\ s2 + rn2 = g - npage + m2 /\ Back' <= m2
    <3>1. m2 + Held' + a2 + q = npage - Left
      BY <1>6, <1>7, <2>6, <2>7
    <3>2. num'[M] = m2 - Back' /\ num'[FD] = d2 + Taken' /\ num'[FS] = s2 - Freed' /\ Back' <= m2
      BY <1>6, <1>7, <2>6, <2>7, <2>9
    <3>3. d2 + m2 + Held' - tn2 = f /\ s2 + rn2 = g - npage + m2
      BY <1>6, <1>7, <2>6, <2>7, <2>8
    <3> QED
      BY <3>1, <3>2, <3>3
  <2> QED
    BY <2>5, <2>10
<1>17. CASE LoadCounter(Migrator)
  <2>1. pc[Migrator] = "count" /\ UNCHANGED <<list, num, batch, upd, pc>>
    BY <1>17 DEF LoadCounter
  <2>2. Held' = Held /\ Back' = Back /\ Freed' = Freed /\ Taken' = Taken
    BY <2>1 DEF Held, Back, Freed, Taken
  <2>3. AtEnd
    BY <1>2, <1>8, <2>1 DEF Ending, Updates
  <2> QED
    BY <1>10, <2>1, <2>2, <2>3
<1>18. CASE StoreCounter(Migrator)
  <2>1. pc[Migrator] = "count" /\ Held = 0 /\ list' = list
        /\ batch.want > 0 /\ Len(batch.next) = batch.want /\ Ending
    BY <1>8, <1>18, Stages DEF StoreCounter
  <2>2. m2 = m /\ d2 = d /\ s2 = s /\ a2 = a
    BY <2>1 DEF m, m2, d, d2, s, s2, a, a2
  <2> DEFINE w  == batch.want
             U1 == [counter |-> M, delta |-> w]
             U2 == [counter |-> FS, delta |-> w]
             U3 == [counter |-> FD, delta |-> -w]
             U4 == [counter |-> A, delta |-> -w]
  <2>20. w \in Nat
    BY <1>1
  <2>3. /\ Updates = <<U1, U2, U3, U4>>
        /\ Updates[2] = U2 /\ Updates[3] = U3 /\ Updates[4] = U4
    BY DEF Updates, M, FS, FD, A
  <2>4. \/ upd[Migrator] = <<U1, U2, U3, U4>> \/ upd[Migrator] = <<U2, U3, U4>>
        \/ upd[Migrator] = <<U3, U4>> \/ upd[Migrator] = <<U4>>
    BY <2>1, <2>3 DEF Ending
  <2>5. Len(upd[Migrator]) = 1 => upd[Migrator] = <<U4>>
    <3> HIDE DEF U1, U2, U3, U4
    <3>1. /\ Len(<<U1, U2, U3, U4>>) = 4 /\ Len(<<U2, U3, U4>>) = 3 /\ Len(<<U3, U4>>) = 2
      OBVIOUS
    <3> QED
      BY <2>4, <3>1
  <2>6. Len(upd[Migrator]) # 1 => upd[Migrator] # <<U4>>
    OBVIOUS
  <2>7. \A j \in 2 .. 4 : Len(upd[Migrator]) = j =>
          /\ Back = (IF j = 4 THEN w ELSE 0) /\ Freed = (IF j >= 3 THEN w ELSE 0)
          /\ Taken = Len(batch.next)
    BY <2>1 DEF Back, Freed, Taken
  <2>8. \A j \in 1 .. 3 : Len(upd'[Migrator]) = j /\ pc' = pc /\ batch' = batch =>
          /\ Back' = 0 /\ Freed' = (IF j = 3 THEN w ELSE 0)
          /\ Taken' = (IF j = 1 THEN 0 ELSE Len(batch.next))
    BY <2>1 DEF Back, Freed, Taken
  <2>9. CASE Len(upd[Migrator]) # 1
    <3>1. pc' = pc /\ batch' = batch /\ upd'[Migrator] = Tail(upd[Migrator])
      BY <1>1, <1>18, <2>9 DEF StoreCounter
    <3>2. Updates' = Updates
      BY <1>2, <3>1 DEF Updates
    <3>3. tn = 0 /\ tn2 = 0 /\ rn = 0 /\ rn2 = 0 /\ Held' = 0
      BY <2>1, <3>1 DEF tn, tn2, rn, rn2, Bit, Held
    <3>4. CASE upd[Migrator] = <<U1, U2, U3, U4>>
      <4>1. upd'[Migrator] = <<U2, U3, U4>> /\ Len(upd'[Migrator]) = 3 /\ Len(upd[Migrator]) = 4
            /\ Head(upd[Migrator]) = U1
        BY <3>1, <3>4
      <4>2. num'[M] = num[M] + w /\ num'[FD] = num[FD] /\ num'[FS] = num[FS]
        BY <1>1, <1>5, <1>18, <4>1, StoreAdds
      <4>3. Back = w /\ Back' = 0 /\ Freed' = Freed /\ Taken' = Taken
        BY <2>1, <2>7, <2>8, <3>1, <4>1
      <4>4. AtEnd
        BY <2>1, <2>3, <3>1, <3>2, <4>1 DEF Ending
      <4>5. m2 + Held' + a2 + q = npage - Left
        BY <1>6, <2>1, <2>2, <3>3
      <4>6. num'[M] = m2 - Back' /\ num'[FD] = d2 + Taken' /\ num'[FS] = s2 - Freed' /\ Back' <= m2
        BY <1>6, <1>7, <2>2, <2>20, <4>2, <4>3
      <4>7. d2 + m2 + Held' - tn2 = f /\ s2 + rn2 = g - npage + m2
        BY <1>6, <2>1, <2>2, <3>3
      <4> QED
        BY <4>4, <4>5, <4>6, <4>7
    <3>5. CASE upd[Migrator] = <<U2, U3, U4>>
      <4>1. upd'[Migrator] = <<U3, U4>> /\ Len(upd'[Migrator]) = 2 /\ Len(upd[Migrator]) = 3
            /\ Head(upd[Migrator]) = U2
        BY <3>1, <3>5
      <4>2. num'[FS] = num[FS] + w /\ num'[FD] = num[FD] /\ num'[M] = num[M]
        BY <1>1, <1>5, <1>18, <4>1, StoreAdds
      <4>3. Back = 0 /\ Back' = 0 /\ Freed = w /\ Freed' = 0 /\ Taken' = Taken
        BY <2>1, <2>7, <2>8, <3>1, <4>1
      <4>4. AtEnd
        BY <2>1, <2>3, <3>1, <3>2, <4>1 DEF Ending
      <4>5. m2 + Held' + a2 + q = npage - Left
        BY <1>6, <2>1, <2>2, <3>3
      <4>6. num'[M] = m2 - Back' /\ num'[FD] = d2 + Taken' /\ num'[FS] = s2 - Freed' /\ Back' <= m2
        BY <1>6, <1>7, <2>2, <2>20, <4>2, <4>3
      <4>7. d2 + m2 + Held' - tn2 = f /\ s2 + rn2 = g - npage + m2
        BY <1>6, <2>1, <2>2, <3>3
      <4> QED
        BY <4>4, <4>5, <4>6, <4>7
    <3>6. CASE upd[Migrator] = <<U3, U4>>
      <4>1. upd'[Migrator] = <<U4>> /\ Len(upd'[Migrator]) = 1 /\ Len(upd[Migrator]) = 2
            /\ Head(upd[Migrator]) = U3
        BY <3>1, <3>6
      <4>2. num'[FD] = num[FD] + (-w) /\ num'[FS] = num[FS] /\ num'[M] = num[M]
        BY <1>1, <1>5, <1>18, <4>1, StoreAdds
      <4>3. Back = 0 /\ Back' = 0 /\ Freed = 0 /\ Freed' = 0 /\ Taken = w /\ Taken' = 0
        BY <2>1, <2>7, <2>8, <3>1, <4>1
      <4>4. AtEnd
        BY <2>1, <2>3, <3>1, <3>2, <4>1 DEF Ending
      <4>5. m2 + Held' + a2 + q = npage - Left
        BY <1>6, <2>1, <2>2, <3>3
      <4>6. num'[M] = m2 - Back' /\ num'[FD] = d2 + Taken' /\ num'[FS] = s2 - Freed' /\ Back' <= m2
        BY <1>6, <1>7, <2>2, <2>20, <4>2, <4>3
      <4>7. d2 + m2 + Held' - tn2 = f /\ s2 + rn2 = g - npage + m2
        BY <1>6, <2>1, <2>2, <3>3
      <4> QED
        BY <4>4, <4>5, <4>6, <4>7
    <3> QED
      BY <2>9, <2>4, <2>6, <3>4, <3>5, <3>6
  <2>10. CASE Len(upd[Migrator]) = 1
    <3>1. upd[Migrator] = <<U4>>
      BY <2>10, <2>5
    <3>2. Head(upd[Migrator]) = U4
      BY <3>1
    <3>3. num'[FD] = num[FD] /\ num'[FS] = num[FS] /\ num'[M] = num[M]
      BY <1>1, <1>5, <1>18, <3>2, StoreAdds
    <3>4. pc'[Migrator] = "scan" /\ batch' = EmptyBatch(batch.to)
      BY <1>1, <1>18, <2>10 DEF StoreCounter, AfterCounting, Goto
    <3>5. Held' = 0 /\ Back' = 0 /\ Freed' = 0 /\ Taken' = 0
      BY <3>4 DEF Held, Back, Freed, Taken, EmptyBatch
    <3>6. Back = 0 /\ Freed = 0 /\ Taken = 0
      BY <2>1, <2>10 DEF Back, Freed, Taken
    <3>7. tn = 0 /\ tn2 = 0 /\ rn = 0 /\ rn2 = 0 /\ AtEnd
      BY <2>1, <3>4 DEF tn, tn2, rn, rn2, Bit
    <3>8. m2 + Held' + a2 + q = npage - Left
      BY <1>6, <2>1, <2>2, <3>5
    <3>9. num'[M] = m2 - Back' /\ num'[FD] = d2 + Taken' /\ num'[FS] = s2 - Freed' /\ Back' <= m2
      BY <1>6, <1>7, <2>2, <3>3, <3>5, <3>6
    <3>10. d2 + m2 + Held' - tn2 = f /\ s2 + rn2 = g - npage + m2
      BY <1>6, <2>1, <2>2, <3>5, <3>7
    <3> QED
      BY <3>7, <3>8, <3>9, <3>10
  <2> QED
    BY <2>9, <2>10
<1> QED
  BY <1>11, <1>12, <1>13, <1>14, <1>15, <1>16, <1>17, <1>18 DEF MigratorStep, Counting

\* Nothing is queued for migration outside of rounds.
LEMMA RestCounts ==
  ASSUME MigInv, NEW to \in ToList, pc[main] = "idle" \/ ~InRound, list[to] = <<>>,
         batch.to = to => pc[Migrator] = "scan"
  PROVE  num[to] = 0
<1>1. Uncounted(to) = {}
  BY Threads, AtRest DEF Uncounted, NoRequests
<1>2. num[to] = Len(list[to]) + InBatch(to) - Cardinality(Uncounted(to))
  BY DEF MigInv, LibInv, CountInv, QueueCountExact
<1>3. InBatch(to) = 0
  BY Unpacked DEF InBatch, MigratorOK, EmptyBatch
<1> QED
  BY <1>1, <1>2, <1>3, FS_EmptySet

\* The buffer is filled.
LEMMA FillEnds ==
  ASSUME MigInv, at = "migrate_down", pc[main] = "idle"
  PROVE  Settled("dram", "nvm")
<1>1. Filling /\ call[main].va - 1 = npage
  BY DEF MigInv, CountsOK, Filling
<1>2. \A to \in ToList : list[to] = <<>> /\ num[to] = 0
  <2> TAKE to \in ToList
  <2>1. list[to] = <<>> /\ (batch.to = to => pc[Migrator] = "scan")
    BY DEF MigInv, QueuesOK, InRound
  <2> QED
    BY <2>1, RestCounts
<1>3. /\ Len(list["dram_mmap_list"]) = npage /\ num["dram_mmap_list"] = npage
      /\ Len(list["dram_free_list"]) = FASTMEM_PAGES - npage
      /\ num["dram_free_list"] = FASTMEM_PAGES - npage
      /\ list["nvm_mmap_list"] = <<>> /\ num["nvm_mmap_list"] = 0
      /\ Len(list["nvm_free_list"]) = SLOWMEM_PAGES /\ num["nvm_free_list"] = SLOWMEM_PAGES
  <2>1. /\ Bit(pc[main] \in {"map", "count", "publish", "add"}) = 0
        /\ Bit(pc[main] \in {"place", "map", "count", "publish", "add"}) = 0
        /\ Bit(pc[main] \in {"publish", "add"}) = 0
        /\ Bit(pc[main] \in {"publish", "add"} \/ (pc[main] = "count" /\ Len(upd[main]) = 1)) = 0
    BY DEF Bit
  <2>2. /\ Len(list["dram_mmap_list"]) = npage + 0 /\ num["dram_mmap_list"] = npage + 0
        /\ Len(list["dram_free_list"]) = FASTMEM_PAGES - npage - 0
        /\ num["dram_free_list"] = FASTMEM_PAGES - npage - 0
        /\ list["nvm_mmap_list"] = <<>> /\ num["nvm_mmap_list"] = 0
        /\ Len(list["nvm_free_list"]) = SLOWMEM_PAGES /\ num["nvm_free_list"] = SLOWMEM_PAGES
    BY <1>1, <2>1 DEF Filling
  <2> QED
    BY <2>2, Threads
<1>4. \A l \in List : num[l] = Len(list[l])
  BY <1>2, <1>3 DEF List
<1> QED
  BY <1>3, <1>4 DEF Settled, MmapList, FreeList, FramesIn

\* The round is over: the last batch has been counted.
LEMMA RoundEnds ==
  ASSUME MigInv, InRound, pc[main] = "idle", num[Asked] = 0
  PROVE  Settled(Dst, Src) /\ pc[Migrator] = "scan"
<1> USE Threads
<1>1. Asked \in ToList /\ list[Asked] = <<>> /\ (batch.to = Asked => pc[Migrator] = "scan")
  BY RoundOver, RoundLists
<1>2. pc[Migrator] = "scan"
  BY <1>1, RoundBatch
<1>3. \A to \in ToList : list[to] = <<>> /\ num[to] = 0
  <2> TAKE to \in ToList
  <2>1. list[to] = <<>>
    BY <1>1 DEF MigInv, QueuesOK
  <2> QED
    BY <1>2, <2>1, RestCounts
<1>4. Held = 0 /\ Back = 0 /\ Freed = 0 /\ Taken = 0
  BY <1>2, Stages
<1> DEFINE M  == MmapList(Dst)
           FD == FreeList(Dst)
           FS == FreeList(Src)
           S  == MmapList(Src)
           m  == Len(list[M])
           d  == Len(list[FD])
           s  == Len(list[FS])
           a  == Len(list[S])
           f  == FramesIn(Dst)
           g  == FramesIn(Src)
<1>5. m \in Nat /\ d \in Nat /\ s \in Nat /\ a \in Nat /\ f \in Nat /\ g \in Nat
  BY RoundCall DEF FramesIn
<1>6. Left = 0 /\ Bit(pc[main] = "rotate_back") = 0 /\ Bit(pc[main] \in {"queue", "count"}) = 0
      /\ Bit(pc[main] = "queue") = 0 /\ Bit(pc[Migrator] = "take_next") = 0
      /\ Bit(pc[Migrator] = "restore_next") = 0
  BY <1>2, RoundCall DEF Requesting, Bit
<1>7. a + 0 = 0 /\ num[S] = 0 + 0 /\ m + 0 + Len(list[Asked]) + 0 = npage - 0
  BY <1>4, <1>6, RoundCall DEF Requesting, InTransit
<1>8. /\ num[M] = m - 0 /\ num[FD] = d + 0 /\ num[FS] = s - 0
      /\ d + m + 0 - 0 = f /\ s + 0 = g - npage + m
  BY <1>4, <1>6, RoundCall DEF Migrating
<1>9. Len(list[Asked]) = 0
  BY <1>1
<1>10. List = ToList \cup {M, FD, FS, S}
  BY RoundLists DEF List, ToList, MmapList, FreeList, Tier
<1>11. M \in List /\ S \in List /\ list[S] \in Seq(Page)
  BY <1>10, Unpacked
<1> HIDE DEF M, FD, FS, S, f, g
<1>12. m = npage /\ a = 0 /\ num[S] = 0 /\ num[M] = m /\ num[FD] = d /\ num[FS] = s
  BY <1>5, <1>7, <1>8, <1>9
<1>13. d = f - npage /\ s = g
  BY <1>5, <1>8, <1>12
<1>14. list[S] = <<>>
  BY <1>11, <1>12
<1>15. \A l \in List : num[l] = Len(list[l])
  BY <1>3, <1>10, <1>12
<1> QED
  BY <1>2, <1>12, <1>13, <1>14, <1>15 DEF Settled, M, FD, FS, S, f, g

\* main() asks for all pages of the tier they are in.
LEMMA RoundStarts ==
  ASSUME MigInv, ~InRound, InRound', Settled(Src', Dst'), UNCHANGED <<list, num, batch, upd>>,
         pc'[Migrator] = pc[Migrator], pc'[main] = "request", call'[main].left = npage
  PROVE  Requesting' /\ InTransit' /\ Migrating'
<1> USE Threads
<1>1. pc[Migrator] = "scan" /\ list'[Asked'] = <<>>
  <2>1. Asked' \in ToList
    BY DEF Asked, ToList
  <2> QED
    BY <2>1, AtRest DEF MigInv, LibInv, Known, Still, QueuesOK
<1>2. batch'.next = <<>>
  BY <1>1, Unpacked DEF MigratorOK, EmptyBatch
<1>3. Held' = 0 /\ Back' = 0 /\ Freed' = 0 /\ Taken' = 0
  BY <1>1, <1>2 DEF Held, Back, Freed, Taken
<1> DEFINE M  == MmapList(Dst')
           FD == FreeList(Dst')
           FS == FreeList(Src')
           S  == MmapList(Src')
           f  == FramesIn(Dst')
           g  == FramesIn(Src')
<1>4. /\ Len(list[S]) = npage /\ list[M] = <<>> /\ Len(list[FS]) = g - npage
      /\ Len(list[FD]) = f /\ \A l \in List : num[l] = Len(list[l])
  BY DEF Settled
<1>5. M \in List /\ FD \in List /\ FS \in List /\ S \in List /\ f \in Nat /\ g \in Nat
  BY ListNames DEF FramesIn
<1>6. Len(list[M]) = 0
  BY <1>4
<1> HIDE DEF M, FD, FS, S, f, g
<1>7. num[M] = 0 /\ num[FD] = f /\ num[FS] = g - npage /\ num[S] = npage
  BY <1>4, <1>5, <1>6
<1>8. pc'[main] # "rotate_back" /\ pc'[main] \notin {"queue", "count"} /\ pc'[main] # "idle"
      /\ pc'[Migrator] # "take_next" /\ pc'[Migrator] # "restore_next" /\ pc'[Migrator] # "count"
  BY <1>1
<1>9. Requesting'
  <2>1. Len(list'[S]) + 0 = npage /\ num'[S] = npage + 0
    BY <1>4, <1>7
  <2> QED
    BY <1>8, <2>1 DEF Requesting, Left, S, Bit
<1>10. InTransit'
  <2>1. Len(list'[M]) + 0 + Len(list'[Asked']) + 0 = npage - npage
    BY <1>1, <1>6
  <2> QED
    BY <1>3, <1>8, <2>1 DEF InTransit, Left, M, Bit
<1>11. Migrating'
  <2>1. /\ num'[M] = Len(list'[M]) - 0 /\ num'[FD] = Len(list'[FD]) + 0
        /\ num'[FS] = Len(list'[FS]) - 0 /\ Len(list'[FD]) + Len(list'[M]) + 0 - 0 = f
        /\ Len(list'[FS]) + 0 = g - npage + Len(list'[M]) /\ 0 <= Len(list'[M])
    BY <1>4, <1>5, <1>6, <1>7
  <2> QED
    BY <1>3, <1>8, <2>1 DEF Migrating, M, FD, FS, f, g, Bit
<1> QED
  BY <1>9, <1>10, <1>11

\* The sums hold from one step to the next.
LEMMA NextCountsOK ==
  ASSUME MigInv, MigNext
  PROVE  CountsOK'
<1> USE Threads
<1>1. CASE Main /\ pc[main] = "idle"
  <2>1. UNCHANGED <<list, num, pg, cur, upd, batch>> /\ pc'[Migrator] = pc[Migrator]
    BY <1>1, MainLists, MainFrame
  <2>2. pc \in [Thread -> Label] /\ call \in [Thread -> CallRecord]
    BY Unpacked
  <2>3. CASE MapBuffer
    <3>1. pc'[main] = "alloc" /\ call'[main].va = 1 /\ at' = "migrate_down" /\ at = "mmap"
      BY <2>2, <2>3 DEF MapBuffer, Mmap, Goto, At, Then, RegionCall
    <3>2. Untouched
      BY <3>1 DEF MigInv, CountsOK
    <3>3. Filling'
      <4>1. /\ Len(list'["dram_mmap_list"]) = 0 + 0
            /\ Len(list'["dram_free_list"]) = FASTMEM_PAGES - 0 - 0
            /\ num'["dram_mmap_list"] = 0 + 0 /\ num'["dram_free_list"] = FASTMEM_PAGES - 0 - 0
        BY <2>1, <3>2 DEF Untouched
      <4>2. call'[main].va - 1 = 0
        BY <3>1
      <4> QED
        BY <2>1, <3>1, <3>2, <4>1, <4>2 DEF Filling, Untouched, Bit
    <3> QED
      BY <3>1, <3>3 DEF CountsOK, InRound
  <2>4. CASE MigrateDown
    <3>1. /\ pc'[main] = "request" /\ call'[main].left = npage
          /\ at' = "wait_down" /\ at = "migrate_down"
      BY <2>2, <2>4 DEF MigrateDown, Request, Goto, At, Then, RequestCall
    <3>2. InRound' /\ Src' = "dram" /\ Dst' = "nvm" /\ ~InRound
      BY <3>1 DEF InRound, Src, Dst, Asked, Source, Target
    <3>3. Settled(Src', Dst')
      BY <1>1, <3>1, <3>2, FillEnds
    <3> QED
      BY <2>1, <3>1, <3>2, <3>3, RoundStarts DEF CountsOK
  <2>5. CASE WaitDown
    <3>1. at' = "migrate_up" /\ at = "wait_down" /\ num["dram_to_nvm_list"] = 0
      BY <2>5 DEF WaitDown, At, Then
    <3>2. InRound /\ Src = "dram" /\ Dst = "nvm" /\ Asked = "dram_to_nvm_list"
      BY <3>1 DEF InRound, Src, Dst, Asked, Source, Target
    <3>3. Settled("nvm", "dram")
      BY <1>1, <3>1, <3>2, RoundEnds
    <3> QED
      BY <2>1, <3>1, <3>3 DEF CountsOK, InRound, Settled
  <2>6. CASE MigrateUp
    <3>1. /\ pc'[main] = "request" /\ call'[main].left = npage
          /\ at' = "wait_up" /\ at = "migrate_up"
      BY <2>2, <2>6 DEF MigrateUp, Request, Goto, At, Then, RequestCall
    <3>2. InRound' /\ Src' = "nvm" /\ Dst' = "dram" /\ ~InRound
      BY <3>1 DEF InRound, Src, Dst, Asked, Source, Target
    <3>3. Settled(Src', Dst')
      BY <3>1, <3>2 DEF MigInv, CountsOK
    <3> QED
      BY <2>1, <3>1, <3>2, <3>3, RoundStarts DEF CountsOK
  <2>7. CASE WaitUp
    <3>1. at' = "munmap" /\ at = "wait_up" /\ num["nvm_to_dram_list"] = 0
      BY <2>7 DEF WaitUp, At, Then
    <3>2. InRound /\ Src = "nvm" /\ Dst = "dram" /\ Asked = "nvm_to_dram_list"
      BY <3>1 DEF InRound, Src, Dst, Asked, Source, Target
    <3>3. Settled("dram", "nvm")
      BY <1>1, <3>1, <3>2, RoundEnds
    <3> QED
      BY <2>1, <3>1, <3>3 DEF CountsOK, InRound, Settled
  <2>8. CASE UnmapBuffer \/ WaitTotal
    BY <2>8 DEF UnmapBuffer, WaitTotal, Then, CountsOK, InRound
  <2> QED
    BY <1>1, <2>3, <2>4, <2>5, <2>6, <2>7, <2>8 DEF Main
<1>2. CASE AppStep(main) /\ UNCHANGED at
  <2>1. CASE at = "migrate_down"
    BY <1>2, <2>1, FillingSteps DEF CountsOK, InRound
  <2>2. CASE InRound
    BY <1>2, <2>2, RequestFrame, RequestSteps DEF CountsOK, InRound
  <2>3. CASE at = "wait_total"
    BY <1>2, <2>3 DEF CountsOK, InRound
  <2> QED
    BY <1>2, <2>1, <2>2, <2>3, CallSteps
<1>3. CASE MigratorStep /\ UNCHANGED at
  <2>1. CASE ~InRound
    <3>1. UNCHANGED <<list, num, pg, pc, call, cur, upd, at>>
      BY <1>3, <2>1, OnlyScans
    <3> QED
      BY <2>1, <3>1 DEF MigInv, CountsOK, InRound, Untouched, Filling, Settled, TierOf
  <2>2. CASE InRound
    BY <1>3, <2>2, MovingFrame, MovingSteps DEF CountsOK, InRound
  <2> QED
    BY <2>1, <2>2
<1> QED
  BY <1>1, <1>2, <1>3, MainSteps

-----------------------------------------------------------------------------
(* The addresses.                                                           *)

\* What main() fills is inside of the buffer.
LEMMA FillsInside ==
  ASSUME MigInv, at = "migrate_down", pc[main] \in MmapLabel \cup {"count"}
  PROVE  /\ call[main].va \in 1 .. npage /\ call[main].va \in VA
         /\ call[main].op = "mmap" /\ call[main].lo = 1 /\ call[main].hi = npage
         /\ pc[main] \in {"place", "map", "count", "publish", "add"} =>
              Has(main) /\ cur[main] \in Page \ hashed
         /\ pc[main] = "add" => pg[cur[main]].va = call[main].va
<1>1. call[main].op = "mmap" /\ call[main].lo = 1 /\ call[main].hi = npage
  BY DEF MigInv, MainOK
<1>2. pc[main] \in {"place", "map", "count", "publish", "add"} => Has(main)
  BY <1>1 DEF Has
<1>3. Fills(main)
  BY <1>2 DEF Fills, MmapLabel
<1>4. FillOK(main) /\ HasOK(main)
  BY Threads, Unpacked DEF Track
<1>5. call[main].va \in VA /\ call[main].lo <= call[main].va /\ call[main].va <= call[main].hi
  BY <1>3, <1>4 DEF FillOK
<1> QED
  BY <1>1, <1>2, <1>4, <1>5, Threads DEF HasOK, VA

\* Who writes which field of a page: an address is recorded once, and a page
\* becomes present when it is allocated.
LEMMA PageFrame ==
  ASSUME MigInv, MigNext, NEW p \in Page
  PROVE  /\ \/ pg'[p].va = pg[p].va
            \/ at = "migrate_down" /\ Publish(main) /\ p = cur[main] /\ pg'[p].va = call[main].va
         /\ pg'[p].present =>
              pg[p].present \/ (at = "migrate_down" /\ Place(main) /\ p = cur[main])
<1>1. pg \in [Page -> PageRecord] /\ batch \in BatchRecord
  BY Unpacked
<1>2. CASE Main /\ pc[main] = "idle"
  BY <1>2, MainLists
<1>3. CASE AppStep(main) /\ UNCHANGED at
  <2>1. CASE at = "migrate_down" /\ (Place(main) \/ Publish(main))
    BY <1>1, <2>1 DEF Place, Publish, PageRecord
  <2>2. CASE ~(at = "migrate_down" /\ (Place(main) \/ Publish(main)))
    <3>1. pg' = pg
      BY <1>3, <2>2, CallSteps, NoDeath
      DEF Allocate, Map, AddPage, LoadCounter, StoreCounter, Choose, Rotate, RotateBack, Take,
          Queue, RequestDone, RemovePage, UncountPage, Unmap
    <3> QED
      BY <3>1
  <2> QED
    BY <2>1, <2>2
<1>4. CASE MigratorStep
  <2>1. CASE Remap
    <3> DEFINE h   == batch.page[batch.i]
               off == batch.offset[batch.i]
               b   == Target(batch.to) = "dram"
    <3>1. pg' = [pg EXCEPT ![h].in_dram = b, ![h].devdax_offset = off]
      BY <2>1 DEF Remap
    <3> HIDE DEF h, off, b
    <3> QED
      BY <1>1, <3>1 DEF PageRecord
  <2>3. CASE Restore
    <3> DEFINE h   == batch.next[batch.i]
               off == batch.offset[batch.i]
               b   == FreedTier(batch.to) = "dram"
    <3>1. pg' = [pg EXCEPT ![h].devdax_offset = off, ![h].present = FALSE, ![h].in_dram = b]
      BY <2>3 DEF Restore
    <3> HIDE DEF h, off, b
    <3> QED
      BY <1>1, <3>1 DEF PageRecord
  <2>2. CASE ~(Remap \/ Restore)
    <3>1. pg' = pg
      BY <1>4, <2>2, NoDeath
      DEF MigratorStep, Counting, Scan, TakePage, TakeNext, Protect, Copy, RestoreNext,
          LoadCounter, StoreCounter
    <3> QED
      BY <3>1
  <2> QED
    BY <2>1, <2>2, <2>3
<1> QED
  BY <1>2, <1>3, <1>4, MainSteps

\* A page keeps its address while it is in the table, and stays there until
\* the buffer is unmapped.
LEMMA TableKept ==
  ASSUME MigInv, MigNext
  PROVE  /\ \A p \in hashed : pg'[p].va = pg[p].va
         /\ at # "wait_total" => hashed \subseteq hashed' /\ \A v : Tracked(v) => Tracked(v)'
<1>1. \A p \in hashed : pg'[p].va = pg[p].va
  <2> TAKE p \in hashed
  <2>1. p \in Page
    BY Unpacked
  <2>2. at = "migrate_down" /\ Publish(main) => p # cur[main]
    BY FillsInside DEF Publish, MmapLabel
  <2> QED
    BY <2>1, <2>2, PageFrame
<1>2. at # "wait_total" => hashed \subseteq hashed'
  <2>1. CASE Main
    BY <2>1, MainLists
  <2>2. CASE AppStep(main) /\ at # "wait_total"
    BY <2>2, CallSteps, NoDeath
    DEF Allocate, Place, Map, Publish, AddPage, LoadCounter, StoreCounter, Choose, Rotate,
        RotateBack, Take, Queue, RequestDone
  <2>3. CASE MigratorStep
    BY <2>3, MigratorFrame
  <2> QED
    BY <2>1, <2>2, <2>3, MainSteps
<1>3. at # "wait_total" => \A v : Tracked(v) => Tracked(v)'
  BY <1>1, <1>2 DEF Tracked
<1> QED
  BY <1>1, <1>2, <1>3

\* All addresses are in the buffer, and so is all that is mapped.
LEMMA NextInside ==
  ASSUME MigInv, MigNext
  PROVE  /\ \A p \in Page : pg'[p].va <= npage
         /\ \A v \in VA : v > npage => vm'[v] = Unmapped
<1> USE Threads
<1>1. \A p \in Page : pg[p].va <= npage
  BY DEF MigInv, VasOK
<1>2. \A v \in VA : v > npage => vm[v] = Unmapped
  BY DEF MigInv, VasOK
<1>3. \A p \in Page : pg'[p].va <= npage
  <2> TAKE p \in Page
  <2>1. at = "migrate_down" /\ Publish(main) => call[main].va <= npage
    BY FillsInside DEF Publish, MmapLabel
  <2> QED
    BY <1>1, <2>1, PageFrame
<1>4. ASSUME NEW v \in VA, v > npage PROVE vm'[v] = Unmapped
  <2>0. v \in Nat /\ vm[v] = Unmapped /\ v \notin 1 .. npage /\ vm \in [VA -> Frame \cup {Unmapped, Reserved}]
    BY <1>2, <1>4, Unpacked DEF VA
  <2>1. CASE Main
    BY <2>0, <2>1
    DEF Main, MapBuffer, MigrateDown, WaitDown, MigrateUp, WaitUp, UnmapBuffer, WaitTotal, Mmap,
        Request, Munmap, vars
  <2>2. CASE AppStep(main) /\ ~Map(main) /\ ~Unmap(main)
    <3>1. vm' = vm
      BY <2>2, CallSteps, NoDeath
      DEF Allocate, Place, Publish, AddPage, LoadCounter, StoreCounter, Choose, Rotate,
          RotateBack, Take, Queue, RequestDone, RemovePage, UncountPage
    <3> QED
      BY <2>0, <3>1
  <2>3. CASE AppStep(main) /\ Map(main)
    <3>1. at = "migrate_down" /\ pc[main] = "map"
      BY <2>3 DEF Map, MigInv, MainOK, InRound, RequestLabel
    <3>2. call[main].va \in 1 .. npage
      BY <3>1, FillsInside DEF MmapLabel
    <3>3. \E f : vm' = [vm EXCEPT ![call[main].va] = f]
      BY <2>3 DEF Map
    <3> QED
      BY <2>0, <3>2, <3>3
  <2>4. CASE AppStep(main) /\ Unmap(main)
    BY <2>0, <2>4 DEF Unmap
  <2>5. CASE MigratorStep /\ ~Remap
    <3>1. vm' = vm
      BY <2>5, NoDeath
      DEF MigratorStep, Counting, Scan, TakePage, TakeNext, Protect, Copy, Restore, RestoreNext,
          LoadCounter, StoreCounter
    <3> QED
      BY <2>0, <3>1
  <2>6. CASE Remap
    <3>0. batch.page \in Seq(Page) /\ batch.i \in 1 .. Len(batch.page)
      BY <2>6, Unpacked DEF Remap, MigratorOK
    <3>1. batch.page[batch.i] \in Page
      BY <3>0
    <3>2. pg[batch.page[batch.i]].va # v
      BY <1>1, <1>4, <3>1, <2>0
    <3>3. \E f : vm' = [vm EXCEPT ![pg[batch.page[batch.i]].va] = f]
      BY <2>6 DEF Remap
    <3> QED
      BY <2>0, <3>2, <3>3
  <2> QED
    BY <2>1, <2>2, <2>3, <2>4, <2>5, <2>6, MainSteps
<1> QED
  BY <1>3, <1>4

\* A present page has an address, or is on its way to get one.
LEMMA NextPresent ==
  ASSUME MigInv, MigNext
  PROVE  \A p \in Page : pg'[p].present => pg'[p].va # 0 \/ (Has(main) /\ cur[main] = p)'
<1> USE Threads
<1> SUFFICES ASSUME NEW p \in Page, pg'[p].present, pg'[p].va = 0
             PROVE  Has(main)' /\ cur'[main] = p
  OBVIOUS
<1>1. /\ pc \in [Thread -> Label] /\ call \in [Thread -> CallRecord]
      /\ cur \in [Thread -> Page \cup {NoPage}] /\ pg \in [Page -> PageRecord]
  BY Unpacked
<1>2. pg[p].va = 0 /\ (pg[p].present \/ (at = "migrate_down" /\ Place(main) /\ p = cur[main]))
  <2>1. at = "migrate_down" /\ Publish(main) => call[main].va # 0
    BY FillsInside DEF Publish, MmapLabel
  <2> QED
    BY <2>1, PageFrame
<1>3. CASE at = "migrate_down" /\ Place(main) /\ p = cur[main]
  BY <1>1, <1>3 DEF Place, Has, Goto
<1>4. CASE pg[p].present
  <2>1. Has(main) /\ cur[main] = p
    BY <1>2, <1>4 DEF MigInv, VasOK
  <2>2. at = "migrate_down" /\ pc[main] \in {"place", "map", "count", "publish", "add"}
        /\ call[main].op = "mmap"
    BY <2>1 DEF Has, MigInv, MainOK, InRound, RequestLabel
  <2>3. pc[main] # "add"
    BY <1>2, <2>1, <2>2, FillsInside DEF MmapLabel
  <2>4. CASE Main /\ pc[main] = "idle"
    BY <2>2, <2>4
  <2>5. CASE AppStep(main)
    <3>1. Place(main) \/ Map(main) \/ Publish(main) \/ LoadCounter(main) \/ StoreCounter(main)
      BY <2>2, <2>3, <2>5, CallSteps DEF Allocate, AddPage, InRound
    <3>2. pc'[main] \in {"map", "count", "publish", "add"} /\ cur' = cur /\ call' = call
      BY <1>1, <2>2, <3>1
      DEF Place, Map, Publish, LoadCounter, StoreCounter, Goto, StartCounting, AfterCounting
    <3> QED
      BY <2>1, <2>2, <3>2 DEF Has
  <2>6. CASE MigratorStep
    BY <2>1, <2>6, MigratorFrame DEF Has
  <2> QED
    BY <2>4, <2>5, <2>6, MainSteps
<1> QED
  BY <1>2, <1>3, <1>4

\* The buffer is in the table up to where main() is, and then all of it.
LEMMA NextTracked ==
  ASSUME MigInv, MigNext
  PROVE  /\ at' = "migrate_down" => \A v \in 1 .. call'[main].va - 1 : Tracked(v)'
         /\ (InRound \/ at \in {"migrate_up", "munmap"})' => \A v \in 1 .. npage : Tracked(v)'
<1> USE Threads DEF InRound
<1>1. /\ at = "migrate_down" => \A v \in 1 .. call[main].va - 1 : Tracked(v)
      /\ InRound \/ at \in {"migrate_up", "munmap"} => \A v \in 1 .. npage : Tracked(v)
  BY DEF MigInv, VasOK
<1>2. at # "wait_total" => \A v : Tracked(v) => Tracked(v)'
  BY TableKept
<1>3. pc \in [Thread -> Label] /\ call \in [Thread -> CallRecord] /\ call[main].va \in Nat
  BY Unpacked
<1>4. CASE Main /\ pc[main] = "idle"
  <2>1. CASE MapBuffer
    <3>1. call'[main].va = 1 /\ at' = "migrate_down"
      BY <1>3, <2>1 DEF MapBuffer, Mmap, Then, RegionCall
    <3>2. 1 .. call'[main].va - 1 = {}
      BY <3>1
    <3> QED
      BY <3>1, <3>2
  <2>2. CASE MigrateDown
    <3>1. at = "migrate_down" /\ at' = "wait_down"
      BY <2>2 DEF MigrateDown, At, Then
    <3>2. call[main].va - 1 = npage
      BY <1>4, <3>1 DEF MigInv, CountsOK, Filling
    <3> QED
      BY <1>1, <1>2, <3>1, <3>2
  <2>3. CASE WaitDown \/ MigrateUp \/ WaitUp
    BY <1>1, <1>2, <2>3 DEF WaitDown, MigrateUp, WaitUp, At, Then
  <2>4. CASE UnmapBuffer \/ WaitTotal
    BY <2>4 DEF UnmapBuffer, WaitTotal, Then
  <2> QED
    BY <1>4, <2>1, <2>2, <2>3, <2>4 DEF Main
<1>5. CASE AppStep(main) /\ UNCHANGED at
  <2>1. CASE AddPage(main) /\ at = "migrate_down"
    <3>1. cur[main] \in Page /\ pg[cur[main]].va = call[main].va
      BY <2>1, FillsInside DEF AddPage, MmapLabel
    <3>2. /\ call'[main].va = call[main].va + 1 /\ cur[main] \in hashed' /\ pg' = pg
      BY <1>3, <2>1, NoDeath DEF AddPage, CallRecord
    <3>3. \A v : v = call[main].va => Tracked(v)'
      BY <3>1, <3>2 DEF Tracked
    <3>4. ASSUME NEW v \in 1 .. call'[main].va - 1 PROVE v \in 1 .. call[main].va - 1 \/ v = call[main].va
      BY <1>3, <3>2
    <3> QED
      BY <1>1, <1>2, <1>5, <2>1, <3>3, <3>4
  <2>2. CASE ~AddPage(main) /\ at = "migrate_down"
    <3>1. call' = call
      BY <1>5, <2>2, CallSteps, NoDeath
      DEF Allocate, Place, Map, Publish, LoadCounter, StoreCounter
    <3> QED
      BY <1>1, <1>2, <1>5, <2>2, <3>1
  <2>3. CASE at # "migrate_down"
    BY <1>1, <1>2, <1>5, <2>3
  <2> QED
    BY <2>1, <2>2, <2>3
<1>6. CASE MigratorStep /\ UNCHANGED at
  BY <1>1, <1>2, <1>6, MigratorFrame
<1> QED
  BY <1>4, <1>5, <1>6, MainSteps

\* Back from munmap, nothing is tracked and nothing is mapped.
LEMMA NextUnmapped ==
  ASSUME MigInv, MigNext, at' \in {"wait_total", "return"}, pc'[main] = "idle"
  PROVE  hashed' = {} /\ \A v \in VA : vm'[v] = Unmapped
<1> USE Threads
<1>1. at \in {"wait_total", "return"} /\ pc[main] = "idle" =>
        hashed = {} /\ \A v \in VA : vm[v] = Unmapped
  BY DEF MigInv, VasOK
<1>2. pc \in [Thread -> Label] /\ vm \in [VA -> Frame \cup {Unmapped, Reserved}]
  BY Unpacked
<1>3. CASE Main /\ pc[main] = "idle"
  <2>1. ~UnmapBuffer
    BY <1>2 DEF UnmapBuffer, Munmap, Goto
  <2>2. WaitTotal
    BY <1>3, <2>1
    DEF Main, MapBuffer, MigrateDown, WaitDown, MigrateUp, WaitUp, WaitTotal, Then
  <2> QED
    BY <1>1, <1>3, <2>2 DEF WaitTotal, At, vars
<1>4. CASE AppStep(main) /\ UNCHANGED at
  <2>1. at = "wait_total"
    BY <1>4, CallSteps DEF InRound
  <2>2. Unmap(main)
    BY <1>2, <1>4, <2>1, CallSteps
    DEF RemovePage, UncountPage, LoadCounter, StoreCounter, Goto, StartCounting, AfterCounting,
        MigInv, MainOK, InRound
  <2>3. pc[main] = "munmap" /\ call[main].va > call[main].hi /\ hashed' = hashed
        /\ vm' = [v \in VA |-> IF v \in call[main].lo .. call[main].hi THEN Unmapped ELSE vm[v]]
    BY <2>2 DEF Unmap
  <2>4. call[main].lo = 1 /\ call[main].hi = npage /\ call[main].va \in Nat
    BY <2>1, Unpacked DEF MigInv, MainOK
  <2>5. \A v \in 1 .. npage : ~Tracked(v)
    <3>1. UnmapOK(main) /\ Unmaps(main)
      BY <2>3, Unpacked DEF Track, Unmaps
    <3>2. \A v \in 1 .. npage : v < call[main].va => ~Tracked(v)
      BY <2>4, <3>1 DEF UnmapOK
    <3>3. \A v \in 1 .. npage : v < call[main].va
      BY <2>3, <2>4
    <3> QED
      BY <3>2, <3>3
  <2>6. hashed = {}
    <3>1. SUFFICES ASSUME NEW p \in hashed PROVE FALSE
      OBVIOUS
    <3>2. pg[p].va \in VA /\ pg[p].va <= npage
      BY <3>1, Unpacked DEF Track, TableOK, MigInv, VasOK
    <3>3. pg[p].va \in 1 .. npage
      BY <3>2 DEF VA
    <3> QED
      BY <2>5, <3>1, <3>3 DEF Tracked
  <2>7. ASSUME NEW v \in VA PROVE vm'[v] = Unmapped
    <3>1. v > npage => vm[v] = Unmapped
      BY <2>7 DEF MigInv, VasOK
    <3>2. v \notin 1 .. npage => v > npage
      BY <2>7 DEF VA
    <3> QED
      BY <2>3, <2>4, <2>7, <3>1, <3>2
  <2> QED
    BY <2>3, <2>6, <2>7
<1>5. CASE MigratorStep /\ UNCHANGED at
  <2>1. UNCHANGED <<hashed, vm, pc>>
    BY <1>5, OnlyScans DEF InRound
  <2> QED
    BY <1>1, <1>5, <2>1
<1> QED
  BY <1>3, <1>4, <1>5, MainSteps

\* What is mapped is tracked, or about to be.
LEMMA NextShown ==
  ASSUME MigInv, MigNext, at' \notin {"wait_total", "return"}, NEW v \in VA, vm'[v] \in Frame
  PROVE  Used(v)'
<1> USE Threads
<1>1. at \notin {"wait_total", "return"}
  BY MainSteps
  DEF Main, MapBuffer, MigrateDown, WaitDown, MigrateUp, WaitUp, UnmapBuffer, WaitTotal, At, Then
<1>2. vm[v] \in Frame => Used(v)
  BY <1>1 DEF MigInv, VasOK
<1>3. Tracked(v) => Tracked(v)'
  BY <1>1, TableKept
<1>4. pc \in [Thread -> Label] /\ call \in [Thread -> CallRecord]
      /\ vm \in [VA -> Frame \cup {Unmapped, Reserved}]
  BY Unpacked
<1>5. \A u \in Caller : Backed(u) => u = main /\ at = "migrate_down"
  <2>1. pc[FaultThread] = "poll" /\ MainOK
    BY DEF MigInv, MainOK
  <2> QED
    BY <1>1, <2>1 DEF MainOK, Backed, Has, InRound, RequestLabel
<1>6. CASE (InRound \/ at \in {"migrate_up", "munmap"})'
  <2>1. v \in 1 .. npage
    <3>1. ~(v > npage)
      BY NextInside, MarksApart
    <3> QED
      BY <3>1 DEF VA
  <2> QED
    BY <1>6, <2>1, NextTracked DEF Used
<1>7. CASE at' \in {"mmap", "migrate_down"}
  <2>1. CASE Main /\ pc[main] = "idle"
    <3>1. MapBuffer
      BY <1>7, <2>1
      DEF Main, MapBuffer, MigrateDown, WaitDown, MigrateUp, WaitUp, UnmapBuffer, WaitTotal, Then
    <3>2. vm'[v] = vm[v]
      BY <3>1, MarksApart DEF MapBuffer, Mmap
    <3>3. ~Backed(main)
      BY <2>1 DEF Backed, Has
    <3> QED
      BY <1>2, <1>3, <1>5, <3>2, <3>3 DEF Used
  <2>2. CASE AppStep(main) /\ UNCHANGED at
    <3>1. at = "migrate_down"
      BY <1>7, <2>2, CallSteps DEF InRound
    <3>2. CASE Map(main)
      <4>1. call[main].op = "mmap"
        BY <3>1, <3>2, FillsInside DEF Map, MmapLabel
      <4>2. pc'[main] = "count" /\ call' = call
        BY <1>4, <3>2 DEF Map, StartCounting, Goto
      <4>3. Backed(main)'
        BY <4>1, <4>2 DEF Backed, Has
      <4>4. v # call[main].va => vm'[v] = vm[v]
        <5>1. \E f : vm' = [vm EXCEPT ![call[main].va] = f]
          BY <3>2 DEF Map
        <5> QED
          BY <1>4, <5>1
      <4>5. ~Backed(main)
        BY <3>2 DEF Map, Backed
      <4> QED
        BY <1>2, <1>3, <1>5, <4>2, <4>3, <4>4, <4>5 DEF Used
    <3>3. CASE AddPage(main)
      <4>1. cur[main] \in Page /\ pg[cur[main]].va = call[main].va
        BY <3>1, <3>3, FillsInside DEF AddPage, MmapLabel
      <4>2. vm' = vm /\ pg' = pg /\ cur[main] \in hashed'
        BY <3>3, NoDeath DEF AddPage
      <4>3. v = call[main].va => Tracked(v)'
        BY <4>1, <4>2 DEF Tracked
      <4> QED
        BY <1>2, <1>3, <1>5, <4>2, <4>3 DEF Used
    <3>4. CASE ~Map(main) /\ ~AddPage(main)
      <4>1. vm' = vm /\ call' = call
        BY <2>2, <3>1, <3>4, CallSteps, NoDeath
        DEF Allocate, Place, Publish, LoadCounter, StoreCounter, InRound
      <4>2. Backed(main) => Backed(main)'
        <5>1. SUFFICES ASSUME Backed(main) PROVE Backed(main)'
          OBVIOUS
        <5>2. Publish(main) \/ LoadCounter(main) \/ StoreCounter(main)
          BY <2>2, <3>1, <3>4, <5>1, CallSteps DEF Backed, Has, Allocate, Place, InRound
        <5>3. pc'[main] \in {"count", "publish", "add"}
          BY <1>4, <5>1, <5>2
          DEF Publish, LoadCounter, StoreCounter, Goto, AfterCounting, Backed, Has
        <5>4. call[main].op = "mmap"
          BY <3>1 DEF MigInv, MainOK
        <5> QED
          BY <4>1, <5>3, <5>4 DEF Backed, Has
      <4> QED
        BY <1>2, <1>3, <1>5, <4>1, <4>2 DEF Used
    <3> QED
      BY <3>2, <3>3, <3>4
  <2>3. CASE MigratorStep /\ UNCHANGED at
    <3>1. UNCHANGED <<vm, pc, call>>
      BY <1>7, <2>3, OnlyScans DEF InRound
    <3> QED
      BY <1>2, <1>3, <3>1 DEF Used, Backed, Has
  <2> QED
    BY <2>1, <2>2, <2>3, MainSteps
<1>8. at' \in {"mmap", "migrate_down"} \/ (InRound \/ at \in {"migrate_up", "munmap"})'
  BY NextMainOK DEF MainOK, InRound
<1> QED
  BY <1>6, <1>7, <1>8

\* Addresses, table and mappings stay in agreement.
LEMMA NextVasOK ==
  ASSUME MigInv, MigNext
  PROVE  VasOK'
<1>1. at' \notin {"wait_total", "return"} => Match' /\ KnownVa'
  <2>1. SUFFICES ASSUME at' \notin {"wait_total", "return"} PROVE Match' /\ KnownVa'
    OBVIOUS
  <2>2. at \notin {"wait_total", "return"}
    BY <2>1, MainSteps
    DEF Main, MapBuffer, MigrateDown, WaitDown, MigrateUp, WaitUp, UnmapBuffer, WaitTotal, At, Then
  <2>3. Match /\ KnownVa /\ Known /\ TrackInv /\ [Next]_vars
    BY <2>2, MigSteps DEF MigInv, VasOK, LibInv
  <2>4. \A t \in App : pc[t] \notin {"munmap", "removed"}
    BY <2>2, Threads DEF MigInv, MainOK, InRound, MmapLabel, RequestLabel
  <2>5. (Running => KnownVa)'
    BY <2>3, <2>4, NextKnownVa
  <2>6. Running'
    BY StaysAlive
  <2> QED
    BY <2>3, <2>5, <2>6, NextMatch
<1> QED
  BY <1>1, NextInside, NextPresent, NextTracked, NextUnmapped, NextShown DEF VasOK

-----------------------------------------------------------------------------
(* The frames.                                                              *)

\* The first elements of a sequence are among the first ones of a longer one.
LEMMA StillAmong ==
  ASSUME NEW S, NEW s \in Seq(S), NEW k \in Int, NEW p
  PROVE  /\ s # <<>> /\ Among(Tail(s), k - 1, p) => Among(s, k, p)
         /\ s # <<>> /\ 1 <= k => Among(s, k, Head(s))
         /\ \A x \in S : k <= Len(s) /\ Among(Append(s, x), k, p) => Among(s, k, p)
         /\ \A m \in Int : (m <= k \/ k >= Len(s)) /\ Among(s, m, p) => Among(s, k, p)
<1>1. ASSUME s # <<>>, Among(Tail(s), k - 1, p) PROVE Among(s, k, p)
  <2>1. PICK j \in 1 .. Len(Tail(s)) : j <= k - 1 /\ Tail(s)[j] = p
    BY <1>1 DEF Among
  <2>2. j + 1 \in 1 .. Len(s) /\ j + 1 <= k /\ s[j + 1] = p
    BY <1>1, <2>1
  <2> QED
    BY <2>2 DEF Among
<1>2. ASSUME s # <<>>, 1 <= k PROVE Among(s, k, Head(s))
  <2>1. 1 \in 1 .. Len(s) /\ s[1] = Head(s)
    BY <1>2
  <2> QED
    BY <1>2, <2>1 DEF Among
<1>3. ASSUME NEW x \in S, k <= Len(s), Among(Append(s, x), k, p) PROVE Among(s, k, p)
  <2>1. PICK j \in 1 .. Len(Append(s, x)) : j <= k /\ Append(s, x)[j] = p
    BY <1>3 DEF Among
  <2>2. j \in 1 .. Len(s) /\ s[j] = p
    BY <1>3, <2>1
  <2> QED
    BY <2>1, <2>2 DEF Among
<1>4. ASSUME NEW m \in Int, m <= k \/ k >= Len(s), Among(s, m, p) PROVE Among(s, k, p)
  <2>1. PICK j \in 1 .. Len(s) : j <= m /\ s[j] = p
    BY <1>4 DEF Among
  <2>2. j <= k
    BY <1>4, <2>1
  <2> QED
    BY <2>1, <2>2 DEF Among
<1> QED
  BY <1>1, <1>2, <1>3, <1>4

\* The free lists are two.
LEMMA TwoFreeLists ==
  /\ FreeLists = {"dram_free_list", "nvm_free_list"} /\ FreeLists \subseteq List
  /\ FreeList("dram") = "dram_free_list" /\ FreeList("nvm") = "nvm_free_list"
  /\ \A tier \in Tier : FreeList(tier) \in FreeLists
  BY DEF FreeLists, List, FreeList, Tier

\* How many entries are good is a matter of the list and of where main() is.
LEMMA GoodEntries ==
  ASSUME MigInv, NEW l \in FreeLists
  PROVE  /\ Good(l) \in Int /\ list[l] \in Seq(Page) /\ Len(list[l]) \in Nat
         /\ at' = at /\ list'[l] = list[l] => Good(l)' = Good(l)
<1>1. list[l] \in Seq(Page) /\ Len(list[l]) \in Nat
  BY TwoFreeLists, Unpacked
<1>2. Good(l) \in Int
  BY <1>1, TwoFreeLists, Threads DEF Good
<1>3. at' = at /\ list'[l] = list[l] => Good(l)' = Good(l)
  BY DEF Good
<1> QED
  BY <1>1, <1>2, <1>3

\* main() calls: the bound on the good entries of DRAM is the same one in
\* another form.
LEMMA MainGood ==
  ASSUME MigInv, MigNext, Main, pc[main] = "idle", NEW l \in FreeLists
  PROVE  /\ list' = list /\ Good(l)' \in Int
         /\ Good(l)' <= Good(l) \/ Good(l) >= Len(list[l])
<1> USE Threads
<1>1. list' = list
  BY MainLists
<1> DEFINE D == Len(list[l])
<1>2. D \in Nat
  BY GoodEntries
<1>3. CASE l = "nvm_free_list"
  <2>1. at' \in {"mmap", "migrate_down", "wait_down"} => at \in {"mmap", "migrate_down", "wait_down"}
    BY DEF Main, MapBuffer, MigrateDown, WaitDown, MigrateUp, WaitUp, UnmapBuffer, WaitTotal, At, Then
  <2>2. Good(l) \in {D, 0} /\ Good(l)' \in {D, 0} /\ (Good(l)' = D => Good(l) = D \/ D = 0)
    BY <1>1, <1>3, <2>1 DEF Good
  <2> HIDE DEF D
  <2>3. Good(l)' <= Good(l) \/ Good(l) >= D
    BY <1>2, <2>2
  <2> QED
    BY <1>1, <1>2, <2>2, <2>3 DEF D
<1>4. CASE l # "nvm_free_list"
  <2>1. l = "dram_free_list"
    BY <1>4, TwoFreeLists
  <2>2. CASE MapBuffer \/ MigrateDown
    <3>1. at \in {"mmap", "migrate_down"} /\ at' \in {"migrate_down", "wait_down"}
      BY <2>2 DEF MapBuffer, MigrateDown, At, Then
    <3>2. Good(l) = D /\ Good(l)' \in {D, FASTMEM_PAGES - npage}
      BY <1>1, <1>4, <3>1 DEF Good
    <3> QED
      BY <1>1, <1>2, <3>2
  <2>3. CASE WaitDown
    <3>1. Good(l) = FASTMEM_PAGES - npage /\ Good(l)' = FASTMEM_PAGES - npage
      BY <1>4, <2>3 DEF WaitDown, At, Then, Good
    <3> QED
      BY <1>1, <3>1
  <2>4. CASE MigrateUp
    <3>1. at = "migrate_up" /\ at' = "wait_up"
      BY <2>4 DEF MigrateUp, At, Then
    <3>2. D = FASTMEM_PAGES
      BY <2>1, <3>1 DEF MigInv, CountsOK, Settled, FreeList, FramesIn
    <3>3. Good(l) = FASTMEM_PAGES - npage /\ Good(l)' = FASTMEM_PAGES - npage
      BY <1>1, <1>4, <3>1, <3>2 DEF Good
    <3> QED
      BY <1>1, <3>3
  <2>5. CASE WaitUp \/ UnmapBuffer \/ WaitTotal
    <3>1. at \in {"wait_up", "munmap", "wait_total"} /\ at' \in {"munmap", "wait_total", "return"}
      BY <2>5 DEF WaitUp, UnmapBuffer, WaitTotal, At, Then
    <3>2. Good(l) = D - npage /\ Good(l)' = D - npage
      BY <1>1, <1>4, <3>1 DEF Good
    <3> QED
      BY <1>1, <1>2, <3>2
  <2> QED
    BY <2>2, <2>3, <2>4, <2>5 DEF Main
<1> QED
  BY <1>3, <1>4

\* The thread's steps that are no allocation leave the free lists alone.
LEMMA AppFreeLists ==
  ASSUME MigInv, MigNext, AppStep(main), ~Allocate(main, "dram"), NEW l \in FreeLists
  PROVE  list'[l] = list[l] /\ pc'[main] # "place"
<1> USE Threads
<1>1. /\ pc \in [Thread -> Label] /\ list \in [List -> Seq(Page)]
  BY Unpacked
<1>2. pc'[main] # "place"
  BY <1>1, CallSteps, NoDeath
  DEF Place, Map, Publish, AddPage, LoadCounter, StoreCounter, Choose, Rotate, RotateBack, Take,
      Queue, RequestDone, RemovePage, UncountPage, Unmap, Goto, StartCounting, AfterCounting
<1>3. list' = list \/ \E k \in List \ FreeLists : \E s : list' = [list EXCEPT ![k] = s]
  <2>1. \A tier : MmapList(tier) \in List \ FreeLists
    BY DEF MmapList, List, ToList, FreeLists
  <2>2. From(main) \in List \ FreeLists
    BY <2>1 DEF From
  <2>3. Queue(main) => call[main].to \in List \ FreeLists
    <3>1. call[main].to \in ToList
      BY Unpacked DEF CallRecord
    <3> QED
      BY <3>1 DEF List, ToList, FreeLists
  <2> QED
    BY <2>1, <2>2, <2>3, CallSteps, NoDeath
    DEF Place, Map, Publish, AddPage, LoadCounter, StoreCounter, Choose, Rotate, RotateBack,
        Take, Queue, RequestDone, RemovePage, UncountPage, Unmap, Enqueue, Dequeue
<1> QED
  BY <1>1, <1>2, <1>3, TwoFreeLists

\* main() fills the buffer: it takes the first entry of DRAM's list.
LEMMA AllocateFirst ==
  ASSUME MigInv, MigNext, AppStep(main), at' = at, Allocate(main, "dram")
  PROVE  LET F == list["dram_free_list"]
         IN /\ F # <<>> /\ list' = [list EXCEPT !["dram_free_list"] = Tail(@)]
            /\ cur' = [cur EXCEPT ![main] = Head(F)] /\ pg' = pg /\ at = "migrate_down"
<1> USE Threads
<1>1. at = "migrate_down"
  BY CallSteps
  DEF Allocate, Place, Map, Publish, AddPage, LoadCounter, StoreCounter, Choose, Rotate, RotateBack,
      Take, Queue, RequestDone, RemovePage, UncountPage, Unmap
<1>2. pc'[main] # "alloc_nvm"
  <2>1. Filling'
    BY <1>1, FillingSteps
  <2> QED
    BY <2>1 DEF Filling
<1>3. pc \in [Thread -> Label]
  BY Unpacked
<1> QED
  BY <1>1, <1>2, <1>3, NoDeath DEF Allocate, FreeList, Dequeue, Goto

\* The migration thread takes entries from the front of one free list, while
\* some are good, and gives entries back to the other, behind the good ones.
LEMMA MigratorFreeLists ==
  ASSUME MigInv, MigNext, MigratorStep, at' = at
  PROVE  /\ TakeNext => InRound /\ \E l \in FreeLists :
              /\ l = FreeList(Dst) /\ l = FreeList(Target(batch.to)) /\ list[l] # <<>>
              /\ list' = [list EXCEPT ![l] = Tail(@)]
              /\ 1 <= Good(l) /\ Good(l)' = Good(l) - 1
         /\ RestoreNext => InRound /\ \E l \in FreeLists : \E n \in Page :
              /\ list' = [list EXCEPT ![l] = Append(@, n)]
              /\ Good(l) <= Len(list[l]) /\ Good(l)' = Good(l)
         /\ ~TakeNext /\ ~RestoreNext => \A l \in FreeLists : list'[l] = list[l]
<1> USE Threads
<1> DEFINE D == "dram_free_list"
           N == "nvm_free_list"
<1>1. /\ list \in [List -> Seq(Page)] /\ D \in FreeLists /\ N \in FreeLists
      /\ D \in List /\ N \in List
      /\ \A l \in FreeLists : l \in List /\ list[l] \in Seq(Page) /\ Len(list[l]) \in Nat
  BY TwoFreeLists, GoodEntries, Unpacked
<1>2. ASSUME TakeNext
      PROVE  InRound /\ \E l \in FreeLists :
               /\ l = FreeList(Dst) /\ l = FreeList(Target(batch.to)) /\ list[l] # <<>>
               /\ list' = [list EXCEPT ![l] = Tail(@)]
               /\ 1 <= Good(l) /\ Good(l)' = Good(l) - 1
  <2>1. InRound /\ Target(batch.to) = Dst /\ pc[Migrator] = "take_next"
    BY <1>2, RoundBatch DEF TakeNext, Dst
  <2>2. list[FreeList(Dst)] # <<>> /\ list' = [list EXCEPT ![FreeList(Dst)] = Tail(@)]
    BY <1>2, <2>1, NoDeath DEF TakeNext, Dequeue
  <2>3. ASSUME NEW l \in FreeLists, l = FreeList(Dst)
        PROVE  Len(list[l]) \in Nat \ {0} /\ Len(list'[l]) = Len(list[l]) - 1
    BY <1>1, <2>2, <2>3
  <2>4. CASE at = "wait_down"
    <3>1. N = FreeList(Dst)
      BY <2>4 DEF FreeList, Dst, Target, Asked
    <3>2. Good(N) = Len(list[N]) /\ Good(N)' = Len(list'[N])
      BY <2>4 DEF Good
    <3>3. 1 <= Good(N) /\ Good(N)' = Good(N) - 1
      BY <1>1, <2>3, <3>1, <3>2
    <3> QED
      BY <1>1, <2>1, <2>2, <3>1, <3>3
  <2>5. CASE at = "wait_up"
    <3>1. D = FreeList(Dst) /\ Dst = "dram"
      BY <2>5 DEF FreeList, Dst, Target, Asked
    <3> DEFINE d == Len(list[D])
               m == Len(list[MmapList(Dst)])
               a == Len(list[Asked])
               q == Bit(pc[main] = "queue")
    <3>2. m + Held + a + q = npage - Left /\ d + m + Held - Bit(pc[Migrator] = "take_next") = FramesIn(Dst)
      BY <2>1, <3>1, RoundCall DEF InTransit, Migrating
    <3>3. Bit(pc[Migrator] = "take_next") = 1 /\ FramesIn(Dst) = FASTMEM_PAGES
      BY <2>1, <3>1 DEF Bit, FramesIn
    <3>4. m \in Nat /\ a \in Nat /\ q \in Nat /\ Left \in Nat /\ Held \in Int
      BY <2>1, RoundCall, Stages, Unpacked DEF Bit
    <3>5. Good(D) = d - npage /\ Good(D)' = Len(list'[D]) - npage
      BY <2>5 DEF Good
    <3>6. d \in Nat /\ Len(list'[D]) = d - 1
      BY <1>1, <2>3, <3>1
    <3>7. 1 <= Good(D) /\ Good(D)' = Good(D) - 1
      <4> HIDE DEF d, m, a, q
      <4>1. d + m + Held - 1 = FASTMEM_PAGES
        BY <3>2, <3>3
      <4>2. 1 <= d - npage
        BY <3>2, <3>4, <3>6, <4>1
      <4> QED
        BY <3>5, <3>6, <4>2
    <3> QED
      BY <1>1, <2>1, <2>2, <3>1, <3>7
  <2> QED
    BY <2>1, <2>4, <2>5 DEF InRound
<1>3. ASSUME RestoreNext
      PROVE  InRound /\ \E l \in FreeLists : \E n \in Page :
               /\ list' = [list EXCEPT ![l] = Append(@, n)]
               /\ Good(l) <= Len(list[l]) /\ Good(l)' = Good(l)
  <2> DEFINE n == batch.next[batch.i]
  <2>1. InRound /\ Source(batch.to) = Src /\ pc[Migrator] = "restore_next"
    BY <1>3, RoundBatch DEF RestoreNext, Src
  <2>2. list' = [list EXCEPT ![FreeList(Src)] = Append(@, n)]
    BY <1>3, <2>1 DEF RestoreNext, Enqueue
  <2>3. n \in Page /\ batch.i \in Nat /\ batch.i >= 1
    <3>1. batch.i \in 1 .. Len(batch.next) /\ batch.next \in Seq(Page) /\ batch.i \in Nat
      BY <2>1, Unpacked DEF MigratorOK
    <3> QED
      BY <3>1
  <2>4. CASE at = "wait_down"
    <3>1. FreeList(Src) = D /\ Src = "dram"
      BY <2>4 DEF FreeList, Src, Source, Asked
    <3>2. Good(D) = FASTMEM_PAGES - npage /\ Good(D)' = FASTMEM_PAGES - npage
      BY <2>4 DEF Good
    <3> DEFINE m == Len(list[MmapList(Dst)])
               d == Len(list[D])
    <3>3. d + Bit(pc[Migrator] = "restore_next") = FramesIn(Src) - npage + m /\ Back <= m
      BY <2>1, <3>1, RoundCall DEF Migrating
    <3>4. Bit(pc[Migrator] = "restore_next") = 1 /\ FramesIn(Src) = FASTMEM_PAGES /\ Back = batch.i
      BY <2>1, <3>1, Stages DEF Bit, FramesIn
    <3>5. m \in Nat /\ d \in Nat
      BY <1>1, <2>1, RoundCall, RoundLists
    <3>6. FASTMEM_PAGES - npage <= d
      <4> HIDE DEF m, d
      <4> QED
        BY <2>3, <3>3, <3>4, <3>5
    <3> QED
      BY <1>1, <2>1, <2>2, <2>3, <3>1, <3>2, <3>6
  <2>5. CASE at = "wait_up"
    <3>1. FreeList(Src) = N
      BY <2>5 DEF FreeList, Src, Source, Asked
    <3>2. Good(N) = 0 /\ Good(N)' = 0
      BY <2>5 DEF Good
    <3>3. Good(N) <= Len(list[N]) /\ Good(N)' = Good(N)
      BY <1>1, <3>2
    <3> QED
      BY <1>1, <2>1, <2>2, <2>3, <3>1, <3>3
  <2> QED
    BY <2>1, <2>4, <2>5 DEF InRound
<1>4. ASSUME ~TakeNext, ~RestoreNext, NEW l \in FreeLists PROVE list'[l] = list[l]
  <2>1. list' = list \/ Dequeue(batch.to) \/ \E e : Enqueue(MmapList(Target(batch.to)), e)
    BY <1>4, NoDeath
    DEF MigratorStep, Scan, TakePage, Protect, Copy, Remap, Restore, Counting, LoadCounter, StoreCounter
  <2>2. batch.to \in List \ FreeLists /\ MmapList(Target(batch.to)) \in List \ FreeLists
    <3>1. batch.to \in ToList
      BY Unpacked
    <3> QED
      BY <3>1 DEF List, ToList, FreeLists, MmapList
  <2> QED
    BY <1>1, <2>1, <2>2, TwoFreeLists DEF Dequeue, Enqueue
<1> QED
  BY <1>2, <1>3, <1>4

\* The batch gets an entry from the free list; apart from that its entries
\* only pass on their frames.
LEMMA AheadSteps ==
  ASSUME MigInv, MigNext
  PROVE  /\ ~TakeNext => \A j \in Ahead' :
              j \in Ahead /\ batch'.next[j] = batch.next[j] /\ batch'.offset[j] = batch.offset[j]
         /\ TakeNext =>
              LET n == Head(list[FreeList(Target(batch.to))]) IN \A j \in Ahead' :
                \/ j \in Ahead /\ batch'.next[j] = batch.next[j] /\ batch'.offset[j] = batch.offset[j]
                \/ batch'.next[j] = n /\ batch'.offset[j] = pg[n].devdax_offset
<1> USE Threads
<1>1. pc \in [Thread -> Label] /\ batch \in BatchRecord /\ MigratorOK
  BY Unpacked
<1> DEFINE Unmoved(j) == /\ j \in Ahead /\ batch'.next[j] = batch.next[j]
                         /\ batch'.offset[j] = batch.offset[j]
<1>2. ASSUME UNCHANGED batch, pc'[Migrator] = pc[Migrator] PROVE \A j \in Ahead' : Unmoved(j)
  BY <1>2 DEF Ahead
<1>3. ASSUME MigratorStep, ~TakeNext PROVE \A j \in Ahead' : Unmoved(j)
  <2>1. CASE Scan
    <3>1. batch.next = <<>> /\ batch'.next = <<>>
      BY <1>1, <2>1 DEF Scan, MigratorOK, EmptyBatch, BatchRecord
    <3>2. pc'[Migrator] \in {"scan", "take_page"}
      BY <1>1, <2>1 DEF Scan, Goto
    <3>3. Ahead' = {}
      BY <3>1, <3>2 DEF Ahead
    <3> QED
      BY <3>3
  <2>2. CASE TakePage
    <3>1. \E x : batch' = [batch EXCEPT !.page = x]
      BY <2>2, NoDeath DEF TakePage
    <3>2. batch'.next = batch.next /\ batch'.offset = batch.offset
      BY <1>1, <3>1 DEF BatchRecord
    <3>3. pc[Migrator] = "take_page" /\ pc'[Migrator] = "take_next"
      BY <1>1, <2>2, NoDeath DEF TakePage, Goto
    <3> QED
      BY <3>2, <3>3 DEF Ahead
  <2>3. CASE Protect
    <3>1. \E x : batch' = [batch EXCEPT !.i = x]
      BY <2>3, NoDeath DEF Protect, LoopOver
    <3>2. batch'.next = batch.next /\ batch'.offset = batch.offset
      BY <1>1, <3>1 DEF BatchRecord
    <3>3. pc[Migrator] = "protect" /\ pc'[Migrator] \in {"protect", "copy"}
      BY <1>1, <2>3, NoDeath DEF Protect, LoopOver, Goto
    <3> QED
      BY <3>2, <3>3 DEF Ahead
  <2>4. CASE Copy
    <3>1. batch' = batch /\ pc[Migrator] = "copy" /\ pc'[Migrator] = "remap"
      BY <1>1, <2>4, NoDeath DEF Copy, Goto
    <3>2. batch.i = 1
      BY <1>1, <3>1 DEF MigratorOK
    <3> QED
      BY <3>1, <3>2 DEF Ahead
  <2>5. CASE Remap
    <3>1. batch' = [batch EXCEPT !.i = IF @ < batch.want THEN @ + 1 ELSE 1]
      BY <2>5 DEF Remap, LoopOver
    <3>2. batch'.next = batch.next /\ batch'.offset = batch.offset
      BY <1>1, <3>1 DEF BatchRecord
    <3>3. /\ pc[Migrator] = "remap"
          /\ pc'[Migrator] = IF batch.i < batch.want THEN "remap" ELSE "restore"
      BY <1>1, <2>5 DEF Remap, LoopOver, Goto
    <3>4. CASE batch.i < batch.want
      <4>1. batch'.i = batch.i + 1 /\ batch.i \in Nat
        BY <1>1, <3>1, <3>4 DEF BatchRecord
      <4>2. Ahead = batch.i .. Len(batch.next) /\ Ahead' = batch.i + 1 .. Len(batch.next)
        BY <3>2, <3>3, <3>4, <4>1 DEF Ahead
      <4>3. Len(batch.next) \in Nat
        BY Unpacked
      <4>4. \A j \in Ahead' : j \in Ahead
        BY <4>1, <4>2, <4>3
      <4> QED
        BY <3>2, <4>4
    <3>5. CASE ~(batch.i < batch.want)
      BY <3>3, <3>5 DEF Ahead
    <3> QED
      BY <3>4, <3>5
  <2>6. CASE Restore \/ RestoreNext \/ Counting(Migrator)
    <3>1. pc[Migrator] \in {"restore", "restore_next", "count"}
      BY <2>6 DEF Restore, RestoreNext, Counting, LoadCounter, StoreCounter
    <3>2. pc'[Migrator] \in {"restore", "restore_next", "count", "scan"}
      BY <1>1, <2>6, <3>1
      DEF Restore, RestoreNext, Counting, LoadCounter, StoreCounter, Goto, StartCounting, AfterCounting
    <3> QED
      BY <3>2 DEF Ahead
  <2> QED
    BY <1>3, <2>1, <2>2, <2>3, <2>4, <2>5, <2>6 DEF MigratorStep
<1>4. ASSUME TakeNext
      PROVE  LET n == Head(list[FreeList(Target(batch.to))]) IN \A j \in Ahead' :
               Unmoved(j) \/ (batch'.next[j] = n /\ batch'.offset[j] = pg[n].devdax_offset)
  <2> DEFINE n == Head(list[FreeList(Target(batch.to))])
             x == pg[n].devdax_offset
             s == batch.next
             o == batch.offset
  <2>1. batch' = [batch EXCEPT !.next = Append(@, n), !.offset = Append(@, x)]
    BY <1>4, NoDeath DEF TakeNext
  <2>2. batch'.next = Append(s, n) /\ batch'.offset = Append(o, x)
    BY <1>1, <2>1 DEF BatchRecord
  <2>3. pc[Migrator] = "take_next" /\ pc'[Migrator] \in {"take_page", "protect"}
    BY <1>1, <1>4, NoDeath DEF TakeNext, Goto
  <2>4. Ahead = 1 .. Len(s) /\ Ahead' = 1 .. Len(Append(s, n)) /\ Len(s) = Len(o)
    BY <1>1, <2>2, <2>3 DEF Ahead, MigratorOK
  <2>5. s \in Seq(Page) /\ o \in Seq(Nat)
    BY Unpacked
  <2> HIDE DEF n, x, s, o
  <2>6. \A j \in 1 .. Len(Append(s, n)) :
          \/ j \in 1 .. Len(s) /\ Append(s, n)[j] = s[j] /\ Append(o, x)[j] = o[j]
          \/ Append(s, n)[j] = n /\ Append(o, x)[j] = x
    BY <2>4, <2>5
  <2> QED
    BY <2>2, <2>4, <2>6 DEF n, x, s, o
<1>5. ASSUME Main \/ AppStep(main) PROVE ~TakeNext /\ \A j \in Ahead' : Unmoved(j)
  <2>1. UNCHANGED batch /\ pc'[Migrator] = pc[Migrator]
    BY <1>5, MainFrame
  <2>2. ~TakeNext
    <3>1. ASSUME TakeNext PROVE FALSE
      <4>1. pc[Migrator] = "take_next" /\ pc'[Migrator] \in {"take_page", "protect"}
        BY <1>1, <3>1, NoDeath DEF TakeNext, Goto
      <4> QED
        BY <2>1, <4>1
    <3> QED
      BY <3>1
  <2> QED
    BY <1>2, <2>1, <2>2
<1> QED
  BY <1>3, <1>4, <1>5, MainSteps

\* The good entries of the free lists were good before.
LEMMA ListsLive ==
  ASSUME MigInv, MigNext, NEW l \in FreeLists, NEW p \in Page, Among(list[l], Good(l), p)'
  PROVE  Among(list[l], Good(l), p)
<1> USE Threads
<1>1. Good(l) \in Int /\ list[l] \in Seq(Page) /\ Len(list[l]) \in Nat /\ l \in List
  BY GoodEntries, TwoFreeLists
<1>2. Among(list'[l], Good(l)', p)
  BY DEF Among
<1>3. CASE Main /\ pc[main] = "idle"
  <2>1. list' = list /\ Good(l)' \in Int /\ (Good(l)' <= Good(l) \/ Good(l) >= Len(list[l]))
    BY <1>3, MainGood
  <2> HIDE DEF Good
  <2> QED
    BY <1>1, <1>2, <2>1, StillAmong
<1>4. CASE AppStep(main) /\ at' = at
  <2>1. CASE Allocate(main, "dram")
    <3>1. /\ list["dram_free_list"] # <<>> /\ list' = [list EXCEPT !["dram_free_list"] = Tail(@)]
          /\ at = "migrate_down"
      BY <1>4, <2>1, AllocateFirst
    <3>2. list \in [List -> Seq(Page)]
      BY Unpacked
    <3>3. CASE l = "dram_free_list"
      <4>1. list[l] # <<>> /\ list'[l] = Tail(list[l])
        BY <1>1, <3>1, <3>2, <3>3
      <4>2. Good(l) = Len(list[l]) /\ Good(l)' = Len(list'[l])
        BY <1>4, <3>1, <3>3 DEF Good
      <4>3. Len(list'[l]) = Len(list[l]) - 1
        BY <1>1, <4>1
      <4>4. Among(Tail(list[l]), Good(l) - 1, p)
        BY <1>2, <4>1, <4>2, <4>3
      <4> QED
        BY <1>1, <4>1, <4>4, StillAmong
    <3>4. CASE l # "dram_free_list"
      <4>1. list'[l] = list[l]
        BY <1>1, <3>1, <3>2, <3>4
      <4> QED
        BY <1>2, <1>4, <4>1, GoodEntries
    <3> QED
      BY <3>3, <3>4
  <2>2. CASE ~Allocate(main, "dram")
    BY <1>2, <1>4, <2>2, AppFreeLists, GoodEntries
  <2> QED
    BY <2>1, <2>2
<1>5. CASE MigratorStep /\ at' = at
  <2>1. list \in [List -> Seq(Page)]
    BY Unpacked
  <2>2. CASE TakeNext
    <3>1. PICK k \in FreeLists : /\ list[k] # <<>> /\ list' = [list EXCEPT ![k] = Tail(@)]
                                 /\ Good(k)' = Good(k) - 1
      BY <1>5, <2>2, MigratorFreeLists
    <3>2. CASE k = l
      <4>1. list[l] # <<>> /\ list'[l] = Tail(list[l]) /\ Good(l)' = Good(l) - 1
        BY <1>1, <2>1, <3>1, <3>2
      <4>2. Among(Tail(list[l]), Good(l) - 1, p)
        BY <1>2, <4>1
      <4> QED
        BY <1>1, <4>1, <4>2, StillAmong
    <3>3. CASE k # l
      <4>1. list'[l] = list[l]
        BY <1>1, <2>1, <3>1, <3>3
      <4> QED
        BY <1>2, <1>5, <4>1, GoodEntries
    <3> QED
      BY <3>2, <3>3
  <2>3. CASE RestoreNext
    <3>1. PICK k \in FreeLists : \E n \in Page :
            /\ list' = [list EXCEPT ![k] = Append(@, n)]
            /\ Good(k) <= Len(list[k]) /\ Good(k)' = Good(k)
      BY <1>5, <2>3, MigratorFreeLists
    <3>2. PICK n \in Page : list' = [list EXCEPT ![k] = Append(@, n)]
      BY <3>1
    <3>3. CASE k = l
      <4>1. list'[l] = Append(list[l], n) /\ Good(l) <= Len(list[l]) /\ Good(l)' = Good(l)
        BY <1>1, <2>1, <3>1, <3>2, <3>3
      <4>2. Among(Append(list[l], n), Good(l), p)
        BY <1>2, <4>1
      <4> QED
        BY <1>1, <4>1, <4>2, StillAmong
    <3>4. CASE k # l
      <4>1. list'[l] = list[l]
        BY <1>1, <2>1, <3>2, <3>4
      <4> QED
        BY <1>2, <1>5, <4>1, GoodEntries
    <3> QED
      BY <3>3, <3>4
  <2>4. CASE ~TakeNext /\ ~RestoreNext
    BY <1>2, <1>5, <2>4, MigratorFreeLists, GoodEntries
  <2> QED
    BY <2>2, <2>3, <2>4
<1> QED
  BY <1>3, <1>4, <1>5, MainSteps

\* Nothing comes to life: a page that is going to use its frame was going to
\* before the step.
LEMMA LiveShrinks ==
  ASSUME MigInv, MigNext, NEW p \in Page, Live(p)'
  PROVE  Live(p)
<1> USE Threads
<1>1. CASE pg'[p].present
  BY <1>1, PageFrame DEF Live, Place
<1>2. CASE pc'[main] = "place" /\ cur'[main] = p
  <2>1. CASE Main /\ pc[main] = "idle"
    <3>1. pc \in [Thread -> Label]
      BY Unpacked
    <3>2. pc'[main] # "place"
      BY <2>1, <3>1
      DEF Main, MapBuffer, MigrateDown, WaitDown, MigrateUp, WaitUp, UnmapBuffer, WaitTotal, Mmap,
          Request, Munmap, Goto, vars
    <3> QED
      BY <1>2, <3>2
  <2>2. CASE AppStep(main) /\ at' = at
    <3>1. Allocate(main, "dram")
      BY <1>2, <2>2, AppFreeLists, TwoFreeLists
    <3> DEFINE D == "dram_free_list"
               h == Head(list[D])
    <3>2. list[D] # <<>> /\ cur' = [cur EXCEPT ![main] = h] /\ at = "migrate_down"
      BY <2>2, <3>1, AllocateFirst
    <3>3. p = h
      <4>1. cur \in [Thread -> Page \cup {NoPage}]
        BY Unpacked
      <4> HIDE DEF h
      <4> QED
        BY <1>2, <3>2, <4>1
    <3>4. D \in FreeLists /\ Good(D) \in Int /\ list[D] \in Seq(Page) /\ Len(list[D]) \in Nat
      BY TwoFreeLists, GoodEntries
    <3>5. Good(D) = Len(list[D])
      BY <3>2 DEF Good
    <3>6. Among(list[D], Good(D), h)
      BY <3>2, <3>4, <3>5, StillAmong
    <3> QED
      BY <3>3, <3>4, <3>6 DEF Live
  <2>3. CASE MigratorStep
    BY <1>2, <2>3, MigratorFrame DEF Live
  <2> QED
    BY <2>1, <2>2, <2>3, MainSteps
<1>3. CASE \E l \in FreeLists : Among(list[l], Good(l), p)'
  BY <1>3, ListsLive DEF Live
<1>4. CASE \E j \in Ahead' : batch'.next[j] = p
  <2>1. PICK j \in Ahead' : batch'.next[j] = p
    BY <1>4
  <2>2. CASE j \in Ahead /\ batch'.next[j] = batch.next[j]
    BY <2>1, <2>2 DEF Live
  <2>3. CASE TakeNext /\ p = Head(list[FreeList(Target(batch.to))])
    <3>1. MigratorStep /\ at' = at
      <4>1. pc[Migrator] = "take_next" /\ pc'[Migrator] \in {"take_page", "protect"}
        BY <2>3, NoDeath, Unpacked DEF TakeNext, Goto
      <4>2. ~(AppStep(main) \/ Main)
        BY <4>1, MainFrame
      <4> QED
        BY <2>3, <4>2, MainSteps DEF MigratorStep
    <3>2. PICK l \in FreeLists : /\ l = FreeList(Target(batch.to)) /\ list[l] # <<>> /\ 1 <= Good(l)
      BY <2>3, <3>1, MigratorFreeLists
    <3>3. Good(l) \in Int /\ list[l] \in Seq(Page)
      BY GoodEntries
    <3>4. Among(list[l], Good(l), p)
      BY <2>3, <3>2, <3>3, StillAmong
    <3> QED
      BY <3>4 DEF Live
  <2> QED
    BY <2>1, <2>2, <2>3, AheadSteps
<1> QED
  BY <1>1, <1>2, <1>3, <1>4 DEF Live

\* The page that is remapped gets the frame of an entry that is not used for
\* it any more.
LEMMA RemapSwaps ==
  ASSUME MigInv, MigNext, Remap,
         NEW h, NEW n, h = batch.page[batch.i], n = batch.next[batch.i]
  PROVE  /\ h \in Page /\ n \in Page /\ h # n
         /\ Live(n) /\ ~Live(n)'
         /\ FrameOf(h)' = FrameOf(n)
         /\ \A p \in Page \ {h} : FrameOf(p)' = FrameOf(p)
         /\ \A j \in Ahead : batch.next[j] # h
<1> USE Threads
<1> DEFINE off == batch.offset[batch.i]
           dst == Target(batch.to)
<1>1. /\ pc[Migrator] = "remap" /\ list' = list /\ cur' = cur /\ pc'[main] = pc[main]
      /\ pg' = [pg EXCEPT ![h].in_dram = (dst = "dram"), ![h].devdax_offset = off]
      /\ batch' = [batch EXCEPT !.i = IF @ < batch.want THEN @ + 1 ELSE 1]
      /\ InRound
  BY MigratorFrame, RoundBatch DEF MigratorStep, Remap, LoopOver
<1>2. /\ pg \in [Page -> PageRecord] /\ batch \in BatchRecord /\ batch.i \in Nat
      /\ batch.i \in 1 .. Len(batch.next) /\ batch.i \in 1 .. Len(batch.page)
      /\ batch.page \in Seq(Page) /\ Len(batch.next) \in Nat
  BY <1>1, Unpacked DEF MigratorOK
<1>3. batch.i \in Ahead /\ batch.i \in BatchNexts /\ batch.i \in BatchPages
  BY <1>1, <1>2 DEF Ahead, BatchNexts, BatchPages
<1>4. /\ n \in Page /\ ~pg[n].present /\ TierOf(n) = dst
      /\ \A l \in List : \A j \in 1 .. Len(list[l]) : list[l][j] # n
      /\ \A j \in BatchNexts : batch.next[j] = n => j = batch.i
  BY <1>1, <1>3, EntryAlone
<1>5. h \in Page /\ pg[h].present
  <2>1. h \in Page
    BY <1>2
  <2>2. Fits(pg, h, batch.to) \/ Fits(pg, h, MmapList(dst))
    BY <1>3 DEF MigInv, LibInv, Known, KindInv, BatchOK, PageOK
  <2>3. batch.to \in ToList
    BY Unpacked
  <2>4. batch.to \notin FreeLists /\ MmapList(dst) \notin FreeLists
    BY <2>3 DEF ToList, FreeLists, MmapList
  <2> QED
    BY <2>1, <2>2, <2>4 DEF Fits
<1>6. h # n
  BY <1>4, <1>5
<1>7. off = pg[n].devdax_offset /\ Live(n)
  BY <1>3 DEF MigInv, FramesOK, Live
<1>8. /\ pg'[h].in_dram = (dst = "dram") /\ pg'[h].devdax_offset = off
      /\ \A p \in Page \ {h} : pg'[p] = pg[p]
  <2> HIDE DEF off, dst
  <2> QED
    BY <1>1, <1>2, <1>5 DEF PageRecord
<1>9. FrameOf(h)' = FrameOf(n)
  <2>1. dst \in Tier
    BY DEF Target, Tier
  <2>2. TierOf(h)' = dst
    BY <1>8, <2>1 DEF TierOf, Tier
  <2> QED
    BY <1>4, <1>7, <1>8, <2>2 DEF FrameOf
<1>10. \A p \in Page \ {h} : FrameOf(p)' = FrameOf(p)
  BY <1>8 DEF FrameOf, TierOf
<1>11. \A j \in Ahead : batch.next[j] # h
  BY <1>5, AheadInBatch, EntryAlone
<1>12. ~Live(n)'
  <2>1. ~pg'[n].present
    BY <1>4, <1>6, <1>8
  <2>2. pc'[main] # "place"
    BY <1>1, RoundHands
  <2>3. \A l \in FreeLists : ~Among(list[l], Good(l), n)'
    BY <1>1, <1>4, TwoFreeLists DEF Among
  <2>4. \A j \in Ahead' : batch'.next[j] # n
    <3>1. ASSUME NEW j \in Ahead', batch'.next[j] = n PROVE FALSE
      <4>1. ~TakeNext
        BY <1>1 DEF TakeNext
      <4>2. j \in Ahead /\ batch.next[j] = n
        BY <3>1, <4>1, AheadSteps
      <4>3. j = batch.i
        BY <1>4, <4>2, AheadInBatch
      <4>4. batch.i < batch.want /\ batch'.i = batch.i + 1 /\ pc'[Migrator] = "remap"
        <5>1. pc'[Migrator] = IF batch.i < batch.want THEN "remap" ELSE "restore"
          BY <1>1, Unpacked DEF Remap, LoopOver, Goto
        <5>2. batch.i < batch.want
          BY <3>1, <5>1 DEF Ahead
        <5> QED
          BY <1>1, <1>2, <5>1, <5>2 DEF BatchRecord
      <4>5. Ahead' = batch.i + 1 .. Len(batch'.next)
        BY <4>4 DEF Ahead
      <4>6. Len(batch'.next) \in Nat
        BY <1>1, <1>2 DEF BatchRecord
      <4> QED
        BY <1>2, <3>1, <4>3, <4>5, <4>6
    <3> QED
      BY <3>1
  <2> QED
    BY <2>1, <2>2, <2>3, <2>4 DEF Live
<1> QED
  BY <1>4, <1>5, <1>6, <1>7, <1>9, <1>10, <1>11, <1>12

\* Except for that page, what is live keeps its frame.
LEMMA LiveKeepsFrame ==
  ASSUME MigInv, MigNext, ~Remap, NEW p \in Page, Live(p)'
  PROVE  FrameOf(p)' = FrameOf(p)
<1> USE Threads
<1>1. pg \in [Page -> PageRecord]
  BY Unpacked
<1>2. SUFFICES pg'[p].in_dram = pg[p].in_dram /\ pg'[p].devdax_offset = pg[p].devdax_offset
  BY DEF FrameOf, TierOf
<1>3. CASE Main /\ pc[main] = "idle"
  BY <1>3, MainLists
<1>4. CASE AppStep(main)
  <2>1. CASE Place(main) \/ Publish(main)
    <3> DEFINE h == cur[main]
               v == call[main].va
    <3>1. pg' = [pg EXCEPT ![h].present = TRUE] \/ pg' = [pg EXCEPT ![h].va = v]
      BY <2>1 DEF Place, Publish
    <3> HIDE DEF h, v
    <3>2. CASE pg' = [pg EXCEPT ![h].present = TRUE]
      BY <1>1, <3>2 DEF PageRecord
    <3>3. CASE pg' = [pg EXCEPT ![h].va = v]
      BY <1>1, <3>3 DEF PageRecord
    <3> QED
      BY <3>1, <3>2, <3>3
  <2>2. CASE ~Place(main) /\ ~Publish(main)
    BY <1>4, <2>2, CallSteps, NoDeath
    DEF Allocate, Map, AddPage, LoadCounter, StoreCounter, Choose, Rotate, RotateBack, Take,
        Queue, RequestDone, RemovePage, UncountPage, Unmap
  <2> QED
    BY <2>1, <2>2
<1>5. CASE MigratorStep
  <2>1. CASE Restore
    <3> DEFINE off == batch.offset[batch.i]
               b   == FreedTier(batch.to) = "dram"
    <3>5. PICK n : n = batch.next[batch.i]
      OBVIOUS
    <3>1. /\ pc[Migrator] = "restore" /\ cur' = cur /\ pc'[main] = pc[main] /\ batch' = batch
          /\ pg' = [pg EXCEPT ![n].devdax_offset = off, ![n].present = FALSE, ![n].in_dram = b]
          /\ pc' = [pc EXCEPT ![Migrator] = "restore_next"]
      BY <1>5, <2>1, <3>5, MigratorFrame DEF Restore, Goto
    <3>2. InRound /\ batch.i \in BatchNexts
      <4>1. batch.i \in 1 .. Len(batch.next) /\ batch.i \in Nat
        BY <3>1, Unpacked DEF MigratorOK
      <4> QED
        BY <3>1, <4>1, RoundBatch DEF BatchNexts
    <3>3. n \in Page /\ \A l \in List : \A j \in 1 .. Len(list[l]) : list[l][j] # n
      BY <3>1, <3>2, <3>5, EntryAlone
    <3>4. p # n
      <4>1. ~pg'[n].present
        <5> HIDE DEF off, b
        <5> QED
          BY <1>1, <3>1, <3>3 DEF PageRecord
      <4>2. pc'[main] # "place"
        BY <3>1, <3>2, RoundHands
      <4>3. Ahead' = {}
        BY <3>1, Unpacked DEF Ahead
      <4>4. ASSUME NEW l \in FreeLists PROVE ~Among(list[l], Good(l), n)'
        <5>1. ~Among(list[l], Good(l), n)
          BY <3>3, TwoFreeLists DEF Among
        <5> QED
          BY <3>3, <4>4, <5>1, ListsLive
      <4> QED
        BY <4>1, <4>2, <4>3, <4>4 DEF Live
    <3> HIDE DEF off, b
    <3> QED
      BY <1>1, <3>1, <3>4 DEF PageRecord
  <2>2. CASE ~Restore
    BY <1>5, <2>2, NoDeath
    DEF MigratorStep, Counting, Scan, TakePage, TakeNext, Protect, Copy, RestoreNext,
        LoadCounter, StoreCounter
  <2> QED
    BY <2>1, <2>2
<1> QED
  BY <1>3, <1>4, <1>5, MainSteps

\* Frames stay inside of their devices, and distinct: what is live has the
\* frame that something live had before.
LEMMA NextFramesOK ==
  ASSUME MigInv, MigNext
  PROVE  FramesOK'
<1>6. PICK h, n : h = batch.page[batch.i] /\ n = batch.next[batch.i]
  OBVIOUS
<1> DEFINE Old(p) == IF Remap /\ p = h THEN n ELSE p
<1>1. FramesOK
  BY DEF MigInv
<1>2. ASSUME NEW p \in Page, Live(p)'
      PROVE  Old(p) \in Page /\ Live(Old(p)) /\ FrameOf(p)' = FrameOf(Old(p))
  <2>1. CASE Remap /\ p = h
    BY <1>6, <2>1, RemapSwaps
  <2>2. CASE ~(Remap /\ p = h)
    BY <1>2, <1>6, <2>2, LiveShrinks, RemapSwaps, LiveKeepsFrame
  <2> QED
    BY <2>1, <2>2
<1>3. ASSUME NEW p \in Page, Live(p)' PROVE Inside(p)'
  <2>1. Inside(Old(p)) /\ FrameOf(p)' = FrameOf(Old(p))
    BY <1>1, <1>2, <1>3 DEF FramesOK
  <2> HIDE DEF Old
  <2>2. TierOf(p)' = TierOf(Old(p)) /\ pg'[p].devdax_offset = pg[Old(p)].devdax_offset
    BY <2>1 DEF FrameOf
  <2>3. pg'[p].devdax_offset < FramesIn(TierOf(p)')
    BY <2>1, <2>2 DEF Inside
  <2> QED
    BY <2>3 DEF Inside
<1>4. ASSUME NEW p \in Page, NEW q \in Page, Live(p)', Live(q)', FrameOf(p)' = FrameOf(q)'
      PROVE  p = q
  <2>1. Old(p) = Old(q)
    <3>1. /\ Old(p) \in Page /\ Live(Old(p)) /\ FrameOf(p)' = FrameOf(Old(p))
          /\ Old(q) \in Page /\ Live(Old(q)) /\ FrameOf(q)' = FrameOf(Old(q))
      BY <1>2, <1>4
    <3> HIDE DEF Old
    <3> QED
      BY <1>1, <1>4, <3>1 DEF FramesOK
  <2>2. Remap => p # n /\ q # n
    BY <1>4, <1>6, RemapSwaps
  <2> QED
    BY <2>1, <2>2
<1>5. ASSUME NEW j \in Ahead' PROVE batch'.offset[j] = pg'[batch'.next[j]].devdax_offset
  <2>5. PICK m : m = batch'.next[j]
    OBVIOUS
  <2>1. batch'.offset[j] = pg[m].devdax_offset /\ m \in Page
    <3>1. CASE j \in Ahead /\ m = batch.next[j] /\ batch'.offset[j] = batch.offset[j]
      <4>1. batch.offset[j] = pg[batch.next[j]].devdax_offset
        BY <1>1, <3>1 DEF FramesOK
      <4> QED
        BY <2>5, <3>1, <4>1, AheadInBatch, EntryAlone
    <3>2. CASE /\ TakeNext /\ m = Head(list[FreeList(Target(batch.to))])
               /\ batch'.offset[j] = pg[m].devdax_offset
      <4>1. FreeList(Target(batch.to)) \in List
        BY ListNames
      <4>2. list[FreeList(Target(batch.to))] # <<>>
        BY <3>2, EntryFree DEF TakeNext
      <4>3. list[FreeList(Target(batch.to))] \in Seq(Page)
        BY <4>1, Unpacked
      <4>4. m \in Page
        BY <3>2, <4>2, <4>3
      <4> QED
        BY <3>2, <4>4
    <3> QED
      BY <1>5, <2>5, <3>1, <3>2, AheadSteps
  <2>2. Live(m)'
    BY <1>5, <2>1, <2>5 DEF Live
  <2>3. FrameOf(m)' = FrameOf(m)
    <3>1. CASE Remap
      <4>1. ~TakeNext
        BY <3>1 DEF Remap, TakeNext
      <4>2. m # h
        BY <1>5, <1>6, <2>5, <3>1, <4>1, RemapSwaps, AheadSteps
      <4> QED
        BY <1>6, <2>1, <3>1, <4>2, RemapSwaps
    <3>2. CASE ~Remap
      BY <2>1, <2>2, <3>2, LiveKeepsFrame
    <3> QED
      BY <3>1, <3>2
  <2>4. pg'[m].devdax_offset = pg[m].devdax_offset
    BY <2>3 DEF FrameOf
  <2> QED
    BY <2>1, <2>4, <2>5
<1> QED
  BY <1>3, <1>4, <1>5 DEF FramesOK

-----------------------------------------------------------------------------
(* The theorems.                                                            *)

\* The inductive step.
LEMMA NextMig ==
  ASSUME MigInv, [MigNext]_mvars
  PROVE  MigInv'
<1>1. CASE MigNext
  <2>1. LibInv'
    BY NextLib DEF MigInv
  <2> QED
    BY <1>1, <2>1, StaysAlive, NextMainOK, NextQueuesOK, NextRegsExact, NextCountsOK, NextVasOK,
       NextFramesOK
    DEF MigInv
<1>2. CASE UNCHANGED mvars
  <2>1. LibInv'
    BY <1>2, NextLib DEF MigInv
  <2> USE <1>2 DEF MigInv, mvars, vars
  <2>2. Running' /\ MainOK' /\ QueuesOK' /\ RegsExact'
    BY DEF Running, MainOK, InRound, Asked, QueuesOK, RegsExact
  <2>3. CountsOK'
    <3>1. Held' = Held /\ Back' = Back /\ Freed' = Freed /\ Taken' = Taken /\ Left' = Left
      BY DEF Held, Back, Freed, Taken, Left
    <3>2. InRound' = InRound /\ Asked' = Asked /\ Src' = Src /\ Dst' = Dst
      BY SameRound
    <3>3. Ending => Ending'
      BY <3>2 DEF Ending, Updates
    <3>4. Requesting /\ InTransit /\ Migrating => (Requesting /\ InTransit /\ Migrating)'
      BY <3>1, <3>2, <3>3 DEF Requesting, InTransit, Migrating
    <3>5. (Untouched => Untouched') /\ (Filling => Filling')
      BY DEF Untouched, Filling, TierOf
    <3>6. /\ Settled("nvm", "dram") => Settled("nvm", "dram")'
          /\ Settled("dram", "nvm") => Settled("dram", "nvm")'
      BY DEF Settled
    <3> QED
      BY <3>2, <3>4, <3>5, <3>6 DEF CountsOK
  <2>4. VasOK'
    BY DEF VasOK, Has, Tracked, InRound, Match, KnownVa, Backed, FrameOf, TierOf, Used
  <2>5. FramesOK'
    <3>1. \A l \in FreeLists : Good(l)' = Good(l)
      BY DEF Good
    <3>2. \A p \in Page : FrameOf(p)' = FrameOf(p) /\ (Inside(p) => Inside(p)')
      BY DEF FrameOf, Inside, TierOf
    <3>3. Ahead' = Ahead
      BY DEF Ahead
    <3>4. \A p \in Page : Live(p)' => Live(p)
      BY <3>1, <3>3 DEF Live, Among
    <3> QED
      BY <3>2, <3>3, <3>4 DEF FramesOK
  <2> QED
    BY <2>1, <2>2, <2>3, <2>4, <2>5
<1> QED
  BY <1>1, <1>2

\* main() starts with empty lists and all frames free.
LEMMA InitMig == MigInit => MigInv
<1> USE Threads
<1> SUFFICES ASSUME Init, at = "mmap" PROVE MigInv
  BY DEF MigInit
<1>1. LibInv /\ Match /\ KnownVa /\ Running
  <2>1. Running
    BY DEF Init, Running
  <2> QED
    BY <2>1, InitLocal, InitCount, InitOwn, InitKind, InitTrack, InitMatch
    DEF LibInv, Known, CountInv
<1>2. pc[main] = "idle" /\ pc[FaultThread] = "poll" /\ pc[Migrator] = "scan"
  BY DEF Init
<1>3. MainOK
  BY <1>2 DEF MainOK, InRound
<1>4. /\ \A to \in ToList : list[to] = <<>>
      /\ list["dram_mmap_list"] = <<>> /\ list["nvm_mmap_list"] = <<>>
      /\ list["dram_free_list"] = InitialFrames("dram")
      /\ list["nvm_free_list"] = InitialFrames("nvm")
  BY DEF Init, List, ToList
<1>5. QueuesOK
  BY <1>2, <1>4 DEF QueuesOK
<1>6. RegsExact
  BY DEF Init, RegsExact
<1>7. \A tier \in Tier : /\ Len(InitialFrames(tier)) = FramesIn(tier)
                         /\ \A j \in 1 .. FramesIn(tier) :
                              InitialFrames(tier)[j] = <<tier, j - 1>>
  BY DEF InitialFrames, FramesIn, Tier
<1>8. CountsOK
  <2>1. /\ num["dram_free_list"] = FASTMEM_PAGES /\ num["nvm_free_list"] = SLOWMEM_PAGES
        /\ num["dram_mmap_list"] = 0 /\ num["nvm_mmap_list"] = 0
    BY DEF Init, List
  <2> QED
    BY <1>4, <1>7, <2>1 DEF CountsOK, Untouched, InRound, FramesIn, Tier
<1>9. \A p \in Page : pg[p].va = 0 /\ ~pg[p].present
  BY DEF Init
<1>10. VasOK
  <2>1. \A v \in VA : vm[v] = Unmapped
    BY DEF Init
  <2> QED
    BY <1>1, <1>9, <2>1, MarksApart DEF VasOK, InRound, Init
<1>11. FramesOK
  <2>1. ASSUME NEW p \in Page PROVE FrameOf(p) = p /\ Inside(p)
    <3>1. p = <<p[1], p[2]>> /\ p[1] \in Tier /\ p[2] < FramesIn(p[1])
      BY <2>1 DEF Page, Tier, FramesIn
    <3>2. pg[p].devdax_offset = p[2] /\ pg[p].in_dram = (p[1] = "dram")
      BY DEF Init, InitialOffset
    <3>3. TierOf(p) = p[1]
      BY <3>1, <3>2 DEF TierOf, Tier
    <3> QED
      BY <3>1, <3>2, <3>3 DEF Inside, FrameOf
  <2>2. Ahead = {}
    BY <1>2 DEF Ahead
  <2> QED
    BY <2>1, <2>2 DEF FramesOK
<1> QED
  BY <1>1, <1>3, <1>5, <1>6, <1>8, <1>10, <1>11 DEF MigInv

\* mig-test.c calls the library as its clients may: what PageManager's
\* theorems say holds of the program.  (mig-test.c:14-51.)
THEOREM TestUsesTheLibrary == MigSpec => Spec
<1>1. MigInit => Init
  BY DEF MigInit
<1>2. [MigNext]_mvars => [Next]_vars
  BY MigSteps
<1> QED
  BY <1>1, <1>2, PTL DEF MigSpec, Spec

\* Whatever the sizes of the buffer, of the tiers and of the batches, the sums
\* of the lists and the counters hold, and what they rest on.
THEOREM MigInvariant == MigSpec => []MigInv
<1>1. MigInv /\ [MigNext]_mvars => MigInv'
  BY NextMig
<1> QED
  BY InitMig, <1>1, PTL DEF MigSpec

\* No assertion of the library fails under the program, no NULL is dequeued
\* and rand() is not divided by zero.  (pebs.c:212, 257, 318.)
THEOREM TestNeverDies == MigSpec => []NeverDies
<1>1. MigInv => NeverDies
  BY DEF MigInv, NeverDies
<1> QED
  BY <1>1, MigInvariant, PTL

\* Past a wait loop every counter is the length of its list: the last update
\* of a batch is the one that main() polls.  (pebs.c:391-398.)
THEOREM WaitsSettleCounters == MigSpec => []CountersSettled
<1>1. MigInv => CountersSettled
  BY DEF MigInv, CountsOK, Settled, CountersSettled
<1> QED
  BY <1>1, MigInvariant, PTL

\* A random request takes every page of the tier it is made for, and none
\* twice.  (pebs.c:211-227.)
THEOREM RequestsTakeAllPages == MigSpec => []AllPagesRequested
<1>1. MigInv => AllPagesRequested
  <2> SUFFICES ASSUME MigInv, InRound, pc[main] = "idle" PROVE list[MmapList(Src)] = <<>>
    BY DEF AllPagesRequested, InRound, MmapList, Src, Source, Asked
  <2>1. Requesting /\ MmapList(Src) \in List
    BY RoundCall
  <2>2. Left = 0 /\ Bit(pc[main] = "rotate_back") = 0
    BY <2>1 DEF Requesting, Bit
  <2>3. Len(list[MmapList(Src)]) + 0 = 0
    BY <2>1, <2>2 DEF Requesting
  <2>4. list[MmapList(Src)] \in Seq(Page)
    BY <2>1, Unpacked
  <2> QED
    BY <2>3, <2>4
<1> QED
  BY <1>1, MigInvariant, PTL

\* After munmap nothing is tracked and nothing is mapped, and it stays so: no
\* migration that is still going on lays a page over the addresses.
\* (hemem.c:473-502, 567.)
THEOREM TestUnmapIsFinal == MigSpec => []UnmapIsFinal
<1>1. MigInv => UnmapIsFinal
  BY DEF MigInv, VasOK, UnmapIsFinal
<1> QED
  BY <1>1, MigInvariant, PTL

\* Until the buffer is unmapped, addresses are shown the frames of live pages.
LEMMA ShownApart ==
  ASSUME MigInv, at \notin {"wait_total", "return"}
  PROVE  FramesDistinct
<1>1. /\ Track /\ Match /\ FramesOK /\ hashed \subseteq Page
      /\ \A v \in VA : vm[v] \in Frame => Used(v)
  BY Unpacked DEF MigInv, VasOK
<1>2. \A u \in Caller : Backed(u) => u = main /\ cur[u] \in Page \ hashed /\ pg[cur[u]].present
  <2>1. \A u \in Caller : Backed(u) => u = main
    BY Threads DEF Backed, Has, MigInv, MainOK
  <2> QED
    BY <1>1, <2>1, Threads DEF Track, HasOK, Backed
<1>3. ASSUME NEW v \in VA, vm[v] \in Frame
      PROVE  \E p \in Page : /\ Live(p) /\ FrameOf(p) = vm[v]
                             /\ \/ p \in hashed /\ pg[p].va = v
                                \/ p \notin hashed /\ p = cur[main] /\ call[main].va = v
  <2>1. CASE Tracked(v)
    <3>1. PICK p \in hashed : pg[p].va = v
      BY <2>1 DEF Tracked
    <3>2. p \in Page /\ pg[p].present
      BY <1>1, <3>1 DEF Track, TableOK
    <3>3. FrameOf(p) = vm[v]
      BY <1>1, <3>1 DEF Match
    <3> QED
      BY <3>1, <3>2, <3>3 DEF Live
  <2>2. CASE \E u \in Caller : Backed(u) /\ call[u].va = v
    <3>1. Backed(main) /\ call[main].va = v /\ main \in Caller
      BY <1>2, <2>2
    <3>2. FrameOf(cur[main]) = vm[v]
      BY <1>1, <3>1 DEF Match
    <3> QED
      BY <1>2, <3>1, <3>2 DEF Live
  <2> QED
    BY <1>1, <1>3, <2>1, <2>2 DEF Used
<1>4. ASSUME NEW u \in VA, NEW v \in VA, vm[u] \in Frame, vm[u] = vm[v] PROVE u = v
  <2>1. PICK p \in Page : /\ Live(p) /\ FrameOf(p) = vm[u]
                          /\ \/ p \in hashed /\ pg[p].va = u
                             \/ p \notin hashed /\ p = cur[main] /\ call[main].va = u
    BY <1>3, <1>4
  <2>2. PICK q \in Page : /\ Live(q) /\ FrameOf(q) = vm[v]
                          /\ \/ q \in hashed /\ pg[q].va = v
                             \/ q \notin hashed /\ q = cur[main] /\ call[main].va = v
    BY <1>3, <1>4
  <2>3. p = q
    BY <1>1, <1>4, <2>1, <2>2 DEF FramesOK
  <2> QED
    BY <2>1, <2>2, <2>3
<1> QED
  BY <1>4 DEF FramesDistinct

\* While it is unmapped, and after, addresses only lose what they showed.
LEMMA UnmapShowsLess ==
  ASSUME MigInv, [MigNext]_mvars, FramesDistinct, at' \in {"wait_total", "return"}
  PROVE  FramesDistinct'
<1> USE Threads
<1>1. SUFFICES \A v \in VA : vm'[v] = vm[v] \/ vm'[v] = Unmapped
  BY <1>1, MarksApart DEF FramesDistinct
<1>2. CASE UNCHANGED mvars
  BY <1>2 DEF mvars, vars
<1>3. CASE MigNext
  <2>1. CASE Main
    <3>1. UnmapBuffer \/ WaitTotal
      BY <2>1 DEF Main, MapBuffer, MigrateDown, WaitDown, MigrateUp, WaitUp, UnmapBuffer, WaitTotal, Then
    <3> QED
      BY <3>1 DEF UnmapBuffer, Munmap, WaitTotal, vars
  <2>2. CASE AppStep(main) /\ UNCHANGED at
    <3>1. at = "wait_total"
      BY <2>2, CallSteps DEF InRound
    <3> QED
      BY <2>2, <3>1, CallSteps, NoDeath, <1>3
      DEF RemovePage, UncountPage, Unmap, LoadCounter, StoreCounter, InRound
  <2>3. CASE MigratorStep /\ UNCHANGED at
    BY <2>3, OnlyScans DEF InRound
  <2> QED
    BY <1>3, <2>1, <2>2, <2>3, MainSteps
<1> QED
  BY <1>2, <1>3

\* No two addresses of the buffer ever show the same frame, although a freed
\* entry keeps an offset of the tier it was in: none of those is allocated
\* under this program.  (pebs.c:353-357, 384-388.)
THEOREM TestFramesAreDistinct == MigSpec => []FramesDistinct
<1> DEFINE Ended == at \in {"wait_total", "return"}
<1>1. MigInit => ~Ended
  BY DEF MigInit
<1>2. MigInv /\ ~Ended => FramesDistinct
  BY ShownApart
<1>3. MigInv /\ [MigNext]_mvars /\ FramesDistinct /\ Ended' => FramesDistinct'
  BY UnmapShowsLess
<1> HIDE DEF Ended
<1> QED
  BY <1>1, <1>2, <1>3, MigInvariant, PTL DEF MigSpec

\* Between rounds, the pages of the buffer are in the tier the last round took
\* them to.
LEMMA SettledPages ==
  ASSUME MigInv, at \in {"migrate_up", "munmap"}, NEW tier \in Tier, NEW other \in Tier,
         tier # other, Settled(tier, other), NEW v \in 1 .. npage
  PROVE  vm[v][1] = tier
<1>1. Known /\ Running /\ Track /\ list \in Lists
  BY Unpacked DEF MigInv, LibInv, Lists
<1>2. PICK p \in hashed : pg[p].va = v
  BY DEF MigInv, VasOK, Tracked
<1>3. p \in Page /\ pg[p].present
  BY <1>1, <1>2, Unpacked DEF Track, TableOK
<1>4. vm[v] = <<TierOf(p), pg[p].devdax_offset>>
  BY <1>2 DEF MigInv, VasOK, Match, FrameOf
<1>5. Hands = {}
  <2>1. pc[main] = "idle" /\ pc[FaultThread] = "poll"
    BY DEF MigInv, MainOK
  <2>2. InHands = {}
    BY <2>1, Threads DEF InHands, HandLabel
  <2>3. pc[Migrator] = "scan"
    BY AtRest DEF InRound, Still, MigInv
  <2>4. batch.page = <<>> /\ batch.next = <<>>
    BY <2>3, Unpacked DEF MigratorOK, EmptyBatch
  <2>5. BatchPages = 1 .. Len(batch.page) /\ BatchNexts = 1 .. Len(batch.next)
    BY <2>3 DEF BatchPages, BatchNexts
  <2>6. BatchPages = {} /\ BatchNexts = {}
    BY <2>4, <2>5
  <2> QED
    BY <2>2, <2>6 DEF Hands, BatchSlots
<1>6. PICK l \in List : \E i \in 1 .. Len(list[l]) : list[l][i] = p
  <2>1. Exclusive(list, Hands)
    BY <1>1 DEF Known, OwnInv
  <2>2. \E o : Owns(list, Hands, o, p)
    BY <1>3, <2>1 DEF Exclusive, Sole
  <2> QED
    BY <1>5, <2>2 DEF Owns
<1>7. Fits(pg, p, l)
  BY <1>1, <1>6 DEF Known, KindInv, AllFit
<1>8. l \notin FreeLists
  BY <1>3, <1>7 DEF Fits
<1>9. list[l] # <<>>
  BY <1>6
<1>10. l \notin ToList
  BY <1>9 DEF MigInv, QueuesOK, InRound
<1>11. l = MmapList(tier)
  <2>1. l # MmapList(other)
    BY <1>9 DEF Settled
  <2> QED
    BY <1>8, <1>10, <2>1 DEF List, FreeLists, MmapList, Tier
<1>12. TierOf(p) = tier
  BY <1>7, <1>11, ListKinds DEF Fits, TierOf
<1> QED
  BY <1>4, <1>12

\* Past the first wait loop the whole buffer is in NVM, past the second it is
\* in DRAM, although main() polls nothing but a counter.  (mig-test.c:37, 42;
\* pebs.c:362-367.)
THEOREM WaitsMeanMoved == MigSpec => []WaitMeansMoved
<1>1. MigInv => WaitMeansMoved
  BY SettledPages DEF MigInv, CountsOK, WaitMeansMoved, Tier
<1> QED
  BY <1>1, MigInvariant, PTL

=============================================================================
