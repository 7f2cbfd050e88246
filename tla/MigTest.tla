------------------------------ MODULE MigTest ------------------------------
(***************************************************************************)
(* The program mig-test.c on top of the library: one application thread    *)
(* maps and populates a buffer, moves all of it down to NVM and back up to  *)
(* DRAM, in random order, and unmaps it.  Between its calls it spins on    *)
(* the counters the migration thread updates.                              *)
(***************************************************************************)
EXTENDS PageManager

CONSTANTS main,   \* the program's thread
          npage   \* SIZE / PG_SIZE

\* The buffer is 8 GB: NVM holds it, and DRAM (16 GB) holds it twice.
ASSUME MigTestAssumption ==
  /\ App = {main}
  /\ Ops = {"mmap", "munmap", "request"}
  /\ {"dram_to_nvm_list", "nvm_to_dram_list"} \subseteq Kinds
  /\ npage \in 1 .. NumVA /\ npage <= MaxPagesNum
  /\ npage <= SLOWMEM_PAGES /\ 2 * npage <= FASTMEM_PAGES

VARIABLE at    \* where main() is: the call it makes or the loop it spins in

mvars == <<vars, at>>

MigInit == Init /\ at = "mmap"

\* A call is made when the thread is back from the previous one.
At(label)  == at = label /\ pc[main] = "idle"
Then(label) == at' = label

MapBuffer   == At("mmap") /\ Mmap(main, 1, npage, TRUE) /\ Then("migrate_down")
MigrateDown == /\ At("migrate_down")
               /\ Request(main, "dram_to_nvm_list", npage, TRUE)
               /\ Then("wait_down")
WaitDown    == /\ At("wait_down") /\ num["dram_to_nvm_list"] = 0
               /\ Then("migrate_up") /\ UNCHANGED vars
MigrateUp   == /\ At("migrate_up")
               /\ Request(main, "nvm_to_dram_list", npage, TRUE)
               /\ Then("wait_up")
WaitUp      == /\ At("wait_up") /\ num["nvm_to_dram_list"] = 0
               /\ Then("munmap") /\ UNCHANGED vars
UnmapBuffer == At("munmap") /\ Munmap(main, 1, npage) /\ Then("wait_total")
WaitTotal   == /\ At("wait_total") /\ TotalMmap = 0
               /\ Then("return") /\ UNCHANGED vars

Main == \/ MapBuffer \/ MigrateDown \/ WaitDown \/ MigrateUp \/ WaitUp
        \/ UnmapBuffer \/ WaitTotal

\* The library's code, in the program's thread and in its own.
Library == (AppStep(main) \/ FaultStep \/ MigratorStep) /\ UNCHANGED at

MigNext == Main \/ Library

MigFairness == /\ WF_mvars(Main)
               /\ WF_mvars(AppStep(main) /\ UNCHANGED at)
               /\ WF_mvars(MigratorStep /\ UNCHANGED at)

MigSpec == MigInit /\ [][MigNext]_mvars /\ MigFairness

-----------------------------------------------------------------------------

\* No assertion fails, no NULL is dereferenced and rand() is never divided by
\* zero, although the counters lag behind the lists.  (pebs.c:212, 257, 318.)
NeverDies == Running

\* The counters main() spins on are updated after the pages they stand for
\* are remapped: past the first loop all of the buffer is in NVM, past the
\* second all of it is in DRAM.  (mig-test.c:37, 42; pebs.c:362-367.)
WaitMeansMoved ==
  /\ at = "migrate_up" => \A v \in 1 .. npage : vm[v][1] = "nvm"
  /\ at = "munmap"     => \A v \in 1 .. npage : vm[v][1] = "dram"

\* Past each wait, all eight counters say how long their lists are: main()
\* reads a counter without a lock, and its next request divides by another
\* that was updated in the same critical section.  (pebs.c:391-398, 257.)
CountersSettled ==
  at \in {"migrate_up", "munmap"} /\ pc[main] = "idle" =>
    \A l \in List : num[l] = Len(list[l])

\* The shuffling of a random request skips no page and takes none twice: each
\* round moves exactly npage pages.  (pebs.c:211-227.)
AllPagesRequested ==
  at \in {"wait_down", "wait_up"} /\ pc[main] = "idle" =>
    list[IF at = "wait_down" THEN "dram_mmap_list" ELSE "nvm_mmap_list"] = <<>>

\* Once the buffer is unmapped nothing tracks or maps it again: no migration
\* that is still going on lays a page over the addresses.  (hemem.c:473-502,
\* 567.)
UnmapIsFinal ==
  at \in {"wait_total", "return"} /\ pc[main] = "idle" =>
    hashed = {} /\ \A v \in VA : vm[v] = Unmapped

\* The loops of main() end and the program returns.  (mig-test.c:37, 42, 47.)
Returns == <>(at = "return")

=============================================================================
