------------------------------ MODULE Migration ------------------------------
(***************************************************************************)
(* PageManager with what is in the pages: the application stores to its    *)
(* pages while the migration thread moves them.  pebs_migrate_* sets       *)
(* `migrating', write-protects the pages of the batch, copies and remaps   *)
(* them and clears `migrating'; a store to a protected page faults, and    *)
(* handle_wp_fault holds it until `migrating' is cleared.                  *)
(*                                                                         *)
(* Copying a batch is one step: UFFDIO_DMA_COPY, or the threads of module  *)
(* ParallelCopy.  A page holds one value.                                  *)
(***************************************************************************)
EXTENDS PageManager

CONSTANTS
  Callers, \* bound: the threads that make calls; the others only store
  Value,   \* what a page may hold
  Zero,    \* what memset leaves in it
  None     \* no store in progress

\* The application does not unmap: a page that is unmapped while it waits for
\* the migration thread is lost to another defect (hemem.c:476).
ASSUME KeepsItsPages == "munmap" \notin Ops
ASSUME SlotsAssumption == NumVA # 0

VARIABLES
  content,    \* what each frame holds
  protected,  \* the virtual pages the kernel write-protects
  migrating,  \* the field `migrating' of every struct hemem_page
  cleared,    \* the threads that have cleared it in the page they allocate
  moving,     \* the migration thread is between the two loops over `migrating'
  store,      \* the store each thread has started: <<page, value>>
  asleep,     \* the threads stopped on a write-protected page
  waited,     \* the page handle_wp_fault waits for
  answered    \* handle_wp_fault has returned, and the page is not woken yet

memvars == <<content, protected, migrating, cleared, moving, store, asleep, waited, answered>>
allvars == <<vars, memvars>>

MemInit ==
  /\ Init
  /\ content \in [Page -> {Zero}]
  /\ protected = [v \in VA |-> FALSE]
  /\ migrating = [p \in Page |-> FALSE]
  /\ cleared = {}
  /\ moving = FALSE
  /\ store = [t \in App |-> None]
  /\ asleep = {}
  /\ waited = NoPage
  /\ answered = FALSE

-----------------------------------------------------------------------------
(* The application and the kernel.                                          *)

\* A thread that is in no call stores to a page it knows to be mapped.
StartStore(t, v, x) ==
  /\ pc[t] = "idle" /\ store[t] = None
  /\ vm[v] # Unmapped
  /\ \A u \in App : InRegion(v, u) => call[u].op = "touch"
  /\ store' = [store EXCEPT ![t] = <<v, x>>]
  /\ UNCHANGED <<vars, content, protected, migrating, cleared, moving, asleep, waited, answered>>

\* The thread tries its store: it is about to execute the instruction.
Tries(t) == pc[t] = "idle" /\ store[t] # None /\ t \notin asleep

FinishStore(t) ==
  /\ Tries(t)
  /\ LET v == store[t][1]
     IN /\ vm[v] \in Page /\ ~protected[v]
        /\ content' = [content EXCEPT ![vm[v]] = store[t][2]]
  /\ store' = [store EXCEPT ![t] = None]
  /\ UNCHANGED <<vars, protected, migrating, cleared, moving, asleep, waited, answered>>

StoreMisses(t) == Tries(t) /\ Touch(t, store[t][1]) /\ UNCHANGED memvars

StoreIsHeld(t) ==
  /\ Tries(t)
  /\ vm[store[t][1]] \in Page /\ protected[store[t][1]]
  /\ asleep' = asleep \cup {t}
  /\ UNCHANGED <<vars, content, protected, migrating, cleared, moving, store, waited, answered>>

\* The calls of the application.  Bounds: it maps all its pages with one call,
\* and makes no random requests, which only choose other pages.
Call(t) ==
  /\ t \in Callers /\ store[t] = None
  /\ \/ \E populate \in BOOLEAN : (populate \/ "touch" \in Ops) /\ Mmap(t, 1, NumVA, populate)
     \/ \E to \in Kinds, n \in 1 .. MaxPagesNum : Request(t, to, n, FALSE)
  /\ UNCHANGED memvars

-----------------------------------------------------------------------------
(* handle_fault: write-protect faults.                                      *)

\* Mutant: write-protect faults have a thread of their own.
OwnThread == Running

\* handle_fault is between two messages.
BetweenFaults == pc[FaultThread] = "poll"

\* handle_wp_fault looks the page up.
ReadWpFault(t) ==
  /\ BetweenFaults /\ waited = NoPage /\ t \in asleep
  /\ \/ /\ \A p \in hashed : pg[p].va # store[t][1]
        /\ Panic("write-protect fault on an untracked page")
        /\ UNCHANGED memvars
     \/ \E p \in hashed :
          /\ pg[p].va = store[t][1]
          /\ waited' = p
          /\ UNCHANGED <<vars, content, protected, migrating, cleared, moving, store, asleep,
                         answered>>

\* Mutant: the threads are left asleep.
WakeNobody(v) == {}

\* The threads UFFDIO_WAKE finds.
Sleepers(v) == {t \in asleep : store[t][1] = v}

\* while (page->migrating);
EndOfMove ==
  /\ waited # NoPage /\ ~answered /\ ~migrating[waited] /\ Running
  /\ answered' = TRUE
  /\ UNCHANGED <<vars, content, protected, migrating, cleared, moving, store, asleep, waited>>

\* UFFDIO_WAKE, by which time the page may be in another migration.
WakeStores ==
  /\ answered /\ Running
  /\ asleep' = asleep \ Sleepers(pg[waited].va)
  /\ waited' = NoPage
  /\ answered' = FALSE
  /\ UNCHANGED <<vars, content, protected, migrating, cleared, moving, store>>

-----------------------------------------------------------------------------
(* Allocation: a page is zeroed before it is mapped.                        *)

MapZeroed(t) ==
  /\ Map(t)
  /\ content' = [content EXCEPT ![FrameOf(cur[t])] = Zero]
  /\ UNCHANGED <<protected, migrating, cleared, moving, store, asleep, waited, answered>>

\* page->migrating = false comes after page->va is set: a migration that has
\* taken the page in between has its mark cleared.
ClearNewPage(t) ==
  /\ pc[t] = "add" /\ t \notin cleared
  /\ migrating' = [migrating EXCEPT ![cur[t]] = FALSE]
  /\ cleared' = cleared \cup {t}
  /\ UNCHANGED <<vars, content, protected, moving, store, asleep, waited, answered>>

TrackPage(t) ==
  /\ AddPage(t) /\ t \in cleared
  /\ cleared' = cleared \ {t}
  /\ UNCHANGED <<content, protected, migrating, moving, store, asleep, waited, answered>>

AllocationStep(t) ==
  \/ MapZeroed(t) \/ ClearNewPage(t) \/ TrackPage(t)
  \/ /\ Allocate(t, "dram") \/ Allocate(t, "nvm") \/ Place(t) \/ Publish(t)
     /\ UNCHANGED memvars

-----------------------------------------------------------------------------
(* The migration thread: pebs_migrate_dram, _nvm, _down and _up.            *)

BatchOf == {batch.page[i] : i \in DOMAIN batch.page}

\* page[i]->migrating = true, for the whole batch.
SetMigrating ==
  /\ pc[Migrator] = "protect" /\ ~moving
  /\ moving' = TRUE
  /\ migrating' = [p \in Page |-> migrating[p] \/ p \in BatchOf]
  /\ UNCHANGED <<vars, content, protected, cleared, store, asleep, waited, answered>>

\* Mutant: the write protection is left out.
NotShielded(v) == protected

Shielded(v) == [protected EXCEPT ![v] = TRUE]

ProtectPage ==
  /\ Protect /\ moving
  /\ protected' = IF Running' THEN Shielded(pg[batch.page[batch.i]].va) ELSE protected
  /\ UNCHANGED <<content, migrating, cleared, moving, store, asleep, waited, answered>>

CopyBatch ==
  /\ Copy
  /\ content' = IF ~Running' THEN content ELSE
       [f \in Page |->
          IF \E j \in DOMAIN batch.offset : f = <<Target(batch.to), batch.offset[j]>>
          THEN content[FrameOf(batch.page[CHOOSE j \in DOMAIN batch.offset :
                                 f = <<Target(batch.to), batch.offset[j]>>])]
          ELSE content[f]]
  /\ UNCHANGED <<protected, migrating, cleared, moving, store, asleep, waited, answered>>

\* The new mapping is registered again and is not write-protected.
RemapPage ==
  /\ Remap
  /\ protected' = [protected EXCEPT ![pg[batch.page[batch.i]].va] = FALSE]
  /\ UNCHANGED <<content, migrating, cleared, moving, store, asleep, waited, answered>>

\* Mutant: `migrating' is cleared once the pages are copied.
OnceCopied == "remap"

\* Where hemem_migrate_* has returned.
Migrated == "restore"

\* page[i]->migrating = false, for the whole batch.
ClearMigrating ==
  /\ pc[Migrator] = Migrated /\ moving
  /\ moving' = FALSE
  /\ migrating' = [p \in Page |-> migrating[p] /\ p \notin BatchOf]
  /\ UNCHANGED <<vars, content, protected, cleared, store, asleep, waited, answered>>

MoveStep ==
  \/ SetMigrating \/ ProtectPage \/ CopyBatch \/ RemapPage \/ ClearMigrating
  \/ /\ Scan \/ TakePage \/ TakeNext \/ (Restore /\ ~moving) \/ RestoreNext
        \/ Counting(Migrator)
     /\ UNCHANGED memvars

-----------------------------------------------------------------------------
(* The specification.                                                       *)

\* Code of the library in the application's threads, and their stores.
ThreadStep(t) ==
  \/ FinishStore(t) \/ StoreMisses(t) \/ StoreIsHeld(t)
  \/ AllocationStep(t)
  \/ (Counting(t) \/ Take(t) \/ Queue(t) \/ RequestDone(t)) /\ UNCHANGED memvars

\* handle_fault serves one fault at a time.
HandleFault ==
  \/ \E t \in App : ReadWpFault(t)
  \/ EndOfMove \/ WakeStores
  \/ /\ waited = NoPage
     /\ \/ \E t \in App : ReadFault(t) /\ UNCHANGED memvars
        \/ AllocationStep(FaultThread)
        \/ Wake /\ UNCHANGED memvars

MemNext ==
  \/ \E t \in App : \/ Call(t) \/ ThreadStep(t)
                    \/ \E v \in VA, x \in Value : StartStore(t, v, x)
  \/ HandleFault
  \/ MoveStep

MemFairness == /\ \A t \in App : WF_allvars(ThreadStep(t))
               /\ WF_allvars(HandleFault)
               /\ WF_allvars(MoveStep)

MemSpec == MemInit /\ [][MemNext]_allvars /\ MemFairness

-----------------------------------------------------------------------------

\* Moving a page is invisible to the application: whatever the migration
\* thread does between two of its instructions, each store takes effect once,
\* none is lost in the copy, and no other page changes.  (pebs.c:57-87,
\* hemem.c:504-912.)
Memory == INSTANCE AtomicMemory
  WITH mem <- [v \in VA |-> IF vm[v] \in Page THEN content[vm[v]] ELSE Zero]

ImplementsMemory == Memory!Spec

\* A page is write-protected only while the migration thread has it in its
\* batch, between the two loops over `migrating': no path leaves one protected
\* when its mark is gone, where stores would fault for ever.  (pebs.c:59-62.)
ProtectedOnlyInMoves ==
  \A v \in VA : protected[v] => moving /\ \E p \in BatchOf : pg[p].va = v

\* The page handle_wp_fault looks up is in the table, although pages can be
\* requested, moved and protected before they are added to it.  (hemem.c:919.)
FaultingPageTracked == panic # "write-protect fault on an untracked page"

\* A store completes although its page is being moved, and although the fault
\* thread spins in handle_wp_fault meanwhile.  (hemem.c:924, 1099.)
StoresComplete == \A t \in App : store[t] # None ~> (store[t] = None \/ ~Running)

=============================================================================
