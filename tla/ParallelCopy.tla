---------------------------- MODULE ParallelCopy ----------------------------
(***************************************************************************)
(* The copy threads of hemem.c, compiled when USE_DMA is not defined.  A   *)
(* client (the migration thread, the fault thread, or a thread that        *)
(* populates a mapping) takes a lock, writes its job into the one struct   *)
(* pmemcpy and waits twice at a barrier: once to start the copy threads,   *)
(* once until all of them have copied their chunk.                         *)
(***************************************************************************)
EXTENDS Integers, FiniteSets

CONSTANTS
  Client,            \* the threads that copy and clear pages
  MAX_COPY_THREADS,  \* the copy threads
  Region,            \* the pages
  Length,            \* cells of a page
  None               \* no job, no source, no holder

\* The remainder of length / MAX_COPY_THREADS would not be copied.
ASSUME ChunksAssumption ==
  /\ MAX_COPY_THREADS \in Nat \ {0}
  /\ Length \in Nat /\ Length % MAX_COPY_THREADS = 0

Copier == 0 .. MAX_COPY_THREADS - 1
Thread == Client \cup Copier
Cell   == 0 .. Length - 1

\* A job; hemem_parallel_memset has no source.
Job == [dst : Region, src : Region \cup {None}]

\* The threads differ, and None is a value of its own.
ASSUME ThreadsAssumption == Client \cap Copier = {}
ASSUME NoneAssumption    == None \notin Client \cup Region \cup Job

VARIABLES
  content,  \* the cells of each page
  job,      \* pmemcpy.dst, .src and .write_zeros
  lock,     \* the holder of pmemcpy.lock
  waiting,  \* the threads blocked at pmemcpy.barrier
  pc,       \* where each thread is
  call,     \* the arguments of each client's call
  mine      \* what each copy thread has read of the job

vars == <<content, job, lock, waiting, pc, call, mine>>

Init ==
  /\ content = [r \in Region |-> [i \in Cell |-> <<r, i>>]]
  /\ job = None /\ lock = None /\ waiting = {}
  /\ pc = [t \in Thread |-> IF t \in Client THEN "idle" ELSE "start"]
  /\ call = [c \in Client |-> None]
  /\ mine = [k \in Copier |-> None]

-----------------------------------------------------------------------------
(* pthread_barrier_wait.                                                    *)

\* Mutants: the client returns when the copy threads have started; a copy
\* thread goes on with the same job.
NoSecondWait(t) == CASE pc[t] = "start"  -> IF t \in Client THEN "unlock" ELSE "read"
                     [] pc[t] = "finish" -> "start"
CopyAgain(k) == "read"

\* Where a thread goes on from the barrier.
Passed(t) == CASE pc[t] = "start"  -> IF t \in Client THEN "finish" ELSE "read"
               [] pc[t] = "finish" -> IF t \in Client THEN "unlock" ELSE "start"

AtBarrier(t) == pc[t] \in {"start", "finish"} /\ t \notin waiting

\* The last of MAX_COPY_THREADS + 1 threads releases the others.
Arrive(t) ==
  /\ AtBarrier(t)
  /\ IF Cardinality(waiting) < MAX_COPY_THREADS
     THEN waiting' = waiting \cup {t} /\ UNCHANGED pc
     ELSE /\ waiting' = {}
          /\ pc' = [u \in Thread |-> IF u \in waiting \cup {t} THEN Passed(u) ELSE pc[u]]
  /\ UNCHANGED <<content, job, lock, call, mine>>

-----------------------------------------------------------------------------
(* hemem_parallel_memcpy and hemem_parallel_memset.                         *)

\* The pages of a call belong to its caller: it has dequeued their entries.
Disjoint(d, s, other) == d \notin {other.dst, other.src} /\ s # other.dst

Begin(c, d, s) ==
  /\ pc[c] = "idle" /\ s # d
  /\ \A u \in Client : call[u] # None => Disjoint(d, s, call[u])
  /\ call' = [call EXCEPT ![c] = [dst |-> d, src |-> s]]
  /\ pc' = [pc EXCEPT ![c] = "lock"]
  /\ UNCHANGED <<content, job, lock, waiting, mine>>

\* Mutant: the lock is not taken.
AlwaysFree == TRUE

LockFree == lock = None

\* Lock, and write the job; the copy threads do not look at it yet.
SetJob(c) ==
  /\ pc[c] = "lock" /\ LockFree
  /\ lock' = c
  /\ job' = call[c]
  /\ pc' = [pc EXCEPT ![c] = "start"]
  /\ UNCHANGED <<content, waiting, call, mine>>

Return(c) ==
  /\ pc[c] = "unlock"
  /\ lock' = None
  /\ call' = [call EXCEPT ![c] = None]
  /\ pc' = [pc EXCEPT ![c] = "idle"]
  /\ UNCHANGED <<content, job, waiting, mine>>

-----------------------------------------------------------------------------
(* memcpy_thread.                                                           *)

ReadJob(k) ==
  /\ pc[k] = "read"
  /\ mine' = [mine EXCEPT ![k] = job]
  /\ pc' = [pc EXCEPT ![k] = "copy"]
  /\ UNCHANGED <<content, job, lock, waiting, call>>

\* Where a copy thread goes after memcpy or memset.
Copied(k) == "finish"

Chunk(k) == LET chunk_size == Length \div MAX_COPY_THREADS
            IN k * chunk_size .. (k + 1) * chunk_size - 1

Blank == <<None, 0>>

\* What a job writes to cell i of its destination.
Written(j, i) == IF j.src = None THEN Blank ELSE content[j.src][i]

CopyChunk(k) ==
  /\ pc[k] = "copy"
  /\ content' = [content EXCEPT ![mine[k].dst] =
                   [i \in Cell |-> IF i \in Chunk(k) THEN Written(mine[k], i) ELSE @[i]]]
  /\ pc' = [pc EXCEPT ![k] = Copied(k)]
  /\ UNCHANGED <<job, lock, waiting, call, mine>>

-----------------------------------------------------------------------------

ClientStep(c) == SetJob(c) \/ Arrive(c) \/ Return(c)
CopierStep(k) == ReadJob(k) \/ CopyChunk(k) \/ Arrive(k)

Next == \/ \E c \in Client : \/ ClientStep(c)
                             \/ \E d \in Region, s \in Region \cup {None} : Begin(c, d, s)
        \/ \E k \in Copier : CopierStep(k)

Fairness == /\ \A c \in Client : WF_vars(ClientStep(c))
            /\ \A k \in Copier : WF_vars(CopierStep(k))

Spec == Init /\ [][Next]_vars /\ Fairness

-----------------------------------------------------------------------------

\* The job is not overwritten while a copy thread still works on it, and a
\* copy thread never works on a job of an earlier call.  (hemem.c:116-122.)
JobIsStable ==
  [][\A k \in Copier : pc[k] \in {"read", "copy"} =>
       /\ job' = job
       /\ mine'[k] # mine[k] => \E c \in Client : lock = c /\ mine'[k] = call[c]]_vars

\* A client whose job is set and has not passed the second wait.
Copying(c) == pc[c] \in {"start", "finish"}

\* The pages as the callers see them: a call takes effect when it sets the job.
Mem == [r \in Region |-> IF lock # None /\ Copying(lock) /\ call[lock].dst = r
                         THEN [i \in Cell |-> Written(call[lock], i)]
                         ELSE content[r]]

Done == {c \in Client : Copying(c) \/ pc[c] = "unlock"}

\* The two waits and the lock make a copy atomic: when a call returns every
\* cell of its destination is copied, by whichever thread, and no cell of
\* another page has changed.  (hemem.c:88-141.)
Service == INSTANCE AtomicCopy
  WITH Zeros <- [i \in Cell |-> Blank], mem <- Mem, done <- Done

ImplementsAtomicCopy == Service!Spec

\* A client that has the lock gets through both waits: no thread is missing
\* at the barrier.  (hemem.c:96, 119-122.)
CopiesComplete == \A c \in Client : lock = c ~> lock # c

=============================================================================
