------------------------- MODULE ParallelCopyProofs -------------------------
(***************************************************************************)
(* The lock and the two waits at the barrier make a copy by many threads   *)
(* one step, for any number of clients, copy threads, pages and cells.     *)
(*                                                                         *)
(* The barrier counts threads, it does not know them.  The argument is     *)
(* that only the copy threads and the holder of the lock can ever be at    *)
(* it: they are as many as it waits for, so when it releases they are all  *)
(* there, and they leave the same wait together.                           *)
(***************************************************************************)
EXTENDS ParallelCopy, FiniteSetTheorems, TLAPS

ClientStates == {"idle", "lock", "start", "finish", "unlock"}
CopierStates == {"start", "read", "copy", "finish"}

CellValue == (Region \X Cell) \cup {Blank}

TypeOK ==
  /\ content \in [Region -> [Cell -> CellValue]]
  /\ job \in Job \cup {None}
  /\ lock \in Client \cup {None}
  /\ waiting \in SUBSET Thread
  /\ pc \in [Thread -> ClientStates \cup CopierStates]
  /\ \A c \in Client : pc[c] \in ClientStates
  /\ \A k \in Copier : pc[k] \in CopierStates
  /\ call \in [Client -> Job \cup {None}]
  /\ mine \in [Copier -> Job \cup {None}]

\* A client is past the lock exactly when it holds it.
HolderInv == \A c \in Client : pc[c] \in {"start", "finish", "unlock"} <=> lock = c

CallInv == \A c \in Client : /\ pc[c] = "idle" <=> call[c] = None
                             /\ call[c] # None => call[c].src # call[c].dst

WaitInv == \A t \in waiting : pc[t] \in {"start", "finish"}

\* Between the two waits of the holder, when the copy threads work.
Working == lock # None /\ pc[lock] = "finish"

Ready(k) == \A i \in Chunk(k) : content[job.dst][i] = Written(job, i)

\* The copy threads work on the holder's job, and on nothing else.
WorkInv == /\ lock # None /\ Copying(lock) => job = call[lock]
           /\ \A k \in Copier : pc[k] = "start" <=> ~Working
           /\ \A k \in Copier : pc[k] \in {"copy", "finish"} => mine[k] = job
           /\ \A k \in Copier : pc[k] = "finish" => Ready(k)

CopyInv == TypeOK /\ HolderInv /\ CallInv /\ WaitInv /\ WorkInv

-----------------------------------------------------------------------------
(* The operators.                                                           *)

\* The chunks of the copy threads leave no cell out.
LEMMA ChunksCover == \A i \in Cell : \E k \in Copier : i \in Chunk(k)
<1> DEFINE q == Length \div MAX_COPY_THREADS
<1>1. q \in Nat /\ Length = q * MAX_COPY_THREADS
  BY ChunksAssumption
<1>2. TAKE i \in Cell
<1>3. i \in Nat /\ i < Length
  BY ChunksAssumption DEF Cell
<1>4. q # 0
  BY <1>1, <1>3, ChunksAssumption
<1> DEFINE k == i \div q
<1>5. k \in Nat /\ k * q <= i /\ i < (k + 1) * q
  BY <1>1, <1>3, <1>4
<1>6. k < MAX_COPY_THREADS
  <2> SUFFICES ASSUME k >= MAX_COPY_THREADS PROVE FALSE
    BY <1>5, ChunksAssumption
  <2>1. k * q >= MAX_COPY_THREADS * q
    BY <1>1, <1>5, ChunksAssumption
  <2> QED
    BY <2>1, <1>1, <1>3, <1>5, ChunksAssumption
<1>7. k \in Copier
  BY <1>5, <1>6, ChunksAssumption DEF Copier
<1>8. i \in Chunk(k)
  BY <1>1, <1>3, <1>5 DEF Chunk
<1> QED
  BY <1>7, <1>8

\* Nor do they reach past the page.
LEMMA ChunkInCell == \A k \in Copier : Chunk(k) \subseteq Cell
<1> DEFINE q == Length \div MAX_COPY_THREADS
<1>1. q \in Nat /\ Length = q * MAX_COPY_THREADS
  BY ChunksAssumption
<1>2. SUFFICES ASSUME NEW k \in Copier, NEW i \in Chunk(k) PROVE i \in Cell
  OBVIOUS
<1>3. k \in Nat /\ k + 1 <= MAX_COPY_THREADS
  BY ChunksAssumption DEF Copier
<1>4. i \in Int /\ k * q <= i /\ i <= (k + 1) * q - 1
  BY <1>1, <1>3 DEF Chunk
<1>5. 0 <= k * q /\ (k + 1) * q <= MAX_COPY_THREADS * q
  BY <1>1, <1>3, ChunksAssumption
<1>6. 0 <= i /\ i <= Length - 1
  BY <1>1, <1>3, <1>4, <1>5, ChunksAssumption
<1> QED
  BY <1>4, <1>6, ChunksAssumption DEF Cell

\* The lock's holder, and none of the other threads, is None.
LEMMA Threads == /\ None \notin Client /\ None \notin Region /\ None \notin Job
                 /\ \A c \in Client : c \notin Copier /\ c \in Thread
                 /\ \A k \in Copier : k \notin Client /\ k \in Thread
  BY ThreadsAssumption, NoneAssumption DEF Thread

\* What a copy writes is a cell's value.
LEMMA WrittenType ==
  ASSUME NEW j \in Job, NEW i \in Cell, content \in [Region -> [Cell -> CellValue]]
  PROVE  Written(j, i) \in CellValue
<1>1. j.src \in Region \cup {None}
  BY DEF Job
<1>2. CASE j.src = None
  BY <1>2 DEF Written, CellValue
<1>3. CASE j.src \in Region
  BY <1>3, Threads DEF Written
<1> QED
  BY <1>1, <1>2, <1>3

\* Only the holder of the lock is between the waits.
LEMMA OnlyHolderCopies ==
  ASSUME TypeOK, HolderInv, NEW c \in Client, Copying(c)
  PROVE  lock = c /\ lock # None
  BY Threads DEF HolderInv, Copying

\* The barrier releases the copy threads and the holder, all from the same wait.
LEMMA BarrierReleases ==
  ASSUME CopyInv, NEW t \in Thread, AtBarrier(t), ~(Cardinality(waiting) < MAX_COPY_THREADS)
  PROVE  /\ lock \in Client /\ lock # None /\ Copying(lock)
         /\ waiting \cup {t} = Copier \cup {lock}
         /\ \A k \in Copier : pc[k] = pc[lock]
<1> DEFINE All == Copier \cup {lock}
           W   == waiting \cup {t}
<1>1. W \subseteq All
  BY Threads DEF CopyInv, TypeOK, HolderInv, WaitInv, AtBarrier, Thread
<1>2. IsFiniteSet(Copier) /\ Cardinality(Copier) = MAX_COPY_THREADS
  BY FS_Interval, ChunksAssumption DEF Copier
<1>3. lock \notin Copier => IsFiniteSet(All) /\ Cardinality(All) = MAX_COPY_THREADS + 1
  BY <1>2, FS_AddElement
<1>4. IsFiniteSet(waiting)
  <2>1. IsFiniteSet(All)
    BY <1>2, FS_AddElement
  <2> QED
    BY <2>1, <1>1, FS_Subset
<1>5. Cardinality(waiting) \in Nat /\ Cardinality(W) = Cardinality(waiting) + 1 /\ IsFiniteSet(W)
  BY <1>4, FS_AddElement, FS_CardinalityType DEF AtBarrier
<1>6. Cardinality(W) \in Nat /\ Cardinality(W) > MAX_COPY_THREADS
  BY <1>5, ChunksAssumption
<1>7. ~(W \subseteq Copier)
  <2> SUFFICES ASSUME W \subseteq Copier PROVE FALSE
    OBVIOUS
  <2>1. Cardinality(W) <= Cardinality(Copier)
    BY <1>2, FS_Subset
  <2> QED
    BY <2>1, <1>2, <1>6, ChunksAssumption
<1>8. lock \in W /\ lock \notin Copier
  BY <1>1, <1>7
<1>9. lock \in Client /\ lock # None /\ Copying(lock)
  BY <1>8, Threads DEF CopyInv, TypeOK, WaitInv, AtBarrier, Copying, Thread
<1>10. W = All
  <2>1. Cardinality(W) <= MAX_COPY_THREADS + 1
    BY <1>1, <1>3, <1>8, FS_Subset
  <2>2. Cardinality(W) = Cardinality(All)
    BY <2>1, <1>3, <1>6, <1>8, ChunksAssumption
  <2> QED
    BY <2>2, <1>1, <1>3, <1>8, FS_Subset
<1>11. ASSUME NEW k \in Copier PROVE pc[k] = pc[lock]
  <2>1. pc[k] \in {"start", "finish"}
    BY <1>10 DEF CopyInv, WaitInv, AtBarrier
  <2>2. pc[k] = "start" <=> ~(pc[lock] = "finish")
    BY <1>9 DEF CopyInv, WorkInv, Working
  <2>3. pc[lock] \in {"start", "finish"}
    BY <1>9 DEF Copying
  <2> QED
    BY <2>1, <2>2, <2>3
<1> QED
  BY <1>9, <1>10, <1>11

-----------------------------------------------------------------------------
(* Every step preserves the invariant.                                      *)

\* The invariant holds when the copy threads have been started.
LEMMA InitInv == Init => CopyInv
<1> SUFFICES ASSUME Init PROVE CopyInv
  OBVIOUS
<1>1. \A t \in Thread : pc[t] = IF t \in Client THEN "idle" ELSE "start"
  BY DEF Init
<1>2. /\ \A c \in Client : pc[c] = "idle" /\ call[c] = None
      /\ \A k \in Copier : pc[k] = "start"
  BY <1>1, Threads DEF Init
<1>3. TypeOK
  <2>1. content \in [Region -> [Cell -> CellValue]]
    BY DEF Init, CellValue
  <2>2. pc \in [Thread -> ClientStates \cup CopierStates]
    BY DEF Init, ClientStates, CopierStates
  <2> QED
    BY <1>2, <2>1, <2>2 DEF Init, TypeOK, ClientStates, CopierStates
<1>4. HolderInv /\ CallInv /\ WaitInv
  BY <1>2, Threads DEF Init, HolderInv, CallInv, WaitInv
<1>5. WorkInv
  BY <1>2 DEF Init, WorkInv, Working
<1> QED
  BY <1>3, <1>4, <1>5 DEF CopyInv

\* A client that takes the lock and posts the jobs.
LEMMA BeginKeeps ==
  ASSUME CopyInv, NEW c \in Client, NEW d \in Region, NEW s \in Region \cup {None}, Begin(c, d, s)
  PROVE  CopyInv'
<1> USE DEF CopyInv
<1>1. /\ pc[c] = "idle" /\ s # d /\ lock # c
      /\ UNCHANGED <<content, job, lock, waiting, mine>>
  BY DEF Begin, HolderInv
<1>2. \A t \in Thread : pc'[t] = IF t = c THEN "lock" ELSE pc[t]
  BY DEF Begin, TypeOK
<1>3. [dst |-> d, src |-> s] \in Job
  BY DEF Job
<1>4. \A b \in Client : call'[b] = IF b = c THEN [dst |-> d, src |-> s] ELSE call[b]
  BY DEF Begin, TypeOK
<1>5. TypeOK'
  BY <1>1, <1>2, <1>3, Threads DEF Begin, TypeOK, ClientStates
<1>6. HolderInv' /\ WaitInv'
  BY <1>1, <1>2, Threads DEF HolderInv, WaitInv, TypeOK
<1>7. CallInv'
  BY <1>1, <1>2, <1>3, <1>4, Threads DEF CallInv
<1>8. WorkInv'
  <2>1. lock # None => lock \in Client /\ pc'[lock] = pc[lock] /\ call'[lock] = call[lock]
    BY <1>1, <1>2, <1>4, Threads DEF TypeOK
  <2>2. \A k \in Copier : pc'[k] = pc[k]
    BY <1>2, Threads
  <2> QED
    BY <1>1, <2>1, <2>2 DEF WorkInv, Working, Copying, Ready, Written
<1> QED
  BY <1>5, <1>6, <1>7, <1>8

\* No copy thread is at work when the job is set.
LEMMA SetJobKeeps ==
  ASSUME CopyInv, NEW c \in Client, SetJob(c)
  PROVE  CopyInv' /\ call[c] \in Job /\ (\A k \in Copier : pc[k] = "start")
<1> USE DEF CopyInv
<1>1. /\ pc[c] = "lock" /\ lock = None /\ lock' = c /\ job' = call[c] /\ c # None
      /\ UNCHANGED <<content, waiting, call, mine>>
  BY Threads DEF SetJob, LockFree
<1>2. \A t \in Thread : pc'[t] = IF t = c THEN "start" ELSE pc[t]
  BY DEF SetJob, TypeOK
<1>3. call[c] \in Job
  BY <1>1 DEF CallInv, TypeOK
<1>4. \A k \in Copier : pc[k] = "start" /\ pc'[k] = "start"
  BY <1>1, <1>2, Threads DEF WorkInv, Working
<1>5. TypeOK'
  BY <1>1, <1>2, <1>3, Threads DEF SetJob, TypeOK, ClientStates
<1>6. HolderInv' /\ CallInv' /\ WaitInv'
  BY <1>1, <1>2, Threads DEF HolderInv, CallInv, WaitInv, TypeOK
<1>7. WorkInv'
  <2>1. pc'[c] = "start"
    BY <1>2, Threads
  <2> QED
    BY <1>1, <1>4, <2>1 DEF WorkInv, Working
<1> QED
  BY <1>3, <1>4, <1>5, <1>6, <1>7

\* A client that returns.
LEMMA ReturnKeeps ==
  ASSUME CopyInv, NEW c \in Client, Return(c)
  PROVE  CopyInv'
<1> USE DEF CopyInv
<1>1. /\ pc[c] = "unlock" /\ lock = c /\ lock' = None /\ c # None
      /\ UNCHANGED <<content, job, waiting, mine>>
  BY Threads DEF Return, HolderInv
<1>2. \A t \in Thread : pc'[t] = IF t = c THEN "idle" ELSE pc[t]
  BY DEF Return, TypeOK
<1>3. \A b \in Client : call'[b] = IF b = c THEN None ELSE call[b]
  BY DEF Return, TypeOK
<1>4. \A k \in Copier : pc[k] = "start" /\ pc'[k] = "start"
  BY <1>1, <1>2, Threads DEF WorkInv, Working
<1>5. TypeOK'
  BY <1>1, <1>2, Threads DEF Return, TypeOK, ClientStates
<1>6. HolderInv' /\ CallInv' /\ WaitInv'
  BY <1>1, <1>2, <1>3, Threads DEF HolderInv, CallInv, WaitInv, TypeOK
<1>7. WorkInv'
  BY <1>1, <1>4 DEF WorkInv, Working
<1> QED
  BY <1>5, <1>6, <1>7

\* A copy thread that reads its job.
LEMMA ReadJobKeeps ==
  ASSUME CopyInv, NEW k \in Copier, ReadJob(k)
  PROVE  CopyInv'
<1> USE DEF CopyInv
<1>1. /\ pc[k] = "read"
      /\ UNCHANGED <<content, job, lock, waiting, call>>
  BY DEF ReadJob
<1>2. \A t \in Thread : pc'[t] = IF t = k THEN "copy" ELSE pc[t]
  BY DEF ReadJob, TypeOK
<1>3. \A h \in Copier : mine'[h] = IF h = k THEN job ELSE mine[h]
  BY DEF ReadJob, TypeOK
<1>4. \A c \in Client : pc'[c] = pc[c]
  BY <1>2, Threads
<1>5. TypeOK'
  BY <1>1, <1>2, Threads DEF ReadJob, TypeOK, CopierStates
<1>6. HolderInv' /\ CallInv' /\ WaitInv'
  BY <1>1, <1>2, <1>4 DEF HolderInv, CallInv, WaitInv, TypeOK
<1>7. WorkInv'
  <2>1. lock # None => pc'[lock] = pc[lock]
    BY <1>4 DEF TypeOK
  <2>2. (Working' <=> Working) /\ (lock # None => (Copying(lock)' <=> Copying(lock)))
    BY <1>1, <2>1 DEF Working, Copying
  <2>3. \A h \in Copier : Ready(h)' <=> Ready(h)
    BY <1>1 DEF Ready, Written
  <2>4. \A h \in Copier : pc'[h] = IF h = k THEN "copy" ELSE pc[h]
    BY <1>2, Threads
  <2> QED
    BY <1>1, <1>3, <2>2, <2>3, <2>4 DEF WorkInv
<1> QED
  BY <1>5, <1>6, <1>7

\* A copy thread at work has the holder's job.
LEMMA AtWork ==
  ASSUME CopyInv, NEW k \in Copier, pc[k] # "start"
  PROVE  /\ lock \in Client /\ lock # None /\ pc[lock] = "finish" /\ Copying(lock)
         /\ job = call[lock] /\ job \in Job /\ job.dst \in Region /\ job.src # job.dst
         /\ pc[k] \in {"copy", "finish"} => mine[k] = job
<1>1. lock \in Client /\ lock # None /\ pc[lock] = "finish" /\ Copying(lock) /\ job = call[lock]
  BY DEF CopyInv, TypeOK, WorkInv, Working, Copying
<1>2. call[lock] \in Job /\ call[lock].src # call[lock].dst
  BY <1>1 DEF CopyInv, CallInv, TypeOK
<1>3. call[lock].dst \in Region
  BY <1>2 DEF Job
<1> QED
  BY <1>1, <1>2, <1>3 DEF CopyInv, WorkInv

\* A chunk is copied; no other page, and no page that is copied from, changes.
LEMMA CopyChunkKeeps ==
  ASSUME CopyInv, NEW k \in Copier, CopyChunk(k)
  PROVE  /\ CopyInv'
         /\ job' = job /\ lock' = lock /\ call' = call
         /\ \A r \in Region \ {job.dst} : content'[r] = content[r]
         /\ \A t \in Thread : t # k => pc'[t] = pc[t]
<1> USE DEF CopyInv
<1>1. /\ pc[k] = "copy"
      /\ UNCHANGED <<job, lock, waiting, call, mine>>
  BY DEF CopyChunk
<1>2. \A t \in Thread : pc'[t] = IF t = k THEN "finish" ELSE pc[t]
  BY DEF CopyChunk, Copied, TypeOK
<1>3. /\ lock \in Client /\ lock # None /\ pc[lock] = "finish" /\ job = call[lock]
      /\ job \in Job /\ job.dst \in Region /\ job.src # job.dst /\ mine[k] = job
  BY <1>1, AtWork
<1>4. content' = [content EXCEPT ![job.dst] =
                    [i \in Cell |-> IF i \in Chunk(k) THEN Written(job, i) ELSE content[job.dst][i]]]
  BY <1>3 DEF CopyChunk, TypeOK
<1>5. \A r \in Region \ {job.dst} : content'[r] = content[r]
  BY <1>4 DEF TypeOK
<1>6. \A i \in Cell : content'[job.dst][i] = IF i \in Chunk(k) THEN Written(job, i)
                                               ELSE content[job.dst][i]
  BY <1>3, <1>4 DEF TypeOK
<1>7. \A i \in Cell : Written(job, i)' = Written(job, i)
  <2>1. job.src \in Region \cup {None}
    BY <1>3 DEF Job
  <2> QED
    BY <1>1, <1>3, <1>5, <2>1 DEF Written
<1>8. \A c \in Client : pc'[c] = pc[c]
  BY <1>2, Threads
<1>9. TypeOK'
  <2>1. \A i \in Cell : Written(job, i) \in CellValue
    BY <1>3, WrittenType DEF TypeOK
  <2>2. [i \in Cell |-> IF i \in Chunk(k) THEN Written(job, i) ELSE content[job.dst][i]]
          \in [Cell -> CellValue]
    BY <1>3, <2>1 DEF TypeOK
  <2>3. content' \in [Region -> [Cell -> CellValue]]
    BY <1>4, <2>2 DEF TypeOK
  <2>4. pc' \in [Thread -> ClientStates \cup CopierStates]
    BY DEF CopyChunk, Copied, TypeOK, CopierStates
  <2> QED
    BY <1>1, <1>2, <1>8, <2>3, <2>4, Threads DEF TypeOK, CopierStates
<1>10. HolderInv' /\ CallInv' /\ WaitInv'
  BY <1>1, <1>2, <1>8 DEF HolderInv, CallInv, WaitInv, TypeOK
<1>11. WorkInv'
  <2>1. (Working' <=> Working) /\ (Copying(lock)' <=> Copying(lock))
    BY <1>1, <1>3, <1>8 DEF Working, Copying
  <2>2. \A h \in Copier : pc'[h] = IF h = k THEN "finish" ELSE pc[h]
    BY <1>2, Threads
  <2>3. ASSUME NEW h \in Copier, pc'[h] = "finish" PROVE Ready(h)'
    <3> SUFFICES ASSUME NEW i \in Chunk(h) PROVE content'[job.dst][i] = Written(job, i)'
      BY <1>1 DEF Ready
    <3>1. i \in Cell
      BY ChunkInCell
    <3>2. CASE i \in Chunk(k)
      BY <3>1, <3>2, <1>6, <1>7
    <3>3. CASE i \notin Chunk(k)
      <4>1. h # k /\ pc[h] = "finish"
        BY <3>3, <2>2, <2>3
      <4>2. content[job.dst][i] = Written(job, i)
        BY <4>1 DEF WorkInv, Ready
      <4> QED
        BY <3>1, <3>3, <4>2, <1>6, <1>7
    <3> QED
      BY <3>2, <3>3
  <2> QED
    BY <1>1, <1>3, <2>1, <2>2, <2>3 DEF WorkInv
<1> QED
  BY <1>1, <1>2, <1>5, <1>9, <1>10, <1>11

\* Not everyone is at the barrier yet: nobody moves.
LEMMA WaitKeeps ==
  ASSUME CopyInv, NEW t \in Thread, Arrive(t), Cardinality(waiting) < MAX_COPY_THREADS
  PROVE  CopyInv' /\ UNCHANGED <<content, job, lock, pc, call, mine>>
<1>1. waiting' = waiting \cup {t} /\ UNCHANGED <<content, job, lock, pc, call, mine>>
  BY DEF Arrive
<1>2. pc[t] \in {"start", "finish"}
  BY DEF Arrive, AtBarrier
<1>3. TypeOK' /\ HolderInv' /\ CallInv' /\ WaitInv'
  BY <1>1, <1>2 DEF CopyInv, TypeOK, HolderInv, CallInv, WaitInv
<1>4. WorkInv'
  BY <1>1 DEF CopyInv, WorkInv, Working, Copying, Ready, Written
<1> QED
  BY <1>1, <1>3, <1>4 DEF CopyInv

\* What the release of the barrier does.
LEMMA ReleaseMoves ==
  ASSUME CopyInv, NEW t \in Thread, Arrive(t), ~(Cardinality(waiting) < MAX_COPY_THREADS)
  PROVE  /\ lock \in Client /\ lock # None
         /\ waiting' = {} /\ UNCHANGED <<content, job, lock, call, mine>>
         /\ \A c \in Client : c # lock => pc'[c] = pc[c]
         /\ \/ /\ pc[lock] = "start" /\ pc'[lock] = "finish"
               /\ \A k \in Copier : pc[k] = "start" /\ pc'[k] = "read"
            \/ /\ pc[lock] = "finish" /\ pc'[lock] = "unlock"
               /\ \A k \in Copier : pc[k] = "finish" /\ pc'[k] = "start"
         /\ pc' \in [Thread -> ClientStates \cup CopierStates]
<1>1. AtBarrier(t)
  BY DEF Arrive
<1>2. /\ lock \in Client /\ lock # None /\ pc[lock] \in {"start", "finish"}
      /\ waiting \cup {t} = Copier \cup {lock}
      /\ \A k \in Copier : pc[k] = pc[lock]
  BY <1>1, BarrierReleases DEF Copying
<1>3. /\ waiting' = {} /\ UNCHANGED <<content, job, lock, call, mine>>
      /\ pc' = [u \in Thread |-> IF u \in Copier \cup {lock} THEN Passed(u) ELSE pc[u]]
  BY <1>2 DEF Arrive
<1>4. \A c \in Client : c # lock => pc'[c] = pc[c]
  BY <1>3, Threads
<1>5. pc'[lock] = Passed(lock) /\ \A k \in Copier : pc'[k] = Passed(k)
  BY <1>2, <1>3, Threads
<1>6. CASE pc[lock] = "start"
  <2>1. pc'[lock] = "finish" /\ \A k \in Copier : pc[k] = "start" /\ pc'[k] = "read"
    BY <1>2, <1>5, <1>6, Threads DEF Passed
  <2>2. \A u \in Thread : u \in Copier \cup {lock} => Passed(u) \in ClientStates \cup CopierStates
    BY <1>2, <1>6 DEF Passed, ClientStates, CopierStates
  <2>3. pc' \in [Thread -> ClientStates \cup CopierStates]
    BY <1>3, <2>2 DEF CopyInv, TypeOK
  <2> QED
    BY <1>2, <1>3, <1>4, <1>6, <2>1, <2>3
<1>7. CASE pc[lock] = "finish"
  <2>1. pc'[lock] = "unlock" /\ \A k \in Copier : pc[k] = "finish" /\ pc'[k] = "start"
    BY <1>2, <1>5, <1>7, Threads DEF Passed
  <2>2. \A u \in Thread : u \in Copier \cup {lock} => Passed(u) \in ClientStates \cup CopierStates
    BY <1>2, <1>7 DEF Passed, ClientStates, CopierStates
  <2>3. pc' \in [Thread -> ClientStates \cup CopierStates]
    BY <1>3, <2>2 DEF CopyInv, TypeOK
  <2> QED
    BY <1>2, <1>3, <1>4, <1>7, <2>1, <2>3
<1> QED
  BY <1>2, <1>6, <1>7

\* The last thread at a barrier releases it.
LEMMA ReleaseKeeps ==
  ASSUME CopyInv, NEW t \in Thread, Arrive(t), ~(Cardinality(waiting) < MAX_COPY_THREADS)
  PROVE  CopyInv'
<1> USE DEF CopyInv
<1>1. /\ lock \in Client /\ lock # None
      /\ waiting' = {} /\ UNCHANGED <<content, job, lock, call, mine>>
      /\ \A c \in Client : c # lock => pc'[c] = pc[c]
      /\ pc' \in [Thread -> ClientStates \cup CopierStates]
  BY ReleaseMoves
<1>2. \/ /\ pc[lock] = "start" /\ pc'[lock] = "finish"
         /\ \A k \in Copier : pc[k] = "start" /\ pc'[k] = "read"
      \/ /\ pc[lock] = "finish" /\ pc'[lock] = "unlock"
         /\ \A k \in Copier : pc[k] = "finish" /\ pc'[k] = "start"
  BY ReleaseMoves
<1>3. TypeOK'
  <2>1. /\ \A c \in Client : pc'[c] \in ClientStates
        /\ \A k \in Copier : pc'[k] \in CopierStates
    BY <1>1, <1>2 DEF TypeOK, ClientStates, CopierStates
  <2> QED
    BY <1>1, <2>1 DEF TypeOK
<1>4. HolderInv'
  BY <1>1, <1>2 DEF HolderInv
<1>5. CallInv' /\ WaitInv'
  BY <1>1, <1>2 DEF CallInv, WaitInv
<1>6. WorkInv'
  BY <1>1, <1>2 DEF WorkInv, Working, Copying
<1> QED
  BY <1>3, <1>4, <1>5, <1>6

\* The invariant holds in every state.
THEOREM CopyInvariant == Spec => []CopyInv
<1>1. CopyInv /\ [Next]_vars => CopyInv'
  <2> SUFFICES ASSUME CopyInv, [Next]_vars PROVE CopyInv'
    OBVIOUS
  <2>1. ASSUME NEW c \in Client, SetJob(c) PROVE CopyInv'
    BY <2>1, SetJobKeeps
  <2>2. ASSUME NEW t \in Thread, Arrive(t) PROVE CopyInv'
    BY <2>2, WaitKeeps, ReleaseKeeps
  <2>3. ASSUME NEW c \in Client, Return(c) PROVE CopyInv'
    BY <2>3, ReturnKeeps
  <2>4. ASSUME NEW c \in Client, NEW d \in Region, NEW s \in Region \cup {None}, Begin(c, d, s)
        PROVE  CopyInv'
    BY <2>4, BeginKeeps
  <2>5. ASSUME NEW k \in Copier, ReadJob(k) PROVE CopyInv'
    BY <2>5, ReadJobKeeps
  <2>6. ASSUME NEW k \in Copier, CopyChunk(k) PROVE CopyInv'
    BY <2>6, CopyChunkKeeps
  <2>7. CASE UNCHANGED vars
    <3>1. TypeOK' /\ HolderInv' /\ CallInv' /\ WaitInv'
      BY <2>7 DEF vars, CopyInv, TypeOK, HolderInv, CallInv, WaitInv
    <3>2. WorkInv'
      BY <2>7 DEF vars, CopyInv, WorkInv, Working, Copying, Ready, Written
    <3> QED
      BY <3>1, <3>2 DEF CopyInv
  <2> QED
    BY <2>1, <2>2, <2>3, <2>4, <2>5, <2>6, <2>7, Threads DEF Next, ClientStep, CopierStep
<1> QED
  BY InitInv, <1>1, PTL DEF Spec

\* While a copy thread reads and does its job no client changes it, and the
\* job it has taken is that of the client that waits for it.
THEOREM JobsAreStable == Spec => JobIsStable
<1> DEFINE Stable == \A k \in Copier : pc[k] \in {"read", "copy"} =>
                       /\ job' = job
                       /\ mine'[k] # mine[k] => \E c \in Client : lock = c /\ mine'[k] = call[c]
<1>1. CopyInv /\ [Next]_vars => [Stable]_vars
  <2> SUFFICES ASSUME CopyInv, Next, NEW k \in Copier, pc[k] \in {"read", "copy"}
               PROVE  /\ job' = job
                      /\ mine'[k] # mine[k] => \E c \in Client : lock = c /\ mine'[k] = call[c]
    OBVIOUS
  <2>1. lock \in Client /\ lock # None /\ job = call[lock]
    BY AtWork
  <2>2. job' = job
    BY <2>1 DEF Next, ClientStep, CopierStep, Begin, SetJob, LockFree, Return, ReadJob, CopyChunk, Arrive
  <2>3. ASSUME mine'[k] # mine[k] PROVE mine'[k] = job
    BY <2>3 DEF Next, ClientStep, CopierStep, Begin, SetJob, Return, ReadJob, CopyChunk, Arrive,
                CopyInv, TypeOK
  <2> QED
    BY <2>1, <2>2, <2>3
<1> QED
  BY CopyInvariant, <1>1, PTL DEF Spec, JobIsStable

-----------------------------------------------------------------------------
(* Each step is a step of the service, or none at all.                      *)

\* The service sees a change when the job is set, and nowhere else.
LEMMA MemWhenFree == ASSUME CopyInv, ~(lock # None /\ Copying(lock)) PROVE Mem = content
  BY DEF CopyInv, TypeOK, Mem

\* Only the client that holds the lock can be done.
LEMMA DoneIsHolder == ASSUME CopyInv PROVE Done = {c \in Client : lock = c}
  BY DEF CopyInv, HolderInv, Done, Copying

\* A client's call is written down, or a copy thread reads the job.
LEMMA StutterMem ==
  ASSUME CopyInv, UNCHANGED <<content, lock>>,
         lock # None => pc'[lock] = pc[lock] /\ call'[lock] = call[lock]
  PROVE  Mem' = Mem
<1>1. ASSUME lock # None
      PROVE (Copying(lock)' <=> Copying(lock)) /\ call'[lock] = call[lock]
  BY <1>1 DEF Copying
<1>2. ASSUME NEW i \in Cell, lock # None PROVE Written(call[lock], i)' = Written(call[lock], i)
  BY <1>1, <1>2 DEF Written
<1> QED
  BY <1>1, <1>2 DEF Mem

\* Posting the jobs starts an atomic copy.
LEMMA BeginImplements ==
  ASSUME CopyInv, NEW c \in Client, NEW d \in Region, NEW s \in Region \cup {None}, Begin(c, d, s)
  PROVE  Service!Begin(c, d, s)
<1>1. pc[c] = "idle" /\ call[c] = None /\ lock # c /\ UNCHANGED <<content, lock>>
  BY DEF Begin, CopyInv, CallInv, HolderInv
<1>2. lock # None => lock \in Client /\ pc'[lock] = pc[lock] /\ call'[lock] = call[lock]
  BY <1>1, Threads DEF Begin, CopyInv, TypeOK
<1>3. Mem' = Mem
  BY <1>1, <1>2, StutterMem
<1>4. Done' = Done
  <2>1. \A b \in Client : pc'[b] = IF b = c THEN "lock" ELSE pc[b]
    BY Threads DEF Begin, CopyInv, TypeOK
  <2> QED
    BY <1>1, <2>1 DEF Done, Copying
<1> QED
  BY <1>1, <1>3, <1>4 DEF Begin, Service!Begin

\* The call takes effect.
LEMMA SetJobImplements ==
  ASSUME CopyInv, NEW c \in Client, SetJob(c)
  PROVE  Service!Do(c)
<1>1. /\ pc[c] = "lock" /\ lock = None /\ lock' = c /\ c # None
      /\ UNCHANGED <<content, call>> /\ call[c] \in Job
  BY SetJobKeeps, Threads DEF SetJob, LockFree
<1>2. \A b \in Client : pc'[b] = IF b = c THEN "start" ELSE pc[b]
  BY Threads DEF SetJob, CopyInv, TypeOK
<1>3. Mem = content
  BY <1>1, MemWhenFree
<1>4. Copying(c)'
  BY <1>2 DEF Copying
<1>5. Mem' = [r \in Region |-> IF call[c].dst = r THEN [i \in Cell |-> Written(call[c], i)]
                                                   ELSE content[r]]
  BY <1>1, <1>4 DEF Mem, Written
<1>6. call[c].dst \in Region /\ call[c].src \in Region \cup {None}
  BY <1>1 DEF Job
<1>7. [i \in Cell |-> Written(call[c], i)]
        = IF call[c].src = None THEN [i \in Cell |-> Blank] ELSE content[call[c].src]
  BY <1>6 DEF Written, CopyInv, TypeOK
<1>8. Mem' = [Mem EXCEPT ![call[c].dst] = IF call[c].src = None THEN [i \in Cell |-> Blank]
                                          ELSE Mem[call[c].src]]
  BY <1>3, <1>5, <1>6, <1>7 DEF CopyInv, TypeOK
<1>9. c \notin Done /\ Done' = Done \cup {c}
  BY <1>1, <1>2 DEF Done, Copying
<1> QED
  BY <1>1, <1>8, <1>9, Threads DEF Service!Do

\* Returning ends it.
LEMMA ReturnImplements ==
  ASSUME CopyInv, NEW c \in Client, Return(c)
  PROVE  Service!End(c)
<1>1. /\ pc[c] = "unlock" /\ lock = c /\ lock' = None /\ content' = content
      /\ call' = [call EXCEPT ![c] = None]
  BY DEF Return, CopyInv, HolderInv
<1>2. Mem = content
  BY <1>1, MemWhenFree DEF Copying
<1>3. Mem' = content
  BY <1>1 DEF Mem, CopyInv, TypeOK
<1>4. \A b \in Client : pc'[b] = IF b = c THEN "idle" ELSE pc[b]
  BY Threads DEF Return, CopyInv, TypeOK
<1>5. c \in Done /\ Done' = Done \ {c}
  BY <1>1, <1>4 DEF Done, Copying
<1> QED
  BY <1>1, <1>2, <1>3, <1>5 DEF Service!End

\* Reading a job changes nothing the abstract copy shows.
LEMMA ReadJobImplements ==
  ASSUME CopyInv, NEW k \in Copier, ReadJob(k)
  PROVE  UNCHANGED <<Mem, call, Done>>
<1>1. UNCHANGED <<content, lock, call>>
  BY DEF ReadJob
<1>2. \A c \in Client : pc'[c] = pc[c]
  BY Threads DEF ReadJob, CopyInv, TypeOK
<1>3. Mem' = Mem
  BY <1>1, <1>2, StutterMem DEF CopyInv, TypeOK
<1> QED
  BY <1>1, <1>2, <1>3 DEF Done, Copying

\* The destination has changed already, as the callers see it.
LEMMA CopyChunkImplements ==
  ASSUME CopyInv, NEW k \in Copier, CopyChunk(k)
  PROVE  UNCHANGED <<Mem, call, Done>>
<1>1. /\ job' = job /\ lock' = lock /\ call' = call
      /\ \A r \in Region \ {job.dst} : content'[r] = content[r]
      /\ \A c \in Client : pc'[c] = pc[c]
  BY CopyChunkKeeps, Threads
<1>2. /\ lock \in Client /\ lock # None /\ pc[lock] = "finish" /\ Copying(lock)
      /\ job = call[lock] /\ job \in Job /\ job.src # job.dst
  BY AtWork DEF CopyChunk
<1>3. \A i \in Cell : Written(job, i)' = Written(job, i)
  <2>1. job.src \in Region \cup {None}
    BY <1>2 DEF Job
  <2> QED
    BY <1>1, <1>2, <2>1 DEF Written
<1>4. Copying(lock)'
  BY <1>1, <1>2 DEF Copying
<1>5. Mem' = [r \in Region |-> IF job.dst = r THEN [i \in Cell |-> Written(job, i)]
                                              ELSE content'[r]]
  <2>1. Mem' = [r \in Region |-> IF job.dst = r THEN [i \in Cell |-> Written(job, i)']
                                                ELSE content'[r]]
    BY <1>1, <1>2, <1>4 DEF Mem
  <2> QED
    BY <2>1, <1>3
<1>6. Mem = [r \in Region |-> IF job.dst = r THEN [i \in Cell |-> Written(job, i)]
                                             ELSE content[r]]
  BY <1>2 DEF Mem
<1>7. Mem' = Mem
  BY <1>1, <1>5, <1>6
<1> QED
  BY <1>1, <1>7 DEF Done, Copying

\* When the copy threads leave the second wait the page is what the callers
\* have seen all along.
LEMMA ArriveImplements ==
  ASSUME CopyInv, NEW t \in Thread, Arrive(t)
  PROVE  UNCHANGED <<Mem, call, Done>>
<1>1. CASE Cardinality(waiting) < MAX_COPY_THREADS
  <2>1. UNCHANGED <<content, lock, pc, call>>
    BY <1>1, WaitKeeps
  <2> QED
    BY <2>1 DEF Mem, Done, Copying, Written
<1>2. CASE ~(Cardinality(waiting) < MAX_COPY_THREADS)
  <2>1. /\ lock \in Client /\ lock # None
        /\ UNCHANGED <<content, job, lock, call, mine>>
        /\ \A c \in Client : c # lock => pc'[c] = pc[c]
    BY <1>2, ReleaseMoves
  <2>2. CASE pc[lock] = "start" /\ pc'[lock] = "finish"
    <3>1. Copying(lock) /\ Copying(lock)'
      BY <2>1, <2>2 DEF Copying
    <3>2. Mem' = Mem
      BY <2>1, <3>1 DEF Mem, Written
    <3>3. Done' = Done
      BY <2>1, <2>2 DEF Done, Copying
    <3> QED
      BY <2>1, <3>2, <3>3
  <2>3. CASE pc[lock] = "finish" /\ pc'[lock] = "unlock" /\ \A k \in Copier : pc[k] = "finish"
    <3>1. Copying(lock) /\ ~Copying(lock)'
      BY <2>1, <2>3 DEF Copying
    <3>2. job = call[lock] /\ call[lock] \in Job /\ call[lock].dst \in Region
      BY <2>1, <3>1 DEF CopyInv, WorkInv, CallInv, TypeOK, Copying, HolderInv, Job
    <3>3. \A i \in Cell : content[call[lock].dst][i] = Written(call[lock], i)
      BY <2>3, <3>2, ChunksCover DEF CopyInv, WorkInv, Ready
    <3>4. content[call[lock].dst] = [i \in Cell |-> Written(call[lock], i)]
      BY <3>2, <3>3 DEF CopyInv, TypeOK
    <3>5. Mem = content
      BY <2>1, <3>1, <3>2, <3>4 DEF Mem, CopyInv, TypeOK
    <3>6. Mem' = content
      BY <2>1, <3>1 DEF Mem, CopyInv, TypeOK
    <3>7. Done' = Done
      BY <2>1, <2>3 DEF Done, Copying
    <3> QED
      BY <2>1, <3>5, <3>6, <3>7
  <2> QED
    BY <1>2, <2>2, <2>3, ReleaseMoves
<1> QED
  BY <1>1, <1>2

\* However the threads interleave, a copy is one step between its call and its
\* return.
THEOREM CopiesAreAtomic == Spec => ImplementsAtomicCopy
<1>1. Init => Service!Init
  <2> SUFFICES ASSUME Init PROVE Service!Init
    OBVIOUS
  <2>1. \A c \in Client : pc[c] = "idle"
    BY Threads DEF Init
  <2>2. Done = {}
    BY <2>1 DEF Done, Copying
  <2> QED
    BY <2>2 DEF Init, Service!Init
<1>2. CopyInv /\ [Next]_vars => [Service!Next]_(Service!avars)
  <2> SUFFICES ASSUME CopyInv, [Next]_vars
               PROVE  Service!Next \/ UNCHANGED <<Mem, call, Done>>
    BY DEF Service!avars
  <2>1. ASSUME NEW c \in Client, SetJob(c) PROVE Service!Next
    BY <2>1, SetJobImplements DEF Service!Next
  <2>2. ASSUME NEW t \in Thread, Arrive(t) PROVE UNCHANGED <<Mem, call, Done>>
    BY <2>2, ArriveImplements
  <2>3. ASSUME NEW c \in Client, Return(c) PROVE Service!Next
    BY <2>3, ReturnImplements DEF Service!Next
  <2>4. ASSUME NEW c \in Client, NEW d \in Region, NEW s \in Region \cup {None}, Begin(c, d, s)
        PROVE  Service!Next
    BY <2>4, BeginImplements DEF Service!Next
  <2>5. ASSUME NEW k \in Copier, ReadJob(k) PROVE UNCHANGED <<Mem, call, Done>>
    BY <2>5, ReadJobImplements
  <2>6. ASSUME NEW k \in Copier, CopyChunk(k) PROVE UNCHANGED <<Mem, call, Done>>
    BY <2>6, CopyChunkImplements
  <2>7. CASE UNCHANGED vars
    BY <2>7 DEF vars, Mem, Done, Copying, Written
  <2> QED
    BY <2>1, <2>2, <2>3, <2>4, <2>5, <2>6, <2>7, Threads DEF Next, ClientStep, CopierStep
<1> QED
  BY CopyInvariant, <1>1, <1>2, PTL DEF Spec, ImplementsAtomicCopy, Service!Spec

=============================================================================
