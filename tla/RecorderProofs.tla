--------------------------- MODULE RecorderProofs ---------------------------
(***************************************************************************)
(* The recorder writes differences of two samples only, and the arithmetic *)
(* it measures its interval with is exact.                                 *)
(***************************************************************************)
EXTENDS ResRecord, Timer, TLAPS

-----------------------------------------------------------------------------
(* res-record.c: flags that clients set without a lock.                     *)

\* `first' can be set, but not cleared, while cal_record runs: when it is clear
\* at the end it was clear for every core.
IInv ==
  /\ TypeOK
  /\ \A c \in Core : after[c] <= now
  /\ ~first => \A c \in Core : after[c] # 0
  /\ pc = "sample" => \A c \in Core \ todo : after[c] # 0
  /\ pc = "clear" => \A c \in Core : after[c] # 0
  /\ pc = "sample" /\ ~first => \A c \in Core \ todo : Measured(c)
  /\ pc = "write" => \A c \in Core : Measured(c)

\* The invariant holds in every state, for any number of cores.
THEOREM RecorderInvariant == Spec => []IInv
<1>1. Init => IInv
  <2> SUFFICES ASSUME Init PROVE IInv
    OBVIOUS
  <2>1. /\ before \in [Core -> Nat] /\ after \in [Core -> Nat] /\ record \in [Core -> Int]
        /\ now \in Nat \ {0} /\ todo \in SUBSET Core
    BY DEF Init
  <2>2. ASSUME NEW c \in Core PROVE after[c] <= now
    <3>1. after[c] = 0 /\ now = 1
      BY DEF Init
    <3>2. 0 <= 1
      OBVIOUS
    <3> QED
      BY <3>1, <3>2
  <2> QED
    BY <2>1, <2>2 DEF Init, IInv, TypeOK
<1>2. IInv /\ [Next]_vars => IInv'
  <2> SUFFICES ASSUME IInv, [Next]_vars PROVE IInv'
    OBVIOUS
  <2> USE DEF IInv, TypeOK, Measured
  <2>1. CASE Tick
    BY <2>1 DEF Tick
  <2>2. CASE SetFirst
    BY <2>2 DEF SetFirst
  <2>3. CASE SetRunning \/ Stop
    BY <2>3 DEF SetRunning, Stop
  <2>4. CASE Begin
    BY <2>4 DEF Begin
  <2>5. ASSUME NEW c \in Core, Sample(c) PROVE IInv'
    <3>1. /\ pc = "sample" /\ pc' = "sample" /\ now' = now /\ first' = first
          /\ todo' = todo \ {c}
      BY <2>5 DEF Sample
    <3>2. /\ \A d \in Core : before'[d] = IF d = c THEN after[c] ELSE before[d]
          /\ \A d \in Core : after'[d] = IF d = c THEN now ELSE after[d]
          /\ ~first => \A d \in Core : record'[d] = IF d = c THEN now - after[c] ELSE record[d]
      BY <2>5 DEF Sample
    <3>3. TypeOK'
      BY <2>5 DEF Sample
    <3> QED
      BY <3>1, <3>2, <3>3
  <2>6. CASE TestFirst
    BY <2>6 DEF TestFirst
  <2>7. CASE ClearFirst
    BY <2>7 DEF ClearFirst
  <2>8. CASE WriteRecord
    BY <2>8 DEF WriteRecord
  <2>9. CASE UNCHANGED vars
    BY <2>9 DEF vars
  <2> QED
    BY <2>1, <2>2, <2>3, <2>4, <2>5, <2>6, <2>7, <2>8, <2>9 DEF Next
<1> QED
  BY <1>1, <1>2, PTL DEF Spec

\* Every record the recorder writes is the difference of two samples.
\* (res-record.c:40-61, 96-99, 107-116.)
THEOREM RecordsAreMeasured == Spec => []RecordsAreDifferences
<1>1. IInv => RecordsAreDifferences
  BY DEF IInv, RecordsAreDifferences
<1> QED
  BY RecorderInvariant, <1>1, PTL

-----------------------------------------------------------------------------
(* timer.c: differences of times.                                           *)

\* A second has microseconds.
LEMMA MillionPositive == Million \in Nat /\ Million > 0
BY DEF Million

\* The seconds decide the sign when the microseconds are below a second.
LEMMA SecondsDecide ==
  ASSUME NEW s \in Int, NEW u \in 0 .. Million - 1
  PROVE  s < 0 <=> s * Million + u < 0
<1>1. Million \in Nat /\ Million > 0
  BY MillionPositive
<1>2. CASE s < 0
  <2>1. s * Million <= -Million
    BY <1>1, <1>2
  <2> QED
    BY <1>1, <1>2, <2>1
<1>3. CASE s >= 0
  BY <1>1, <1>3
<1> QED
  BY <1>2, <1>3

\* The borrow of timeDiff loses nothing: whatever two times it is given, in
\* either order, the result is the difference, with its microseconds below a
\* second again.  A clock that is set back gives negative seconds and not a
\* huge interval.  (timer.c:10-18.)
THEOREM DifferenceIsExact ==
  ASSUME NEW a \in Timeval, NEW b \in Timeval
  PROVE  /\ timeDiff(a, b) \in Timeval
         /\ cal_tv(timeDiff(a, b)) = cal_tv(a) - cal_tv(b)
         /\ timeDiff(a, b).tv_sec < 0 <=> cal_tv(a) < cal_tv(b)
<1>1. /\ a.tv_sec \in Int /\ a.tv_usec \in 0 .. Million - 1
      /\ b.tv_sec \in Int /\ b.tv_usec \in 0 .. Million - 1
  BY DEF Timeval
<1> DEFINE sec  == a.tv_sec - b.tv_sec
           usec == a.tv_usec - b.tv_usec
<1>2. Million \in Nat /\ Million > 0
  BY MillionPositive
<1>3. /\ cal_tv(a) - cal_tv(b) = sec * Million + usec
      /\ cal_tv(a) < cal_tv(b) <=> sec * Million + usec < 0
  BY <1>1, <1>2 DEF cal_tv
<1>4. CASE usec < 0
  <2>1. timeDiff(a, b) = [tv_sec |-> sec - 1, tv_usec |-> usec + Million]
    BY <1>4 DEF timeDiff
  <2>2. sec - 1 \in Int /\ usec + Million \in 0 .. Million - 1
    BY <1>1, <1>2, <1>4
  <2>3. timeDiff(a, b).tv_sec = sec - 1 /\ timeDiff(a, b).tv_usec = usec + Million
    BY <2>1
  <2>4. timeDiff(a, b) \in Timeval
    BY <2>1, <2>2 DEF Timeval
  <2>5. cal_tv(timeDiff(a, b)) = (sec - 1) * Million + (usec + Million)
    BY <2>3 DEF cal_tv
  <2>6. (sec - 1) * Million + (usec + Million) = sec * Million + usec
    BY <1>1, <1>2
  <2>7. sec - 1 < 0 <=> sec * Million + usec < 0
    BY <2>2, <2>6, SecondsDecide
  <2> QED
    BY <1>3, <2>3, <2>4, <2>5, <2>6, <2>7
<1>5. CASE ~(usec < 0)
  <2>1. timeDiff(a, b) = [tv_sec |-> sec, tv_usec |-> usec]
    BY <1>5 DEF timeDiff
  <2>2. sec \in Int /\ usec \in 0 .. Million - 1
    BY <1>1, <1>2, <1>5
  <2>3. timeDiff(a, b).tv_sec = sec /\ timeDiff(a, b).tv_usec = usec
    BY <2>1
  <2>4. timeDiff(a, b) \in Timeval
    BY <2>1, <2>2 DEF Timeval
  <2>5. cal_tv(timeDiff(a, b)) = (sec) * Million + (usec)
    BY <2>3 DEF cal_tv
  <2>6. (sec) * Million + (usec) = sec * Million + usec
    BY <1>1, <1>2
  <2>7. sec < 0 <=> sec * Million + usec < 0
    BY <2>2, <2>6, SecondsDecide
  <2> QED
    BY <1>3, <2>3, <2>4, <2>5, <2>6, <2>7
<1> QED
  BY <1>4, <1>5

\* Measurements taken back to back add up to the measurement of the whole: the
\* borrow neither loses a microsecond nor counts one twice.  (timer.c:30-36.)
THEOREM IntervalsAddUp ==
  ASSUME NEW s \in Timeval, NEW m \in Timeval, NEW e \in Timeval
  PROVE  elapsed_long(s, m) + elapsed_long(m, e) = elapsed_long(s, e)
<1>1. cal_tv(s) \in Int /\ cal_tv(m) \in Int /\ cal_tv(e) \in Int
  <2>1. Million \in Nat
    BY MillionPositive
  <2> QED
    BY <2>1 DEF cal_tv, Timeval
<1>2. /\ elapsed_long(s, m) = cal_tv(m) - cal_tv(s)
      /\ elapsed_long(m, e) = cal_tv(e) - cal_tv(m)
      /\ elapsed_long(s, e) = cal_tv(e) - cal_tv(s)
  BY DifferenceIsExact DEF elapsed_long
<1> QED
  BY <1>1, <1>2

=============================================================================
