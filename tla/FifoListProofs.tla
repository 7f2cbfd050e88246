--------------------------- MODULE FifoListProofs ---------------------------
(***************************************************************************)
(* For any number of entries, lists and threads: no assertion of fifo.c     *)
(* fails, a list reads the same from both ends between calls, and the      *)
(* lists are the queues of Fifo.  The invariant says that each list is a   *)
(* finite sequence of distinct entries, which the links give in both       *)
(* directions, the list fields name and the count measures, once the half  *)
(* of an operation that the holder of the mutex still has to do is taken   *)
(* into account.                                                           *)
(***************************************************************************)
EXTENDS FifoList, FiniteSetTheorems, SequenceTheorems, TLAPS

Pointer == Entry \cup {NULL}

TypeOK ==
  /\ first \in [List -> Pointer] /\ last \in [List -> Pointer]
  /\ numentries \in [List -> Int]
  /\ list_lock \in [List -> Thread \cup {NULL}]
  /\ next \in [Entry -> Pointer] /\ prev \in [Entry -> Pointer]
  /\ list \in [Entry -> List \cup {NULL}]
  /\ pc \in [Thread -> {"idle", "link", "unlink"}]
  /\ arg \in [Thread -> [list : List \cup {NULL}, entry : Pointer]]
  /\ held \in [Thread -> SUBSET Entry]
  /\ result \in [Thread -> Pointer]
  /\ failed \in BOOLEAN

\* The mutex of l is held by a thread that has done the first half of an
\* enqueue_fifo, or of a dequeue_fifo or page_list_remove_page.
Linking(l)   == list_lock[l] # NULL /\ pc[list_lock[l]] = "link"
Unlinking(l) == list_lock[l] # NULL /\ pc[list_lock[l]] = "unlink"

\* The entry that operation is about.
Moved(l) == arg[list_lock[l]].entry

\* What `first' and `numentries' are about to be, and which entries are on l.
Front(l)  == IF Linking(l) THEN Moved(l) ELSE first[l]
Length(l) == numentries[l] + (IF Linking(l) THEN 1 ELSE IF Unlinking(l) THEN -1 ELSE 0)
On(e, l)  == \/ Linking(l) /\ e = Moved(l)
             \/ list[e] = l /\ ~(Unlinking(l) /\ e = Moved(l))

\* The entries S, n in number, are linked by nx and pv from la, the oldest, to
\* fr, the newest; q lists them in that order.
Lists(q, n, nx, pv, la, fr, S) ==
  /\ n \in Nat /\ q \in [1 .. n -> Entry]
  /\ \A i, j \in 1 .. n : q[i] = q[j] => i = j
  /\ \A e \in Entry : e \in S <=> \E i \in 1 .. n : q[i] = e
  /\ la = IF n = 0 THEN NULL ELSE q[1]
  /\ fr = IF n = 0 THEN NULL ELSE q[n]
  /\ \A i \in 1 .. n : /\ pv[q[i]] = IF i = n THEN NULL ELSE q[i + 1]
                       /\ nx[q[i]] = IF i = 1 THEN NULL ELSE q[i - 1]

IsChain(n, nx, pv, la, fr, S) == \E q \in [1 .. n -> Entry] : Lists(q, n, nx, pv, la, fr, S)

Members(l) == {e \in Entry : On(e, l)}

IsSequence(l) == IsChain(Length(l), next, prev, last[l], Front(l), Members(l))

ListsAreSequences == \A l \in List : IsSequence(l)

\* A thread in the middle of an operation holds the mutex of its list, and
\* nobody else does.
LocksHeld ==
  /\ \A t \in Thread : pc[t] # "idle" =>
       arg[t].list \in List /\ arg[t].entry \in Entry /\ list_lock[arg[t].list] = t
  /\ \A l \in List : list_lock[l] # NULL =>
       pc[list_lock[l]] # "idle" /\ arg[list_lock[l]].list = l

\* An entry a thread holds is on no list, and nobody else holds it.
EntriesOwned ==
  /\ \A t \in Thread : \A e \in held[t] :
       \/ list[e] = NULL /\ next[e] = NULL /\ prev[e] = NULL
       \/ pc[t] = "unlink" /\ arg[t].entry = e
  /\ \A t, u \in Thread : \A e \in held[t] : e \in held[u] => t = u
  /\ \A t \in Thread : pc[t] = "link" =>
       list[arg[t].entry] = NULL /\ \A u \in Thread : arg[t].entry \notin held[u]
  /\ \A t, u \in Thread : pc[t] = "link" /\ pc[u] = "link" /\ arg[t].entry = arg[u].entry => t = u
  /\ \A t \in Thread : pc[t] = "unlink" =>
       arg[t].entry \in held[t] /\ list[arg[t].entry] = arg[t].list

IInv == TypeOK /\ LocksHeld /\ EntriesOwned /\ ListsAreSequences /\ AssertionsHold

-----------------------------------------------------------------------------
(* Facts about linked entries, whatever the list.                           *)

\* The ends of a list are NULL when it is empty, and otherwise entries of it with
\* no neighbour beyond them.
LEMMA EndsOfChain ==
  ASSUME NEW n, NEW nx, NEW pv, NEW la, NEW fr, NEW S, IsChain(n, nx, pv, la, fr, S)
  PROVE  /\ n \in Nat /\ (n = 0 <=> la = NULL) /\ (n = 0 <=> fr = NULL)
         /\ la # NULL => la \in Entry /\ la \in S /\ nx[la] = NULL
         /\ fr # NULL => fr \in Entry /\ fr \in S /\ pv[fr] = NULL
<1>1. PICK q \in [1 .. n -> Entry] : Lists(q, n, nx, pv, la, fr, S)
  BY DEF IsChain
<1>2. n \in Nat
  BY <1>1 DEF Lists
<1>3. CASE n = 0
  BY <1>1, <1>3 DEF Lists
<1>4. CASE n # 0
  <2>1. 1 \in 1 .. n /\ n \in 1 .. n /\ q[1] \in Entry /\ q[n] \in Entry
    BY <1>2, <1>4
  <2>2. la = q[1] /\ fr = q[n] /\ q[1] \in S /\ q[n] \in S
    BY <1>1, <1>4, <2>1 DEF Lists
  <2>3. nx[q[1]] = NULL /\ pv[q[n]] = NULL
    BY <1>1, <2>1 DEF Lists
  <2> QED
    BY <1>2, <1>4, <2>1, <2>2, <2>3, EntriesAssumption
<1> QED
  BY <1>3, <1>4

\* The neighbours of an entry are other entries of its list.
LEMMA NeighboursInChain ==
  ASSUME NEW n, NEW nx, NEW pv, NEW la, NEW fr, NEW S, IsChain(n, nx, pv, la, fr, S),
         NEW e \in Entry, e \in S
  PROVE  /\ n > 0 /\ la # NULL /\ fr # NULL
         /\ (pv[e] = NULL <=> e = fr) /\ (nx[e] = NULL <=> e = la)
         /\ pv[e] # NULL => pv[e] \in Entry /\ pv[e] \in S /\ pv[e] # e
         /\ nx[e] # NULL => nx[e] \in Entry /\ nx[e] \in S /\ nx[e] # e
<1>1. PICK q \in [1 .. n -> Entry] : Lists(q, n, nx, pv, la, fr, S)
  BY DEF IsChain
<1>2. PICK k \in 1 .. n : q[k] = e
  BY <1>1 DEF Lists
<1>3. n \in Nat /\ n > 0 /\ la = q[1] /\ fr = q[n] /\ k \in Nat
  BY <1>1, <1>2 DEF Lists
<1>4. pv[e] = (IF k = n THEN NULL ELSE q[k + 1]) /\ nx[e] = (IF k = 1 THEN NULL ELSE q[k - 1])
  BY <1>1, <1>2 DEF Lists
<1>5. la \in Entry /\ fr \in Entry
  BY <1>3
<1>6. (e = la <=> k = 1) /\ (e = fr <=> k = n)
  BY <1>1, <1>2, <1>3 DEF Lists
<1>7. ASSUME k # n PROVE q[k + 1] \in Entry /\ q[k + 1] \in S /\ q[k + 1] # e
  <2>1. k + 1 \in 1 .. n /\ k + 1 # k
    BY <1>2, <1>3, <1>7
  <2> QED
    BY <1>1, <1>2, <2>1 DEF Lists
<1>8. ASSUME k # 1 PROVE q[k - 1] \in Entry /\ q[k - 1] \in S /\ q[k - 1] # e
  <2>1. k - 1 \in 1 .. n /\ k - 1 # k
    BY <1>2, <1>3, <1>8
  <2> QED
    BY <1>1, <1>2, <2>1 DEF Lists
<1> QED
  BY <1>3, <1>4, <1>5, <1>6, <1>7, <1>8, EntriesAssumption

\* What happens to entries that are not on it is nothing to a list.
LEMMA SameChain ==
  ASSUME NEW n, NEW nx, NEW pv, NEW la, NEW fr, NEW S, IsChain(n, nx, pv, la, fr, S),
         NEW nx2, NEW pv2, \A x \in Entry : x \in S => nx2[x] = nx[x] /\ pv2[x] = pv[x]
  PROVE  IsChain(n, nx2, pv2, la, fr, S)
<1>1. PICK q \in [1 .. n -> Entry] : Lists(q, n, nx, pv, la, fr, S)
  BY DEF IsChain
<1>2. \A i \in 1 .. n : q[i] \in Entry /\ q[i] \in S
  BY <1>1 DEF Lists
<1>3. Lists(q, n, nx2, pv2, la, fr, S)
  BY <1>1, <1>2 DEF Lists
<1> QED
  BY <1>3 DEF IsChain

\* The links enqueue_fifo makes.
LEMMA LongerChain ==
  ASSUME NEW n, NEW nx, NEW pv, NEW la, NEW fr, NEW S, IsChain(n, nx, pv, la, fr, S),
         NEW e \in Entry, e \notin S, NEW nx2, NEW pv2, NEW la2, NEW S2,
         nx2[e] = fr, pv2[e] = NULL,
         \A x \in Entry : x \in S => /\ nx2[x] = nx[x]
                                     /\ pv2[x] = IF x = fr THEN e ELSE pv[x],
         la2 = IF fr = NULL THEN e ELSE la,
         \A x \in Entry : x \in S2 <=> x \in S \/ x = e
  PROVE  IsChain(n + 1, nx2, pv2, la2, e, S2)
<1>1. PICK q \in [1 .. n -> Entry] : Lists(q, n, nx, pv, la, fr, S)
  BY DEF IsChain
<1>2. n \in Nat /\ (n = 0 <=> fr = NULL)
  BY EndsOfChain
<1>3. \A i \in 1 .. n : q[i] \in Entry /\ q[i] \in S /\ q[i] # e
  BY <1>1 DEF Lists
<1> DEFINE s == [i \in 1 .. n + 1 |-> IF i = n + 1 THEN e ELSE q[i]]
<1>4. \A i \in 1 .. n : i \in 1 .. n + 1 /\ i # n + 1
  BY <1>2
<1>5. s \in [1 .. n + 1 -> Entry]
  BY <1>2, <1>3
<1>6. s[n + 1] = e /\ \A i \in 1 .. n : s[i] = q[i]
  BY <1>2, <1>4
<1>7. \A i \in 1 .. n + 1 : i \in 1 .. n \/ i = n + 1
  BY <1>2
<1> HIDE DEF s
<1>8. ASSUME NEW i \in 1 .. n + 1, NEW j \in 1 .. n + 1, s[i] = s[j] PROVE i = j
  <2>1. CASE i \in 1 .. n /\ j \in 1 .. n
    BY <1>1, <1>6, <1>8, <2>1 DEF Lists
  <2>2. CASE i = n + 1
    BY <1>3, <1>6, <1>7, <1>8, <2>2
  <2>3. CASE j = n + 1
    BY <1>3, <1>6, <1>7, <1>8, <2>3
  <2> QED
    BY <1>7, <2>1, <2>2, <2>3
<1>9. ASSUME NEW x \in Entry PROVE x \in S2 <=> \E i \in 1 .. n + 1 : s[i] = x
  <2>1. x \in S <=> \E i \in 1 .. n : q[i] = x
    BY <1>1 DEF Lists
  <2>2. n + 1 \in 1 .. n + 1
    BY <1>2
  <2> QED
    BY <1>4, <1>6, <1>7, <2>1, <2>2
<1>10. la2 = s[1]
  <2>1. CASE n = 0
    BY <1>2, <1>6, <2>1
  <2>2. CASE n # 0
    <3>1. 1 \in 1 .. n /\ la = q[1]
      BY <1>1, <1>2, <2>2 DEF Lists
    <3> QED
      BY <1>2, <1>6, <2>2, <3>1
  <2> QED
    BY <2>1, <2>2
<1>11. ASSUME NEW i \in 1 .. n + 1 PROVE nx2[s[i]] = IF i = 1 THEN NULL ELSE s[i - 1]
  <2>1. CASE i = n + 1
    <3>1. fr = IF n = 0 THEN NULL ELSE q[n]
      BY <1>1 DEF Lists
    <3>2. n # 0 => n \in 1 .. n /\ i - 1 = n /\ i # 1
      BY <1>2, <2>1
    <3>3. n = 0 => i = 1
      BY <2>1
    <3> QED
      BY <1>6, <2>1, <3>1, <3>2, <3>3
  <2>2. CASE i \in 1 .. n
    <3>1. nx2[q[i]] = nx[q[i]] /\ nx[q[i]] = IF i = 1 THEN NULL ELSE q[i - 1]
      BY <1>1, <1>3, <2>2 DEF Lists
    <3>2. i # 1 => i - 1 \in 1 .. n
      BY <1>2, <2>2
    <3> QED
      BY <1>6, <2>2, <3>1, <3>2
  <2> QED
    BY <1>7, <2>1, <2>2
<1>12. ASSUME NEW i \in 1 .. n + 1 PROVE pv2[s[i]] = IF i = n + 1 THEN NULL ELSE s[i + 1]
  <2>1. CASE i = n + 1
    BY <1>6, <2>1
  <2>2. CASE i = n /\ n # 0
    <3>1. i \in 1 .. n /\ fr = q[n] /\ i # n + 1
      BY <1>1, <1>2, <2>2 DEF Lists
    <3> QED
      BY <1>3, <1>6, <2>2, <3>1
  <2>3. CASE i \in 1 .. n /\ i # n
    <3>1. n \in 1 .. n /\ n # 0 /\ i + 1 \in 1 .. n /\ i # n + 1
      BY <1>2, <2>3
    <3>2. q[i] # fr
      BY <1>1, <2>3, <3>1 DEF Lists
    <3>3. pv[q[i]] = q[i + 1]
      BY <1>1, <2>3 DEF Lists
    <3> QED
      BY <1>3, <1>6, <2>3, <3>1, <3>2, <3>3
  <2> QED
    BY <1>2, <1>7, <2>1, <2>2, <2>3
<1>13. n + 1 \in Nat /\ n + 1 # 0
  BY <1>2
<1>14. Lists(s, n + 1, nx2, pv2, la2, e, S2)
  BY <1>5, <1>6, <1>8, <1>9, <1>10, <1>11, <1>12, <1>13 DEF Lists
<1> QED
  BY <1>5, <1>14 DEF IsChain

\* The links dequeue_fifo and page_list_remove_page make around an entry.
LEMMA ShorterChain ==
  ASSUME NEW n, NEW nx, NEW pv, NEW la, NEW fr, NEW S, IsChain(n, nx, pv, la, fr, S),
         NEW e \in Entry, e \in S, NEW nx2, NEW pv2, NEW la2, NEW fr2, NEW S2,
         \A x \in Entry : x \in S /\ x # e =>
            /\ nx2[x] = IF x = pv[e] THEN nx[e] ELSE nx[x]
            /\ pv2[x] = IF x = nx[e] THEN pv[e] ELSE pv[x],
         la2 = IF la = e THEN pv[e] ELSE la,
         fr2 = IF fr = e THEN nx[e] ELSE fr,
         \A x \in Entry : x \in S2 <=> x \in S /\ x # e
  PROVE  IsChain(n - 1, nx2, pv2, la2, fr2, S2)
<1>1. PICK q \in [1 .. n -> Entry] : Lists(q, n, nx, pv, la, fr, S)
  BY DEF IsChain
<1>2. PICK k \in 1 .. n : q[k] = e
  BY <1>1 DEF Lists
<1>3. n \in Nat /\ n > 0 /\ k \in Nat /\ n - 1 \in Nat /\ 1 <= k /\ k <= n
  BY <1>1, <1>2 DEF Lists
<1>4. la = q[1] /\ fr = q[n]
  BY <1>1, <1>3 DEF Lists
<1>5. pv[e] = (IF k = n THEN NULL ELSE q[k + 1]) /\ nx[e] = (IF k = 1 THEN NULL ELSE q[k - 1])
  BY <1>1, <1>2 DEF Lists
<1> DEFINE pos(i) == IF i < k THEN i ELSE i + 1
           s == [i \in 1 .. n - 1 |-> q[pos(i)]]
<1>6. ASSUME NEW i \in 1 .. n - 1
      PROVE  /\ pos(i) \in 1 .. n /\ pos(i) # k
             /\ i < k => pos(i) = i
             /\ ~(i < k) => pos(i) = i + 1
  BY <1>3
<1>7. ASSUME NEW i \in 1 .. n - 1, NEW j \in 1 .. n - 1, pos(i) = pos(j) PROVE i = j
  BY <1>3, <1>7
<1>8. ASSUME NEW j \in 1 .. n, j # k PROVE \E i \in 1 .. n - 1 : pos(i) = j
  <2>1. CASE j < k
    BY <1>3, <1>8, <2>1
  <2>2. CASE j > k
    <3>1. j - 1 \in 1 .. n - 1 /\ pos(j - 1) = j
      BY <1>3, <1>8, <2>2
    <3> QED
      BY <3>1
  <2> QED
    BY <1>3, <1>8, <2>1, <2>2
<1>9. s \in [1 .. n - 1 -> Entry] /\ \A i \in 1 .. n - 1 : s[i] = q[pos(i)]
  BY <1>6
<1>10. \A j \in 1 .. n : j # k => q[j] \in Entry /\ q[j] \in S /\ q[j] # e
  BY <1>1, <1>2 DEF Lists
<1> HIDE DEF s
<1>11. ASSUME NEW i \in 1 .. n - 1, NEW j \in 1 .. n - 1, s[i] = s[j] PROVE i = j
  <2>1. pos(i) = pos(j)
    BY <1>1, <1>6, <1>9, <1>11 DEF Lists
  <2> QED
    BY <1>7, <2>1
<1>12. ASSUME NEW x \in Entry PROVE x \in S2 <=> \E i \in 1 .. n - 1 : s[i] = x
  <2>1. x \in S <=> \E j \in 1 .. n : q[j] = x
    BY <1>1 DEF Lists
  <2>2. ASSUME x \in S2 PROVE \E i \in 1 .. n - 1 : s[i] = x
    <3>1. PICK j \in 1 .. n : q[j] = x /\ j # k
      BY <1>2, <2>1, <2>2
    <3>2. PICK i \in 1 .. n - 1 : pos(i) = j
      BY <1>8, <3>1
    <3> QED
      BY <1>9, <3>1, <3>2
  <2>3. ASSUME NEW i \in 1 .. n - 1, s[i] = x PROVE x \in S2
    BY <1>6, <1>9, <1>10, <2>3
  <2> QED
    BY <2>2, <2>3
<1>13. la2 = IF n - 1 = 0 THEN NULL ELSE s[1]
  <2>1. la = e <=> k = 1
    BY <1>1, <1>2, <1>3, <1>4 DEF Lists
  <2>2. CASE n = 1
    BY <1>2, <1>3, <1>5, <2>1, <2>2
  <2>3. CASE n # 1 /\ k = 1
    <3>1. 1 \in 1 .. n - 1 /\ pos(1) = 2
      BY <1>3, <2>3
    <3>2. la2 = q[2]
      BY <1>5, <2>1, <2>3
    <3> QED
      BY <1>3, <1>9, <2>3, <3>1, <3>2
  <2>4. CASE n # 1 /\ k # 1
    <3>1. 1 \in 1 .. n - 1 /\ pos(1) = 1
      BY <1>3, <2>4
    <3> QED
      BY <1>3, <1>4, <1>9, <2>1, <2>4, <3>1
  <2> QED
    BY <2>2, <2>3, <2>4
<1>14. fr2 = IF n - 1 = 0 THEN NULL ELSE s[n - 1]
  <2>1. fr = e <=> k = n
    BY <1>1, <1>2, <1>3, <1>4 DEF Lists
  <2>2. CASE n = 1
    BY <1>2, <1>3, <1>5, <2>1, <2>2
  <2>3. CASE n # 1 /\ k = n
    <3>1. n - 1 \in 1 .. n - 1 /\ pos(n - 1) = n - 1
      BY <1>3, <2>3
    <3>2. fr2 = q[n - 1]
      BY <1>5, <2>1, <2>3
    <3> QED
      BY <1>3, <1>9, <2>3, <3>1, <3>2
  <2>4. CASE n # 1 /\ k # n
    <3>1. n - 1 \in 1 .. n - 1 /\ pos(n - 1) = n
      BY <1>3, <2>4
    <3> QED
      BY <1>3, <1>4, <1>9, <2>1, <2>4, <3>1
  <2> QED
    BY <2>2, <2>3, <2>4
<1>15. ASSUME NEW i \in 1 .. n - 1 PROVE nx2[s[i]] = IF i = 1 THEN NULL ELSE s[i - 1]
  <2> DEFINE j == pos(i)
  <2>1. /\ j \in 1 .. n /\ j # k /\ s[i] = q[j] /\ q[j] \in Entry /\ q[j] \in S /\ q[j] # e
        /\ i \in Nat /\ i >= 1
    BY <1>3, <1>6, <1>9, <1>10
  <2>2. nx2[q[j]] = IF q[j] = pv[e] THEN nx[e] ELSE nx[q[j]]
    BY <2>1
  <2>3. q[j] = pv[e] <=> j = k + 1
    <3>1. CASE k = n
      <4>1. pv[e] = NULL /\ j # k + 1
        BY <1>3, <1>5, <2>1, <3>1
      <4> QED
        BY <2>1, <4>1, EntriesAssumption
    <3>2. CASE k # n
      <4>1. pv[e] = q[k + 1] /\ k + 1 \in 1 .. n
        BY <1>3, <1>5, <3>2
      <4> QED
        BY <1>1, <2>1, <4>1 DEF Lists
    <3> QED
      BY <3>1, <3>2
  <2>4. CASE j = k + 1
    <3>1. nx2[s[i]] = IF k = 1 THEN NULL ELSE q[k - 1]
      BY <1>5, <2>1, <2>2, <2>3, <2>4
    <3>2. i = k
      BY <1>3, <2>4
    <3>3. k # 1 => i - 1 \in 1 .. n - 1 /\ pos(i - 1) = k - 1
      BY <1>3, <3>2
    <3> QED
      BY <1>9, <3>1, <3>2, <3>3
  <2>5. CASE j # k + 1
    <3>1. nx2[s[i]] = IF j = 1 THEN NULL ELSE q[j - 1]
      BY <1>1, <2>1, <2>2, <2>3, <2>5 DEF Lists
    <3>2. j = 1 <=> i = 1
      BY <1>3, <2>1, <2>5
    <3>3. i # 1 => i - 1 \in 1 .. n - 1 /\ pos(i - 1) = j - 1
      BY <1>3, <2>1, <2>5
    <3> QED
      BY <1>9, <3>1, <3>2, <3>3
  <2> QED
    BY <2>4, <2>5
<1>16. ASSUME NEW i \in 1 .. n - 1 PROVE pv2[s[i]] = IF i = n - 1 THEN NULL ELSE s[i + 1]
  <2> DEFINE j == pos(i)
  <2>1. /\ j \in 1 .. n /\ j # k /\ s[i] = q[j] /\ q[j] \in Entry /\ q[j] \in S /\ q[j] # e
        /\ i \in Nat /\ i >= 1
    BY <1>3, <1>6, <1>9, <1>10
  <2>2. pv2[q[j]] = IF q[j] = nx[e] THEN pv[e] ELSE pv[q[j]]
    BY <2>1
  <2>3. q[j] = nx[e] <=> j = k - 1
    <3>1. CASE k = 1
      <4>1. nx[e] = NULL /\ j # k - 1
        BY <1>3, <1>5, <2>1, <3>1
      <4> QED
        BY <2>1, <4>1, EntriesAssumption
    <3>2. CASE k # 1
      <4>1. nx[e] = q[k - 1] /\ k - 1 \in 1 .. n
        BY <1>3, <1>5, <3>2
      <4> QED
        BY <1>1, <2>1, <4>1 DEF Lists
    <3> QED
      BY <3>1, <3>2
  <2>4. CASE j = k - 1
    <3>1. pv2[s[i]] = IF k = n THEN NULL ELSE q[k + 1]
      BY <1>5, <2>1, <2>2, <2>3, <2>4
    <3>2. i = k - 1
      BY <1>3, <2>4
    <3>3. k # n => i + 1 \in 1 .. n - 1 /\ pos(i + 1) = k + 1
      BY <1>3, <3>2
    <3>4. i = n - 1 <=> k = n
      BY <1>3, <3>2
    <3> QED
      BY <1>9, <3>1, <3>2, <3>3, <3>4
  <2>5. CASE j # k - 1
    <3>1. pv2[s[i]] = IF j = n THEN NULL ELSE q[j + 1]
      BY <1>1, <2>1, <2>2, <2>3, <2>5 DEF Lists
    <3>2. j = n <=> i = n - 1
      BY <1>3, <2>1, <2>5
    <3>3. i # n - 1 => i + 1 \in 1 .. n - 1 /\ pos(i + 1) = j + 1
      BY <1>3, <2>1, <2>5
    <3> QED
      BY <1>9, <3>1, <3>2, <3>3
  <2> QED
    BY <2>4, <2>5
<1>17. Lists(s, n - 1, nx2, pv2, la2, fr2, S2)
  BY <1>3, <1>9, <1>11, <1>12, <1>13, <1>14, <1>15, <1>16 DEF Lists
<1> QED
  BY <1>9, <1>17 DEF IsChain
-----------------------------------------------------------------------------
(* Facts about a state of the invariant.                                    *)

\* No thread has a list when nothing is enqueued yet.
LEMMA InitIInv == Init => IInv
<1> SUFFICES ASSUME Init PROVE IInv
  OBVIOUS
<1>1. TypeOK
  <2>1. held \in [Thread -> SUBSET Entry]
    BY DEF Init
  <2>2. arg \in [Thread -> [list : List \cup {NULL}, entry : Pointer]]
    BY DEF Init, Pointer
  <2>3. pc \in [Thread -> {"idle", "link", "unlink"}] /\ result \in [Thread -> Pointer]
    BY DEF Init, Pointer
  <2>4. /\ first \in [List -> Pointer] /\ last \in [List -> Pointer]
        /\ numentries \in [List -> Int] /\ list_lock \in [List -> Thread \cup {NULL}]
    BY DEF Init, Pointer
  <2>5. /\ next \in [Entry -> Pointer] /\ prev \in [Entry -> Pointer]
        /\ list \in [Entry -> List \cup {NULL}] /\ failed \in BOOLEAN
    BY DEF Init, Pointer
  <2> QED
    BY <2>1, <2>2, <2>3, <2>4, <2>5 DEF TypeOK
<1>2. LocksHeld
  BY DEF Init, LocksHeld
<1>3. EntriesOwned
  BY DEF Init, EntriesOwned
<1>4. ListsAreSequences
  <2> SUFFICES ASSUME NEW l \in List PROVE IsSequence(l)
    BY DEF ListsAreSequences
  <2>1. Length(l) = 0 /\ Front(l) = NULL /\ \A e \in Entry : ~On(e, l)
    BY ListsAssumption DEF Init, Length, Front, On, Linking, Unlinking
  <2> DEFINE q == [i \in 1 .. 0 |-> NULL]
  <2>2. q \in [1 .. 0 -> Entry] /\ last[l] = NULL
    BY DEF Init
  <2> HIDE DEF q
  <2>3. Lists(q, 0, next, prev, NULL, NULL, {})
    BY <2>2 DEF Lists
  <2>4. Members(l) = {}
    BY <2>1 DEF Members
  <2> QED
    BY <2>1, <2>2, <2>3, <2>4 DEF IsSequence, IsChain
<1>5. AssertionsHold
  BY DEF Init, AssertionsHold
<1> QED
  BY <1>1, <1>2, <1>3, <1>4, <1>5 DEF IInv

\* The entry of an operation in progress belongs to its thread.
LEMMA HeldOffLists ==
  ASSUME IInv, NEW t \in Thread, pc[t] = "idle", NEW e \in held[t]
  PROVE  /\ e \in Entry
         /\ list[e] = NULL /\ next[e] = NULL /\ prev[e] = NULL
         /\ \A l \in List : ~On(e, l)
<1>1. e \in Entry /\ list[e] = NULL /\ next[e] = NULL /\ prev[e] = NULL
  BY DEF IInv, TypeOK, EntriesOwned
<1>2. ASSUME NEW l \in List, On(e, l) PROVE FALSE
  <2>1. Linking(l) /\ e = Moved(l)
    BY <1>1, <1>2, ListsAssumption DEF On
  <2>2. list_lock[l] \in Thread /\ pc[list_lock[l]] = "link" /\ arg[list_lock[l]].entry = e
    BY <2>1 DEF Linking, Moved, IInv, TypeOK
  <2> QED
    BY <2>2 DEF IInv, EntriesOwned
<1> QED
  BY <1>1, <1>2

\* The lists have no entry in common.
LEMMA OneListEach ==
  ASSUME IInv, NEW e \in Entry, NEW l \in List, NEW m \in List, On(e, l), On(e, m)
  PROVE  l = m
<1>1. ASSUME NEW k \in List, Linking(k), e = Moved(k)
      PROVE  /\ list[e] = NULL /\ list_lock[k] \in Thread
             /\ pc[list_lock[k]] = "link" /\ arg[list_lock[k]].entry = e
             /\ arg[list_lock[k]].list = k
  BY <1>1 DEF Linking, Moved, IInv, TypeOK, EntriesOwned, LocksHeld
<1>2. CASE Linking(l) /\ e = Moved(l) /\ Linking(m) /\ e = Moved(m)
  <2>1. /\ list_lock[l] \in Thread /\ pc[list_lock[l]] = "link"
        /\ arg[list_lock[l]].entry = e /\ arg[list_lock[l]].list = l
    BY <1>1, <1>2
  <2>2. /\ list_lock[m] \in Thread /\ pc[list_lock[m]] = "link"
        /\ arg[list_lock[m]].entry = e /\ arg[list_lock[m]].list = m
    BY <1>1, <1>2
  <2>3. list_lock[l] = list_lock[m]
    BY <2>1, <2>2 DEF IInv, EntriesOwned
  <2> QED
    BY <2>1, <2>2, <2>3
<1>3. CASE list[e] = l /\ list[e] = m
  BY <1>3
<1> QED
  BY <1>1, <1>2, <1>3, ListsAssumption DEF On

\* What an operation on list l leaves of another list.
LEMMA OthersKeep ==
  ASSUME IInv, NEW t \in Thread, NEW l \in List, NEW m \in List, m # l,
         pc[t] = "idle" \/ list_lock[l] = t,
         NEW x, NEW y, NEW z,
         list_lock' = [list_lock EXCEPT ![l] = x],
         pc' = [pc EXCEPT ![t] = y],
         arg' = [arg EXCEPT ![t] = z],
         first'[m] = first[m], last'[m] = last[m], numentries'[m] = numentries[m],
         \A e \in Entry : list'[e] = list[e] \/ (list[e] # m /\ list'[e] # m),
         \A e \in Entry : On(e, m) => next'[e] = next[e] /\ prev'[e] = prev[e]
  PROVE  IsSequence(m)'
<1>1. list_lock'[m] = list_lock[m] /\ list_lock[m] \in Thread \cup {NULL}
  BY DEF IInv, TypeOK
<1>2. list_lock[m] # NULL => /\ list_lock[m] \in Thread /\ list_lock[m] # t
                             /\ pc'[list_lock[m]] = pc[list_lock[m]]
                             /\ arg'[list_lock[m]] = arg[list_lock[m]]
  BY <1>1 DEF IInv, TypeOK, LocksHeld
<1>3. Linking(m)' = Linking(m) /\ Unlinking(m)' = Unlinking(m)
  BY <1>1, <1>2 DEF Linking, Unlinking
<1>4. Linking(m) \/ Unlinking(m) => Moved(m)' = Moved(m)
  BY <1>1, <1>2 DEF Linking, Unlinking, Moved
<1>5. Length(m)' = Length(m) /\ Front(m)' = Front(m)
  BY <1>3, <1>4 DEF Length, Front
<1>6. Members(m)' = Members(m)
  BY <1>3, <1>4 DEF Members, On
<1>7. IsSequence(m)
  BY DEF IInv, ListsAreSequences
<1>8. IsChain(Length(m), next', prev', last[m], Front(m), Members(m))
  <2>1. \A e \in Entry : e \in Members(m) => next'[e] = next[e] /\ prev'[e] = prev[e]
    BY DEF Members
  <2> QED
    BY <1>7, <2>1, SameChain DEF IsSequence
<1> QED
  BY <1>5, <1>6, <1>8 DEF IsSequence

\* A list whose mutex is free is what its fields say.
LEMMA AtRest ==
  ASSUME IInv, NEW l \in List, list_lock[l] = NULL
  PROVE  /\ Length(l) = numentries[l] /\ Front(l) = first[l]
         /\ Members(l) = {e \in Entry : list[e] = l}
         /\ IsChain(numentries[l], next, prev, last[l], first[l], Members(l))
<1>1. ~Linking(l) /\ ~Unlinking(l)
  BY DEF Linking, Unlinking
<1>2. IsSequence(l)
  BY DEF IInv, ListsAreSequences
<1>3. numentries[l] \in Int
  BY DEF IInv, TypeOK
<1>4. Length(l) = numentries[l] /\ Front(l) = first[l]
  BY <1>1, <1>3 DEF Length, Front
<1>5. Members(l) = {e \in Entry : list[e] = l}
  BY <1>1 DEF Members, On
<1> QED
  BY <1>2, <1>4, <1>5 DEF IsSequence

\* A result changes nothing else.
LEMMA ResultKeeps ==
  ASSUME IInv, result' \in [Thread -> Pointer],
         UNCHANGED <<first, last, numentries, list_lock, next, prev, list, pc, arg, held, failed>>
  PROVE  IInv'
<1>1. TypeOK'
  BY DEF IInv, TypeOK
<1>2. LocksHeld' /\ EntriesOwned' /\ AssertionsHold'
  BY DEF IInv, LocksHeld, EntriesOwned, AssertionsHold
<1>3. ListsAreSequences'
  BY DEF IInv, ListsAreSequences, IsSequence, Members, Length, Front, On, Moved,
         Linking, Unlinking
<1> QED
  BY <1>1, <1>2, <1>3 DEF IInv

-----------------------------------------------------------------------------
(* Each operation keeps the invariant.                                      *)

\* enqueue_fifo, as far as its assertions and the links of the neighbour.
LEMMA EnqueueKeeps ==
  ASSUME IInv, NEW t \in Thread, NEW l \in List, NEW e \in Entry, Enqueue(t, l, e)
  PROVE  IInv'
<1>1. pc[t] = "idle" /\ list_lock[l] = NULL /\ e \in held[t]
  BY DEF Enqueue, Ready, Unlocked
<1>2. list[e] = NULL /\ next[e] = NULL /\ prev[e] = NULL /\ \A m \in List : ~On(e, m)
  BY <1>1, HeldOffLists
<1>3. /\ Members(l) = {x \in Entry : list[x] = l}
      /\ IsChain(numentries[l], next, prev, last[l], first[l], Members(l))
  BY <1>1, AtRest
<1>4. /\ first[l] = NULL => last[l] = NULL /\ numentries[l] = 0
      /\ first[l] # NULL => first[l] \in Members(l) /\ prev[first[l]] = NULL
  BY <1>3, EndsOfChain
<1>5. e \notin Members(l)
  BY <1>2 DEF Members
<1>6. EnqueueAsserts(l, e)
  BY <1>2, <1>4 DEF EnqueueAsserts
<1>7. /\ next' = [next EXCEPT ![e] = first[l]]
      /\ prev' = Set(prev, first[l], e)
      /\ last' = IF first[l] = NULL THEN [last EXCEPT ![l] = e] ELSE last
      /\ held' = [held EXCEPT ![t] = @ \ {e}]
      /\ list_lock' = [list_lock EXCEPT ![l] = t]
      /\ pc' = [pc EXCEPT ![t] = "link"]
      /\ arg' = [arg EXCEPT ![t] = [list |-> l, entry |-> e]]
      /\ UNCHANGED <<first, numentries, list, result, failed>>
  BY <1>6 DEF Enqueue, GoOn
<1>8. \A x \in Entry : prev'[x] = IF x = first[l] THEN e ELSE prev[x]
  BY <1>7, EntriesAssumption DEF Set, IInv, TypeOK
<1>9. TypeOK'
  <2>1. prev' \in [Entry -> Pointer]
    BY <1>7 DEF Set, IInv, TypeOK, Pointer
  <2>2. arg' \in [Thread -> [list : List \cup {NULL}, entry : Pointer]]
    BY <1>7 DEF IInv, TypeOK, Pointer
  <2>3. held' \in [Thread -> SUBSET Entry]
    BY <1>7 DEF IInv, TypeOK
  <2>4. first' \in [List -> Pointer] /\ last' \in [List -> Pointer] /\ next' \in [Entry -> Pointer]
    BY <1>7 DEF IInv, TypeOK, Pointer
  <2> QED
    BY <1>7, <2>1, <2>2, <2>3, <2>4 DEF IInv, TypeOK
<1>10. LocksHeld'
  BY <1>1, <1>7, CallersAssumption DEF IInv, TypeOK, LocksHeld
<1>11. EntriesOwned'
  <2>1. ASSUME NEW u \in Thread, NEW x \in held'[u]
        PROVE  /\ x \in held[u] /\ x # e /\ x \in Entry
               /\ \/ list'[x] = NULL /\ next'[x] = NULL /\ prev'[x] = NULL
                  \/ pc'[u] = "unlink" /\ arg'[u].entry = x
    <3>1. x \in held[u] /\ x # e /\ x \in Entry
      BY <1>1, <1>7, <2>1 DEF IInv, TypeOK, EntriesOwned
    <3>2. CASE list[x] = NULL /\ next[x] = NULL /\ prev[x] = NULL
      <4>1. x # first[l]
        BY <1>3, <1>4, <3>1, <3>2, ListsAssumption, EntriesAssumption
      <4> QED
        BY <1>7, <1>8, <3>1, <3>2, <4>1 DEF IInv, TypeOK
    <3>3. CASE pc[u] = "unlink" /\ arg[u].entry = x
      <4>1. u # t
        BY <1>1, <3>3
      <4>2. pc'[u] = pc[u] /\ arg'[u] = arg[u]
        BY <1>7, <4>1 DEF IInv, TypeOK
      <4> QED
        BY <3>1, <3>3, <4>2
    <3> QED
      BY <3>1, <3>2, <3>3 DEF IInv, EntriesOwned
  <2>2. ASSUME NEW u \in Thread, pc'[u] = "link"
        PROVE  list'[arg'[u].entry] = NULL /\ \A w \in Thread : arg'[u].entry \notin held'[w]
    BY <1>1, <1>2, <1>7, <2>1, <2>2 DEF IInv, TypeOK, EntriesOwned
  <2>3. ASSUME NEW u \in Thread, NEW w \in Thread, pc'[u] = "link", pc'[w] = "link",
               arg'[u].entry = arg'[w].entry
        PROVE  u = w
    BY <1>1, <1>7, <2>3 DEF IInv, TypeOK, EntriesOwned
  <2>4. ASSUME NEW u \in Thread, pc'[u] = "unlink"
        PROVE  arg'[u].entry \in held'[u] /\ list'[arg'[u].entry] = arg'[u].list
    BY <1>1, <1>7, <2>4 DEF IInv, TypeOK, EntriesOwned
  <2>5. \A u, w \in Thread : \A x \in held'[u] : x \in held'[w] => u = w
    BY <2>1 DEF IInv, EntriesOwned
  <2> QED
    BY <2>1, <2>2, <2>3, <2>4, <2>5 DEF EntriesOwned
<1>12. IsSequence(l)'
  <2>1. list_lock'[l] = t /\ pc'[t] = "link" /\ arg'[t].entry = e /\ t # NULL
    BY <1>7, CallersAssumption DEF IInv, TypeOK
  <2>2. Linking(l)' /\ ~Unlinking(l)' /\ Moved(l)' = e
    BY <2>1 DEF Linking, Unlinking, Moved
  <2>3. Length(l)' = numentries[l] + 1 /\ Front(l)' = e
    BY <1>7, <2>2 DEF Length, Front
  <2>4. \A x \in Entry : x \in Members(l)' <=> x \in Members(l) \/ x = e
    BY <1>3, <1>7, <2>2 DEF Members, On
  <2>5. next'[e] = first[l]
    BY <1>7 DEF IInv, TypeOK
  <2>6. prev'[e] = NULL
    BY <1>2, <1>4, <1>5, <1>8, EntriesAssumption
  <2>7. ASSUME NEW x \in Entry, x \in Members(l)
        PROVE  next'[x] = next[x] /\ prev'[x] = IF x = first[l] THEN e ELSE prev[x]
    BY <1>5, <1>7, <1>8, <2>7 DEF IInv, TypeOK
  <2>8. last'[l] = IF first[l] = NULL THEN e ELSE last[l]
    BY <1>7 DEF IInv, TypeOK
  <2>9. IsChain(numentries[l] + 1, next', prev', last'[l], e, Members(l)')
    BY <1>3, <1>5, <2>4, <2>5, <2>6, <2>7, <2>8, LongerChain
  <2> QED
    BY <2>3, <2>9 DEF IsSequence
<1>13. ASSUME NEW m \in List, m # l PROVE IsSequence(m)'
  <2>1. ASSUME NEW x \in Entry, On(x, m) PROVE next'[x] = next[x] /\ prev'[x] = prev[x]
    <3>1. ~On(x, l)
      BY <1>13, <2>1, OneListEach
    <3>2. x # e /\ x # first[l]
      BY <1>2, <1>4, <2>1, <3>1, EntriesAssumption DEF Members
    <3> QED
      BY <1>7, <1>8, <3>2 DEF IInv, TypeOK
  <2>2. first'[m] = first[m] /\ last'[m] = last[m] /\ numentries'[m] = numentries[m]
    BY <1>7, <1>13 DEF IInv, TypeOK
  <2> QED
    BY <1>1, <1>7, <1>13, <2>1, <2>2, OthersKeep
<1>14. ListsAreSequences'
  BY <1>12, <1>13 DEF ListsAreSequences
<1> QED
  BY <1>7, <1>9, <1>10, <1>11, <1>14 DEF IInv, AssertionsHold

\* The end of enqueue_fifo.
LEMMA LinkKeeps ==
  ASSUME IInv, NEW t \in Thread, Link(t),
         NEW l \in List, NEW e \in Entry, arg[t].list = l, arg[t].entry = e
  PROVE  IInv'
<1>1. /\ l \in List /\ e \in Entry /\ list_lock[l] = t /\ pc[t] = "link" /\ t # NULL
      /\ list[e] = NULL /\ \A u \in Thread : e \notin held[u]
  BY CallersAssumption DEF Link, IInv, LocksHeld, EntriesOwned
<1>2. /\ first' = [first EXCEPT ![l] = e]
      /\ list' = [list EXCEPT ![e] = l]
      /\ numentries' = [numentries EXCEPT ![l] = @ + 1]
      /\ list_lock' = [list_lock EXCEPT ![l] = NULL]
      /\ pc' = [pc EXCEPT ![t] = "idle"]
      /\ arg' = [arg EXCEPT ![t] = [list |-> NULL, entry |-> NULL]]
      /\ UNCHANGED <<last, next, prev, held, result, failed>>
  BY DEF Link, Return
<1>3. TypeOK'
  <2>1. arg' \in [Thread -> [list : List \cup {NULL}, entry : Pointer]]
    BY <1>2 DEF IInv, TypeOK, Pointer
  <2>2. first' \in [List -> Pointer] /\ numentries' \in [List -> Int]
    BY <1>1, <1>2 DEF IInv, TypeOK, Pointer
  <2>3. /\ list_lock' \in [List -> Thread \cup {NULL}] /\ list' \in [Entry -> List \cup {NULL}]
        /\ pc' \in [Thread -> {"idle", "link", "unlink"}]
    BY <1>1, <1>2 DEF IInv, TypeOK
  <2> QED
    BY <1>2, <2>1, <2>2, <2>3 DEF IInv, TypeOK
<1>4. \A u \in Thread : u # t => pc'[u] = pc[u] /\ arg'[u] = arg[u]
  BY <1>2 DEF IInv, TypeOK
<1>5. pc'[t] = "idle" /\ list_lock'[l] = NULL
  BY <1>1, <1>2 DEF IInv, TypeOK
<1>6. \A m \in List : m # l => list_lock'[m] = list_lock[m]
  BY <1>2 DEF IInv, TypeOK
<1>7. LocksHeld'
  <2>1. ASSUME NEW u \in Thread, pc'[u] # "idle"
        PROVE  arg'[u].list \in List /\ arg'[u].entry \in Entry /\ list_lock'[arg'[u].list] = u
    <3>1. u # t /\ pc[u] # "idle" /\ arg'[u] = arg[u]
      BY <1>4, <1>5, <2>1
    <3>2. arg[u].list \in List /\ arg[u].entry \in Entry /\ list_lock[arg[u].list] = u
      BY <3>1 DEF IInv, LocksHeld
    <3> QED
      BY <1>1, <1>6, <3>1, <3>2
  <2>2. ASSUME NEW m \in List, list_lock'[m] # NULL
        PROVE  pc'[list_lock'[m]] # "idle" /\ arg'[list_lock'[m]].list = m
    <3>1. m # l /\ list_lock'[m] = list_lock[m] /\ list_lock[m] \in Thread
      BY <1>5, <1>6, <2>2 DEF IInv, TypeOK
    <3>2. pc[list_lock[m]] # "idle" /\ arg[list_lock[m]].list = m
      BY <2>2, <3>1 DEF IInv, LocksHeld
    <3>3. list_lock[m] # t
      BY <3>1, <3>2
    <3> QED
      BY <1>4, <3>1, <3>2, <3>3
  <2> QED
    BY <2>1, <2>2 DEF LocksHeld
<1>8. \A x \in Entry : list'[x] = IF x = e THEN l ELSE list[x]
  BY <1>2 DEF IInv, TypeOK
<1>9. EntriesOwned'
  <2>1. ASSUME NEW u \in Thread, NEW x \in held'[u]
        PROVE  \/ list'[x] = NULL /\ next'[x] = NULL /\ prev'[x] = NULL
               \/ pc'[u] = "unlink" /\ arg'[u].entry = x
    <3>1. x \in held[u] /\ x # e /\ x \in Entry
      BY <1>1, <1>2, <2>1 DEF IInv, TypeOK
    <3>2. CASE list[x] = NULL /\ next[x] = NULL /\ prev[x] = NULL
      BY <1>2, <1>8, <3>1, <3>2
    <3>3. CASE pc[u] = "unlink" /\ arg[u].entry = x
      BY <1>1, <1>4, <3>3
    <3> QED
      BY <3>1, <3>2, <3>3 DEF IInv, EntriesOwned
  <2>2. ASSUME NEW u \in Thread, pc'[u] = "link"
        PROVE  list'[arg'[u].entry] = NULL /\ \A w \in Thread : arg'[u].entry \notin held'[w]
    <3>1. u # t /\ pc[u] = "link" /\ arg'[u] = arg[u]
      BY <1>4, <1>5, <2>2
    <3>2. /\ list[arg[u].entry] = NULL /\ \A w \in Thread : arg[u].entry \notin held[w]
          /\ arg[u].entry \in Entry /\ arg[u].entry # arg[t].entry
      BY <1>1, <3>1 DEF IInv, EntriesOwned, LocksHeld
    <3> QED
      BY <1>2, <1>8, <3>1, <3>2
  <2>3. ASSUME NEW u \in Thread, NEW w \in Thread, pc'[u] = "link", pc'[w] = "link",
               arg'[u].entry = arg'[w].entry
        PROVE  u = w
    BY <1>4, <1>5, <2>3 DEF IInv, EntriesOwned
  <2>4. ASSUME NEW u \in Thread, pc'[u] = "unlink"
        PROVE  arg'[u].entry \in held'[u] /\ list'[arg'[u].entry] = arg'[u].list
    <3>1. u # t /\ pc[u] = "unlink" /\ arg'[u] = arg[u]
      BY <1>4, <1>5, <2>4
    <3>2. /\ arg[u].entry \in held[u] /\ list[arg[u].entry] = arg[u].list
          /\ arg[u].entry \in Entry
      BY <3>1 DEF IInv, EntriesOwned, LocksHeld
    <3> QED
      BY <1>1, <1>2, <1>8, <3>1, <3>2
  <2>5. \A u, w \in Thread : \A x \in held'[u] : x \in held'[w] => u = w
    BY <1>2 DEF IInv, EntriesOwned
  <2> QED
    BY <2>1, <2>2, <2>3, <2>4, <2>5 DEF EntriesOwned
<1>10. IsSequence(l)'
  <2>1. Linking(l) /\ ~Unlinking(l) /\ Moved(l) = e
    BY <1>1 DEF Linking, Unlinking, Moved
  <2>2. ~Linking(l)' /\ ~Unlinking(l)'
    BY <1>5 DEF Linking, Unlinking
  <2>3. first'[l] = e /\ numentries'[l] = numentries[l] + 1 /\ numentries[l] \in Int
    BY <1>1, <1>2 DEF IInv, TypeOK
  <2>4. Length(l)' = Length(l) /\ Front(l)' = Front(l)
    BY <2>1, <2>2, <2>3 DEF Length, Front
  <2>5. Members(l)' = Members(l)
    BY <1>8, <2>1, <2>2 DEF Members, On
  <2>6. IsSequence(l)
    BY <1>1 DEF IInv, ListsAreSequences
  <2> QED
    BY <1>2, <2>4, <2>5, <2>6 DEF IsSequence
<1>11. ASSUME NEW m \in List, m # l PROVE IsSequence(m)'
  <2>1. first'[m] = first[m] /\ last'[m] = last[m] /\ numentries'[m] = numentries[m]
    BY <1>2, <1>11 DEF IInv, TypeOK
  <2>2. \A x \in Entry : list'[x] = list[x] \/ (list[x] # m /\ list'[x] # m)
    BY <1>1, <1>8, <1>11, ListsAssumption
  <2> QED
    BY <1>1, <1>2, <1>11, <2>1, <2>2, OthersKeep
<1>12. ListsAreSequences'
  BY <1>10, <1>11 DEF ListsAreSequences
<1> QED
  BY <1>2, <1>3, <1>7, <1>9, <1>12 DEF IInv, AssertionsHold

\* What dequeue_fifo and page_list_remove_page have in common: the links of
\* both neighbours, and the ends of the list, lead around the entry.
LEMMA TakeOutKeeps ==
  ASSUME IInv, NEW t \in Thread, NEW l \in List, NEW e \in Entry,
         pc[t] = "idle", list_lock[l] = NULL, list[e] = l,
         first' = [first EXCEPT ![l] = IF @ = e THEN next[e] ELSE @],
         last' = [last EXCEPT ![l] = IF @ = e THEN prev[e] ELSE @],
         prev' = Set(prev, next[e], prev[e]),
         next' = Set(next, prev[e], next[e]),
         result' \in [Thread -> Pointer],
         held' = [held EXCEPT ![t] = @ \cup {e}],
         GoOn(t, l, e, "unlink"),
         UNCHANGED <<numentries, list, failed>>
  PROVE  IInv'
<1>1. /\ list_lock' = [list_lock EXCEPT ![l] = t]
      /\ pc' = [pc EXCEPT ![t] = "unlink"]
      /\ arg' = [arg EXCEPT ![t] = [list |-> l, entry |-> e]]
  BY DEF GoOn
<1>2. /\ Members(l) = {x \in Entry : list[x] = l}
      /\ IsChain(numentries[l], next, prev, last[l], first[l], Members(l))
  BY AtRest
<1>3. e \in Members(l)
  BY <1>2
<1>4. /\ numentries[l] > 0
      /\ prev[e] # NULL => prev[e] \in Members(l) /\ prev[e] # e
      /\ next[e] # NULL => next[e] \in Members(l) /\ next[e] # e
  BY <1>2, <1>3, NeighboursInChain
<1>5. /\ \A x \in Entry : prev'[x] = IF x = next[e] THEN prev[e] ELSE prev[x]
      /\ \A x \in Entry : next'[x] = IF x = prev[e] THEN next[e] ELSE next[x]
  BY EntriesAssumption DEF Set, IInv, TypeOK
<1>6. TypeOK'
  <2>1. prev' \in [Entry -> Pointer] /\ next' \in [Entry -> Pointer]
    BY DEF Set, IInv, TypeOK, Pointer
  <2>2. arg' \in [Thread -> [list : List \cup {NULL}, entry : Pointer]]
    BY <1>1 DEF IInv, TypeOK, Pointer
  <2>3. held' \in [Thread -> SUBSET Entry]
    BY DEF IInv, TypeOK
  <2>4. first' \in [List -> Pointer] /\ last' \in [List -> Pointer]
    BY DEF IInv, TypeOK, Pointer
  <2>5. /\ list_lock' \in [List -> Thread \cup {NULL}]
        /\ pc' \in [Thread -> {"idle", "link", "unlink"}]
    BY <1>1 DEF IInv, TypeOK
  <2> QED
    BY <2>1, <2>2, <2>3, <2>4, <2>5 DEF IInv, TypeOK
<1>7. \A u \in Thread : u # t => pc'[u] = pc[u] /\ arg'[u] = arg[u] /\ held'[u] = held[u]
  BY <1>1 DEF IInv, TypeOK
<1>8. /\ pc'[t] = "unlink" /\ arg'[t].entry = e /\ arg'[t].list = l /\ held'[t] = held[t] \cup {e}
      /\ list_lock'[l] = t /\ t # NULL
  BY <1>1, CallersAssumption DEF IInv, TypeOK
<1>9. \A m \in List : m # l => list_lock'[m] = list_lock[m]
  BY <1>1 DEF IInv, TypeOK
<1>10. LocksHeld'
  <2>1. ASSUME NEW u \in Thread, u # t, pc'[u] # "idle"
        PROVE  arg'[u].list \in List /\ arg'[u].entry \in Entry /\ list_lock'[arg'[u].list] = u
    <3>1. arg[u].list \in List /\ arg[u].entry \in Entry /\ list_lock[arg[u].list] = u
      BY <1>7, <2>1 DEF IInv, LocksHeld
    <3>2. arg[u].list # l
      BY <3>1, CallersAssumption
    <3> QED
      BY <1>7, <1>9, <2>1, <3>1, <3>2
  <2>2. ASSUME NEW m \in List, list_lock'[m] # NULL
        PROVE  pc'[list_lock'[m]] # "idle" /\ arg'[list_lock'[m]].list = m
    <3>1. CASE m = l
      BY <1>8, <3>1
    <3>2. CASE m # l
      <4>1. list_lock'[m] = list_lock[m] /\ list_lock[m] \in Thread
        BY <1>9, <2>2, <3>2 DEF IInv, TypeOK
      <4>2. pc[list_lock[m]] # "idle" /\ arg[list_lock[m]].list = m
        BY <2>2, <4>1 DEF IInv, LocksHeld
      <4> QED
        BY <1>7, <4>1, <4>2
    <3> QED
      BY <3>1, <3>2
  <2> QED
    BY <1>8, <2>1, <2>2 DEF LocksHeld
<1>11. ASSUME NEW u \in Thread, e \in held[u] PROVE FALSE
  <2>1. pc[u] = "unlink" /\ arg[u].entry = e
    BY <1>11, ListsAssumption DEF IInv, EntriesOwned
  <2>2. list[e] = arg[u].list /\ list_lock[arg[u].list] = u
    BY <2>1 DEF IInv, EntriesOwned, LocksHeld
  <2> QED
    BY <2>2, CallersAssumption
<1>12. EntriesOwned'
  <2>1. ASSUME NEW u \in Thread, NEW x \in held'[u]
        PROVE  \/ list'[x] = NULL /\ next'[x] = NULL /\ prev'[x] = NULL
               \/ pc'[u] = "unlink" /\ arg'[u].entry = x
    <3>1. CASE x \notin held[u]
      BY <1>7, <1>8, <2>1, <3>1
    <3>2. CASE x \in held[u] /\ list[x] = NULL /\ next[x] = NULL /\ prev[x] = NULL
      <4>1. x \in Entry
        BY <3>2 DEF IInv, TypeOK
      <4>2. x \notin Members(l)
        BY <1>2, <3>2, ListsAssumption
      <4>3. x # next[e] /\ x # prev[e]
        BY <1>4, <4>1, <4>2, EntriesAssumption
      <4> QED
        BY <1>5, <3>2, <4>1, <4>3
    <3>3. CASE pc[u] = "unlink" /\ arg[u].entry = x
      BY <1>7, <3>3
    <3> QED
      BY <3>1, <3>2, <3>3 DEF IInv, EntriesOwned
  <2>2. ASSUME NEW u \in Thread, pc'[u] = "link"
        PROVE  list'[arg'[u].entry] = NULL /\ \A w \in Thread : arg'[u].entry \notin held'[w]
    <3>1. u # t /\ pc[u] = "link" /\ arg'[u] = arg[u]
      BY <1>7, <1>8, <2>2
    <3>2. list[arg[u].entry] = NULL /\ \A w \in Thread : arg[u].entry \notin held[w]
      BY <3>1 DEF IInv, EntriesOwned
    <3>3. arg[u].entry # e
      BY <3>2, ListsAssumption
    <3> QED
      BY <1>7, <1>8, <3>1, <3>2, <3>3
  <2>3. ASSUME NEW u \in Thread, NEW w \in Thread, pc'[u] = "link", pc'[w] = "link",
               arg'[u].entry = arg'[w].entry
        PROVE  u = w
    BY <1>7, <1>8, <2>3 DEF IInv, EntriesOwned
  <2>4. ASSUME NEW u \in Thread, pc'[u] = "unlink"
        PROVE  arg'[u].entry \in held'[u] /\ list'[arg'[u].entry] = arg'[u].list
    BY <1>7, <1>8, <2>4 DEF IInv, EntriesOwned
  <2>5. ASSUME NEW u \in Thread, NEW w \in Thread, NEW x \in held'[u], x \in held'[w]
        PROVE  u = w
    BY <1>7, <1>8, <1>11, <2>5 DEF IInv, EntriesOwned
  <2> QED
    BY <2>1, <2>2, <2>3, <2>4, <2>5 DEF EntriesOwned
<1>13. IsSequence(l)'
  <2>1. ~Linking(l)' /\ Unlinking(l)' /\ Moved(l)' = e
    BY <1>8 DEF Linking, Unlinking, Moved
  <2>2. first'[l] = (IF first[l] = e THEN next[e] ELSE first[l])
        /\ last'[l] = (IF last[l] = e THEN prev[e] ELSE last[l])
    BY DEF IInv, TypeOK
  <2>3. Length(l)' = numentries[l] - 1 /\ Front(l)' = first'[l]
    BY <2>1 DEF Length, Front, IInv, TypeOK
  <2>4. \A x \in Entry : x \in Members(l)' <=> x \in Members(l) /\ x # e
    BY <1>2, <2>1 DEF Members, On
  <2>5. IsChain(numentries[l] - 1, next', prev', last'[l], first'[l], Members(l)')
    <3>1. \A x \in Entry : x \in Members(l) /\ x # e =>
            /\ next'[x] = IF x = prev[e] THEN next[e] ELSE next[x]
            /\ prev'[x] = IF x = next[e] THEN prev[e] ELSE prev[x]
      BY <1>5
    <3>2. /\ last'[l] = IF last[l] = e THEN prev[e] ELSE last[l]
          /\ first'[l] = IF first[l] = e THEN next[e] ELSE first[l]
      BY <2>2
    <3> QED
      BY <1>2, <1>3, <2>4, <3>1, <3>2, ShorterChain, SMTT(60)
  <2> QED
    BY <2>3, <2>5 DEF IsSequence
<1>14. ASSUME NEW m \in List, m # l PROVE IsSequence(m)'
  <2>1. ASSUME NEW x \in Entry, On(x, m) PROVE next'[x] = next[x] /\ prev'[x] = prev[x]
    <3>1. x \notin Members(l)
      BY <1>14, <2>1, OneListEach DEF Members
    <3>2. x # next[e] /\ x # prev[e]
      BY <1>4, <3>1, EntriesAssumption
    <3> QED
      BY <1>5, <3>2
  <2>2. first'[m] = first[m] /\ last'[m] = last[m] /\ numentries'[m] = numentries[m]
    BY <1>14 DEF IInv, TypeOK
  <2> QED
    BY <1>1, <1>14, <2>1, <2>2, OthersKeep
<1>15. ListsAreSequences'
  BY <1>13, <1>14 DEF ListsAreSequences
<1> QED
  BY <1>6, <1>10, <1>12, <1>15 DEF IInv, AssertionsHold

\* dequeue_fifo, as far as the links of the neighbour.
LEMMA DequeueKeeps ==
  ASSUME IInv, NEW t \in Thread, NEW l \in List, Dequeue(t, l)
  PROVE  IInv'
<1>1. pc[t] = "idle" /\ list_lock[l] = NULL
  BY DEF Dequeue, Ready, Unlocked
<1>2. CASE last[l] = NULL
  <2>1. result' \in [Thread -> Pointer]
    BY <1>2 DEF Dequeue, IInv, TypeOK, Pointer
  <2> QED
    BY <1>2, <2>1, ResultKeeps DEF Dequeue
<1>3. CASE last[l] # NULL
  <2> DEFINE e == last[l]
  <2>1. /\ last' = [last EXCEPT ![l] = prev[e]]
        /\ first' = IF prev[e] = NULL THEN [first EXCEPT ![l] = NULL] ELSE first
        /\ next' = Set(next, prev[e], NULL)
        /\ result' = [result EXCEPT ![t] = e]
        /\ held' = [held EXCEPT ![t] = @ \cup {e}]
        /\ GoOn(t, l, e, "unlink")
        /\ UNCHANGED <<numentries, prev, list, failed>>
    BY <1>3 DEF Dequeue
  <2>2. /\ Members(l) = {x \in Entry : list[x] = l}
        /\ IsChain(numentries[l], next, prev, last[l], first[l], Members(l))
    BY <1>1, AtRest
  <2>3. e \in Entry /\ e \in Members(l) /\ next[e] = NULL /\ list[e] = l
    BY <1>3, <2>2, EndsOfChain
  <2>4. prev[e] = NULL <=> e = first[l]
    BY <2>2, <2>3, NeighboursInChain
  <2>5. first \in [List -> Pointer] /\ last \in [List -> Pointer]
        /\ prev \in [Entry -> Pointer] /\ result \in [Thread -> Pointer]
    BY DEF IInv, TypeOK
  <2> HIDE DEF e
  <2>6. first' = [first EXCEPT ![l] = IF @ = e THEN next[e] ELSE @]
    BY <2>1, <2>3, <2>4, <2>5
  <2>7. last' = [last EXCEPT ![l] = IF @ = e THEN prev[e] ELSE @]
    BY <2>1, <2>5 DEF e
  <2>8. prev' = Set(prev, next[e], prev[e]) /\ next' = Set(next, prev[e], next[e])
    BY <2>1, <2>3, <2>5 DEF Set
  <2>9. result' \in [Thread -> Pointer]
    BY <2>1, <2>3, <2>5 DEF Pointer
  <2> QED
    BY <1>1, <2>1, <2>3, <2>6, <2>7, <2>8, <2>9, TakeOutKeeps
<1> QED
  BY <1>2, <1>3

-----------------------------------------------------------------------------
(* What the links lead to.                                                  *)

\* A set of numbers that is not empty has a least one: induction, for a property
\* that an operator cannot be named for.
LEMMA LeastNumber ==
  ASSUME NEW T, T \subseteq Nat, T # {}
  PROVE  \E m \in T : \A k \in T : m <= k
<1> DEFINE R == OpToRel(<, Nat)
<1>1. IsWellFoundedOn(R, Nat)
  BY NatLessThanWellFounded
<1>2. \A k, j \in Nat : <<k, j>> \in R <=> k < j
  BY DEF OpToRel
<1> HIDE DEF R
<1>3. PICK m \in T : \A k \in T : ~(<<k, m>> \in R)
  BY <1>1, WFMin
<1>4. ASSUME NEW k \in T PROVE m <= k
  <2>1. m \in Nat /\ k \in Nat /\ ~(k < m)
    BY <1>2, <1>3
  <2> QED
    BY <2>1
<1> QED
  BY <1>4

\* What the function of Chain is, for sequences of at most n entries.
Follows(f, n, g) ==
  g = [k \in 0 .. n |-> [x \in Pointer |->
         IF x = NULL \/ k = 0 THEN <<>> ELSE <<x>> \o g[k - 1][f[x]]]]

\* Its value, one link further.
LEMMA FollowsValue ==
  ASSUME NEW f, NEW n, NEW g, Follows(f, n, g), NEW k \in 0 .. n, NEW x \in Pointer
  PROVE  g[k][x] = IF x = NULL \/ k = 0 THEN <<>> ELSE <<x>> \o g[k - 1][f[x]]
<1> DEFINE B(j) == [y \in Pointer |->
                      IF y = NULL \/ j = 0 THEN <<>> ELSE <<y>> \o g[j - 1][f[y]]]
<1>1. g = [j \in 0 .. n |-> B(j)]
  BY DEF Follows
<1>2. B(k)[x] = IF x = NULL \/ k = 0 THEN <<>> ELSE <<x>> \o g[k - 1][f[x]]
  OBVIOUS
<1> HIDE DEF B
<1>3. g[k] = B(k)
  BY <1>1
<1> QED
  BY <1>2, <1>3

\* There is such a function: the recursion of Chain is well defined.
LEMMA FollowsExists ==
  ASSUME NEW f \in [Entry -> Pointer], NEW n \in Nat
  PROVE  \E g : Follows(f, n, g)
<1> DEFINE Bad == {k \in Nat : ~ \E g : Follows(f, k, g)}
<1> SUFFICES ASSUME Bad # {} PROVE FALSE
  OBVIOUS
<1>1. PICK m \in Bad : \A k \in Bad : m <= k
  BY LeastNumber
<1>2. CASE m = 0
  <2> DEFINE g == [k \in 0 .. 0 |-> [x \in Pointer |-> <<>>]]
  <2>1. g = [k \in 0 .. 0 |-> [x \in Pointer |->
               IF x = NULL \/ k = 0 THEN <<>> ELSE <<x>> \o g[k - 1][f[x]]]]
    OBVIOUS
  <2> HIDE DEF g
  <2>2. Follows(f, 0, g)
    BY <2>1 DEF Follows
  <2> QED
    BY <1>1, <1>2, <2>2
<1>3. CASE m # 0
  <2>1. m - 1 \in Nat /\ m - 1 \notin Bad
    BY <1>1, <1>3
  <2>2. PICK g : Follows(f, m - 1, g)
    BY <2>1
  <2> DEFINE h == [k \in 0 .. m |-> [x \in Pointer |->
                     IF x = NULL \/ k = 0 THEN <<>> ELSE <<x>> \o g[k - 1][f[x]]]]
  <2>3. ASSUME NEW k \in 0 .. m - 1, NEW x \in Pointer PROVE h[k][x] = g[k][x]
    <3>1. g[k][x] = IF x = NULL \/ k = 0 THEN <<>> ELSE <<x>> \o g[k - 1][f[x]]
      BY <2>2, FollowsValue
    <3>2. k \in 0 .. m
      BY <1>1
    <3> QED
      BY <3>1, <3>2
  <2>4. ASSUME NEW k \in 0 .. m, NEW x \in Pointer, ~(x = NULL \/ k = 0)
        PROVE  g[k - 1][f[x]] = h[k - 1][f[x]]
    <3>1. k - 1 \in 0 .. m - 1 /\ f[x] \in Pointer
      BY <1>1, <2>4 DEF Pointer
    <3> QED
      BY <2>3, <3>1
  <2>5. h = [k \in 0 .. m |-> [x \in Pointer |->
               IF x = NULL \/ k = 0 THEN <<>> ELSE <<x>> \o h[k - 1][f[x]]]]
    BY <2>4
  <2> HIDE DEF h
  <2>6. Follows(f, m, h)
    BY <2>5 DEF Follows
  <2> QED
    BY <1>1, <2>6
<1> QED
  BY <1>2, <1>3

\* An entry before a sequence of entries.
LEMMA OneMore ==
  ASSUME NEW x \in Entry, NEW m \in Nat, NEW s \in [1 .. m -> Entry]
  PROVE  <<x>> \o s = [j \in 1 .. m + 1 |-> IF j = 1 THEN x ELSE s[j - 1]]
<1> DEFINE r == [j \in 1 .. m + 1 |-> IF j = 1 THEN x ELSE s[j - 1]]
<1>1. s \in Seq(Entry) /\ Len(s) = m /\ <<x>> \in Seq(Entry) /\ Len(<<x>>) = 1 /\ <<x>>[1] = x
  OBVIOUS
<1>2. r \in [1 .. m + 1 -> Entry]
  <2>1. \A j \in 1 .. m + 1 : j # 1 => j - 1 \in 1 .. m
    OBVIOUS
  <2> QED
    BY <2>1
<1>3. r \in Seq(Entry) /\ Len(r) = m + 1
  BY <1>2
<1>4. \A j \in 1 .. m + 1 : r[j] = IF j = 1 THEN x ELSE s[j - 1]
  OBVIOUS
<1> HIDE DEF r
<1>5. /\ <<x>> \o s \in Seq(Entry) /\ Len(<<x>> \o s) = 1 + m
      /\ \A j \in 1 .. 1 + m : (<<x>> \o s)[j] = IF j <= 1 THEN <<x>>[j] ELSE s[j - 1]
  BY <1>1, ConcatProperties, Zenon
<1>6. ASSUME NEW j \in 1 .. m + 1 PROVE (<<x>> \o s)[j] = r[j]
  <2>1. j \in 1 .. 1 + m /\ (j <= 1 <=> j = 1)
    OBVIOUS
  <2> QED
    BY <1>1, <1>4, <1>5, <2>1
<1>7. Len(<<x>> \o s) = Len(r)
  BY <1>3, <1>5
<1>8. \A j \in 1 .. Len(<<x>> \o s) : (<<x>> \o s)[j] = r[j]
  BY <1>5, <1>6
<1> QED
  BY <1>3, <1>5, <1>7, <1>8, SeqEqual DEF r

\* What is met when the links f are followed along the entries q.
LEMMA ChainFollows ==
  ASSUME NEW f \in [Entry -> Pointer], NEW n \in Nat, n <= Cardinality(Entry),
         NEW q \in [1 .. n -> Entry],
         \A i \in 1 .. n : f[q[i]] = IF i = n THEN NULL ELSE q[i + 1],
         NEW e, e = IF n = 0 THEN NULL ELSE q[1]
  PROVE  Chain(f, e) = q
<1> DEFINE N == Cardinality(Entry)
<1>1. N \in Nat /\ n <= N
  BY EntriesAssumption, FS_CardinalityType
<1> DEFINE c == CHOOSE g : Follows(f, N, g)
<1>2. Follows(f, N, c)
  BY <1>1, FollowsExists
<1>3. Chain(f, e) = c[N][e]
  BY DEF Chain, Follows, Pointer
<1> HIDE DEF N, c
<1>4. ASSUME NEW k \in 0 .. N, NEW x \in Pointer
      PROVE  c[k][x] = IF x = NULL \/ k = 0 THEN <<>> ELSE <<x>> \o c[k - 1][f[x]]
  BY <1>2, FollowsValue
<1> DEFINE At(i) == IF i = n + 1 THEN NULL ELSE q[i]
           Rest(i) == [j \in 1 .. n + 1 - i |-> q[i + j - 1]]
           Right(i) == \A k \in 0 .. N : n + 1 - i <= k => c[k][At(i)] = Rest(i)
           Wrong == {d \in Nat : d <= n /\ ~Right(n + 1 - d)}
<1> HIDE DEF Right
<1>5. Wrong = {}
  <2> SUFFICES ASSUME Wrong # {} PROVE FALSE
    OBVIOUS
  <2>1. PICK d \in Wrong : \A j \in Wrong : d <= j
    BY LeastNumber
  <2>2. PICK i \in 1 .. n + 1 : i = n + 1 - d
    BY <2>1
  <2>3. d \in Nat /\ d = n + 1 - i /\ d <= n /\ ~Right(i)
    BY <2>1, <2>2
  <2>4. CASE i = n + 1
    <3>1. ASSUME NEW k \in 0 .. N PROVE c[k][At(n + 1)] = <<>>
      <4>1. At(n + 1) = NULL /\ NULL \in Pointer
        BY DEF Pointer
      <4> QED
        BY <1>4, <4>1
    <3>2. Rest(n + 1) = <<>>
      <4>1. n + 1 - (n + 1) = 0
        OBVIOUS
      <4> QED
        BY <4>1
    <3> QED
      BY <2>3, <2>4, <3>1, <3>2 DEF Right
  <2>5. CASE i # n + 1
    <3>1. i \in 1 .. n
      BY <2>2, <2>5
    <3>2. At(i) = q[i] /\ q[i] \in Entry /\ q[i] # NULL /\ q[i] \in Pointer
      BY <3>1, EntriesAssumption DEF Pointer
    <3>3. f[q[i]] = At(i + 1)
      BY <3>1
    <3>4. Right(i + 1)
      <4>1. d - 1 \in Nat /\ d - 1 <= n /\ ~(d <= d - 1) /\ n + 1 - (d - 1) = i + 1
        BY <2>3, <3>1
      <4>2. d - 1 \notin Wrong
        BY <2>1, <4>1
      <4> QED
        BY <4>1, <4>2
    <3>5. <<q[i]>> \o Rest(i + 1) = Rest(i)
      <4>1. PICK m \in Nat : m = n - i /\ n + 1 - (i + 1) = m /\ n + 1 - i = m + 1
        BY <3>1
      <4>2. Rest(i + 1) = [j \in 1 .. m |-> q[i + 1 + j - 1]]
        BY <4>1
      <4>3. Rest(i + 1) \in [1 .. m -> Entry]
        <5>1. \A j \in 1 .. m : i + 1 + j - 1 \in 1 .. n
          BY <3>1, <4>1
        <5> QED
          BY <4>2, <5>1
      <4>4. <<q[i]>> \o Rest(i + 1) = [j \in 1 .. m + 1 |-> IF j = 1 THEN q[i] ELSE Rest(i + 1)[j - 1]]
        BY <3>2, <4>1, <4>3, OneMore
      <4>5. ASSUME NEW j \in 1 .. m + 1
            PROVE  (IF j = 1 THEN q[i] ELSE Rest(i + 1)[j - 1]) = q[i + j - 1]
        <5>1. CASE j = 1
          BY <3>1, <5>1
        <5>2. CASE j # 1
          <6>1. j - 1 \in 1 .. m /\ i + 1 + (j - 1) - 1 = i + j - 1
            BY <3>1, <4>1, <5>2
          <6>2. Rest(i + 1)[j - 1] = q[i + 1 + (j - 1) - 1]
            BY <4>2, <6>1
          <6> QED
            BY <5>2, <6>1, <6>2
        <5> QED
          BY <5>1, <5>2
      <4>6. Rest(i) = [j \in 1 .. m + 1 |-> q[i + j - 1]]
        BY <4>1
      <4> HIDE DEF Rest
      <4> QED
        BY <4>4, <4>5, <4>6
    <3>6. ASSUME NEW k \in 0 .. N, n + 1 - i <= k PROVE c[k][At(i)] = Rest(i)
      <4>1. k # 0 /\ k - 1 \in 0 .. N /\ n + 1 - (i + 1) <= k - 1
        BY <1>1, <3>1, <3>6
      <4>2. c[k][q[i]] = <<q[i]>> \o c[k - 1][f[q[i]]]
        BY <1>4, <3>2, <4>1
      <4>3. c[k - 1][At(i + 1)] = Rest(i + 1)
        BY <3>4, <4>1 DEF Right
      <4> HIDE DEF Rest, At
      <4> QED
        BY <3>2, <3>3, <3>5, <4>2, <4>3
    <3> QED
      BY <2>3, <3>6 DEF Right
  <2> QED
    BY <2>4, <2>5
<1>6. Right(1)
  <2>1. n \notin Wrong /\ n + 1 - n = 1
    BY <1>5
  <2> QED
    BY <2>1
<1>7. c[N][At(1)] = Rest(1)
  <2>1. N \in 0 .. N /\ n + 1 - 1 <= N
    BY <1>1
  <2> QED
    BY <1>6, <2>1 DEF Right
<1>8. At(1) = e /\ Rest(1) = q
  OBVIOUS
<1> QED
  BY <1>3, <1>7, <1>8

\* A list has no more entries than there are.
LEMMA NoMoreThanEntries ==
  ASSUME NEW n \in Nat, NEW q \in [1 .. n -> Entry], \A i, j \in 1 .. n : q[i] = q[j] => i = j
  PROVE  n <= Cardinality(Entry)
<1>1. q \in Injection(1 .. n, Entry)
  BY DEF Injection, IsInjective
<1>2. Cardinality(1 .. n) <= Cardinality(Entry)
  BY <1>1, EntriesAssumption, FS_Injection
<1>3. Cardinality(1 .. n) = n
  BY FS_Interval
<1> QED
  BY <1>2, <1>3

\* The first n entries of q in the opposite order.
Backwards(q, n) == [i \in 1 .. n |-> q[n + 1 - i]]

\* A list is what is met from its last entry, and backwards from its first one.
LEMMA ChainOfList ==
  ASSUME NEW n, NEW nx \in [Entry -> Pointer], NEW pv \in [Entry -> Pointer],
         NEW la, NEW fr, NEW S, NEW q \in [1 .. n -> Entry], Lists(q, n, nx, pv, la, fr, S)
  PROVE  Chain(pv, la) = q /\ Chain(nx, fr) = Backwards(q, n)
<1>1. n \in Nat
  BY DEF Lists
<1>2. n <= Cardinality(Entry)
  BY <1>1, NoMoreThanEntries DEF Lists
<1>3. Chain(pv, la) = q
  BY <1>1, <1>2, ChainFollows DEF Lists
<1>4. Chain(nx, fr) = Backwards(q, n)
  <2> DEFINE r == [i \in 1 .. n |-> q[n + 1 - i]]
  <2>1. r \in [1 .. n -> Entry] /\ \A i \in 1 .. n : r[i] = q[n + 1 - i]
    BY <1>1
  <2>2. fr = IF n = 0 THEN NULL ELSE r[1]
    BY <1>1 DEF Lists
  <2> HIDE DEF r
  <2>3. ASSUME NEW i \in 1 .. n PROVE nx[r[i]] = IF i = n THEN NULL ELSE r[i + 1]
    <3>1. n + 1 - i \in 1 .. n /\ (n + 1 - i = 1 <=> i = n)
      BY <1>1
    <3>2. nx[r[i]] = IF n + 1 - i = 1 THEN NULL ELSE q[n + 1 - i - 1]
      BY <2>1, <3>1 DEF Lists
    <3>3. i # n => i + 1 \in 1 .. n /\ n + 1 - (i + 1) = n + 1 - i - 1
      BY <1>1
    <3> QED
      BY <2>1, <3>1, <3>2, <3>3
  <2>4. Chain(nx, fr) = r
    BY <1>1, <1>2, <2>1, <2>2, <2>3, ChainFollows
  <2> QED
    BY <2>4 DEF r, Backwards
<1> QED
  BY <1>3, <1>4

\* The abstract queue of a list.
QueueOf(l) == Chain(prev, last[l])

\* The entries of a list in a state of the invariant.
LEMMA QueueIsList ==
  ASSUME IInv, NEW l \in List
  PROVE  /\ Length(l) \in Nat
         /\ QueueOf(l) \in [1 .. Length(l) -> Entry]
         /\ Lists(QueueOf(l), Length(l), next, prev, last[l], Front(l), Members(l))
         /\ Length(l) <= Cardinality(Entry)
         /\ Chain(next, Front(l)) = Backwards(QueueOf(l), Length(l))
<1>1. next \in [Entry -> Pointer] /\ prev \in [Entry -> Pointer]
  BY DEF IInv, TypeOK
<1>2. PICK q \in [1 .. Length(l) -> Entry] :
         Lists(q, Length(l), next, prev, last[l], Front(l), Members(l))
  BY DEF IInv, ListsAreSequences, IsSequence, IsChain
<1>3. Length(l) \in Nat
  BY <1>2 DEF Lists
<1>4. Length(l) <= Cardinality(Entry)
  BY <1>2, <1>3, NoMoreThanEntries DEF Lists
<1>5. Chain(prev, last[l]) = q
        /\ Chain(next, Front(l)) = Backwards(q, Length(l))
  BY <1>1, <1>2, ChainOfList
<1>6. QueueOf(l) = q
  BY <1>5 DEF QueueOf
<1> QED
  BY <1>2, <1>3, <1>4, <1>5, <1>6

\* In a state of the invariant the two directions agree.
LEMMA EndsAgree ==
  ASSUME IInv
  PROVE  BothEndsAgree
<1> SUFFICES ASSUME NEW l \in List, list_lock[l] = NULL
             PROVE  /\ Len(QueueOf(l)) = numentries[l]
                    /\ Chain(next, first[l])
                         = [i \in 1 .. Len(QueueOf(l)) |-> QueueOf(l)[Len(QueueOf(l)) + 1 - i]]
                    /\ {QueueOf(l)[i] : i \in 1 .. Len(QueueOf(l))} = {e \in Entry : list[e] = l}
  BY DEF BothEndsAgree, QueueOf, Unlocked
<1> DEFINE n == numentries[l]
           q == QueueOf(l)
<1>1. /\ Length(l) = n /\ Front(l) = first[l]
      /\ Members(l) = {e \in Entry : list[e] = l}
  BY AtRest
<1>2. /\ n \in Nat /\ q \in [1 .. n -> Entry]
      /\ Lists(q, n, next, prev, last[l], first[l], Members(l))
      /\ Chain(next, first[l]) = Backwards(q, n)
  BY <1>1, QueueIsList
<1> HIDE DEF n, q
<1>3. Len(q) = n
  BY <1>2
<1>4. {q[i] : i \in 1 .. n} = Members(l)
  <2>1. \A i \in 1 .. n : q[i] \in Entry /\ q[i] \in Members(l)
    BY <1>2 DEF Lists
  <2>2. \A e \in Members(l) : \E i \in 1 .. n : q[i] = e
    BY <1>2 DEF Lists, Members
  <2> QED
    BY <2>1, <2>2
<1> QED
  BY <1>1, <1>2, <1>3, <1>4 DEF n, q, Backwards

\* An entry that is met on a list says so, while nobody is at work on the list.
LEMMA ListedEntries ==
  ASSUME IInv, NEW l \in List, list_lock[l] = NULL, NEW e, Listed(l, e)
  PROVE  list[e] = l
<1>1. /\ Length(l) \in Nat /\ QueueOf(l) \in [1 .. Length(l) -> Entry]
      /\ Lists(QueueOf(l), Length(l), next, prev, last[l], Front(l), Members(l))
  BY QueueIsList
<1>2. Members(l) = {x \in Entry : list[x] = l}
  BY AtRest
<1>3. PICK i \in 1 .. Length(l) : QueueOf(l)[i] = e
  BY <1>1 DEF Listed, QueueOf
<1>4. QueueOf(l)[i] \in Members(l)
  BY <1>1 DEF Lists
<1> QED
  BY <1>2, <1>3, <1>4

-----------------------------------------------------------------------------
(* Every step keeps the invariant: taking out, and looking.                 *)

\* page_list_remove_page, as far as the links of the neighbours.
LEMMA RemovePageKeeps ==
  ASSUME IInv, NEW t \in Thread, NEW l \in List, NEW e \in Entry, RemovePage(t, l, e)
  PROVE  IInv'
<1>1. pc[t] = "idle" /\ list_lock[l] = NULL
  BY DEF RemovePage, Ready, Unlocked
<1>2. IsChain(numentries[l], next, prev, last[l], first[l], Members(l))
  BY <1>1, AtRest
<1>3. first[l] = NULL => last[l] = NULL /\ numentries[l] = 0
  BY <1>2, EndsOfChain
<1>4. result' \in [Thread -> Pointer]
  BY <1>3 DEF RemovePage, IInv, TypeOK
<1>5. Listed(l, e)
  BY <1>3 DEF RemovePage
<1>6. list[e] = l
  BY <1>1, <1>5, ListedEntries
<1> QED
  BY <1>1, <1>3, <1>4, <1>6, TakeOutKeeps DEF RemovePage, BypassPrev

\* The end of dequeue_fifo and of page_list_remove_page.
LEMMA UnlinkKeeps ==
  ASSUME IInv, NEW t \in Thread, Unlink(t),
         NEW l \in List, NEW e \in Entry, arg[t].list = l, arg[t].entry = e
  PROVE  IInv'
<1>1. /\ l \in List /\ e \in Entry /\ list_lock[l] = t /\ pc[t] = "unlink" /\ t # NULL
      /\ list[e] = l /\ e \in held[t]
  BY CallersAssumption DEF Unlink, IInv, LocksHeld, EntriesOwned
<1>2. ~Linking(l) /\ Unlinking(l) /\ Moved(l) = e
  BY <1>1 DEF Linking, Unlinking, Moved
<1>3. IsChain(Length(l), next, prev, last[l], Front(l), Members(l))
  BY <1>1 DEF IInv, ListsAreSequences, IsSequence
<1>4. numentries[l] \in Int /\ Length(l) = numentries[l] - 1 /\ Front(l) = first[l]
  BY <1>1, <1>2 DEF Length, Front, IInv, TypeOK
<1>5. numentries[l] > 0
  <2>1. Length(l) \in Nat
    BY <1>3, EndsOfChain
  <2> QED
    BY <1>4, <2>1
<1>6. /\ numentries' = [numentries EXCEPT ![l] = @ - 1]
      /\ prev' = [prev EXCEPT ![e] = NULL]
      /\ next' = [next EXCEPT ![e] = NULL]
      /\ list' = [list EXCEPT ![e] = NULL]
      /\ list_lock' = [list_lock EXCEPT ![l] = NULL]
      /\ pc' = [pc EXCEPT ![t] = "idle"]
      /\ arg' = [arg EXCEPT ![t] = [list |-> NULL, entry |-> NULL]]
      /\ UNCHANGED <<first, last, held, result, failed>>
  BY <1>4, <1>5 DEF Unlink, Return, ClearPrev
<1>7. TypeOK'
  <2>1. arg' \in [Thread -> [list : List \cup {NULL}, entry : Pointer]]
    BY <1>6 DEF IInv, TypeOK, Pointer
  <2>2. prev' \in [Entry -> Pointer] /\ next' \in [Entry -> Pointer]
    BY <1>6 DEF IInv, TypeOK, Pointer
  <2>3. numentries' \in [List -> Int] /\ list' \in [Entry -> List \cup {NULL}]
    BY <1>6 DEF IInv, TypeOK
  <2>4. /\ list_lock' \in [List -> Thread \cup {NULL}]
        /\ pc' \in [Thread -> {"idle", "link", "unlink"}]
    BY <1>6 DEF IInv, TypeOK
  <2> QED
    BY <1>6, <2>1, <2>2, <2>3, <2>4 DEF IInv, TypeOK
<1>8. \A u \in Thread : u # t => pc'[u] = pc[u] /\ arg'[u] = arg[u]
  BY <1>6 DEF IInv, TypeOK
<1>9. pc'[t] = "idle" /\ list_lock'[l] = NULL
  BY <1>1, <1>6 DEF IInv, TypeOK
<1>10. \A m \in List : m # l => list_lock'[m] = list_lock[m]
  BY <1>6 DEF IInv, TypeOK
<1>11. LocksHeld'
  <2>1. ASSUME NEW u \in Thread, pc'[u] # "idle"
        PROVE  arg'[u].list \in List /\ arg'[u].entry \in Entry /\ list_lock'[arg'[u].list] = u
    <3>1. u # t /\ pc[u] # "idle" /\ arg'[u] = arg[u]
      BY <1>8, <1>9, <2>1
    <3>2. arg[u].list \in List /\ arg[u].entry \in Entry /\ list_lock[arg[u].list] = u
      BY <3>1 DEF IInv, LocksHeld
    <3> QED
      BY <1>1, <1>10, <3>1, <3>2
  <2>2. ASSUME NEW m \in List, list_lock'[m] # NULL
        PROVE  pc'[list_lock'[m]] # "idle" /\ arg'[list_lock'[m]].list = m
    <3>1. m # l /\ list_lock'[m] = list_lock[m] /\ list_lock[m] \in Thread
      BY <1>9, <1>10, <2>2 DEF IInv, TypeOK
    <3>2. pc[list_lock[m]] # "idle" /\ arg[list_lock[m]].list = m
      BY <2>2, <3>1 DEF IInv, LocksHeld
    <3>3. list_lock[m] # t
      BY <3>1, <3>2
    <3> QED
      BY <1>8, <3>1, <3>2, <3>3
  <2> QED
    BY <2>1, <2>2 DEF LocksHeld
<1>12. /\ \A x \in Entry : list'[x] = IF x = e THEN NULL ELSE list[x]
       /\ \A x \in Entry : next'[x] = IF x = e THEN NULL ELSE next[x]
       /\ \A x \in Entry : prev'[x] = IF x = e THEN NULL ELSE prev[x]
  BY <1>6 DEF IInv, TypeOK
<1>13. EntriesOwned'
  <2>1. ASSUME NEW u \in Thread, NEW x \in held'[u]
        PROVE  \/ list'[x] = NULL /\ next'[x] = NULL /\ prev'[x] = NULL
               \/ pc'[u] = "unlink" /\ arg'[u].entry = x
    <3>1. x \in held[u] /\ x \in Entry
      BY <1>6, <2>1 DEF IInv, TypeOK
    <3>2. CASE x = e \/ (list[x] = NULL /\ next[x] = NULL /\ prev[x] = NULL)
      BY <1>12, <3>1, <3>2
    <3>3. CASE x # e /\ pc[u] = "unlink" /\ arg[u].entry = x
      <4>1. u # t
        BY <3>3
      <4> QED
        BY <1>8, <3>3, <4>1
    <3> QED
      BY <3>1, <3>2, <3>3 DEF IInv, EntriesOwned
  <2>2. ASSUME NEW u \in Thread, pc'[u] = "link"
        PROVE  list'[arg'[u].entry] = NULL /\ \A w \in Thread : arg'[u].entry \notin held'[w]
    <3>1. u # t /\ pc[u] = "link" /\ arg'[u] = arg[u]
      BY <1>8, <1>9, <2>2
    <3>2. /\ list[arg[u].entry] = NULL /\ \A w \in Thread : arg[u].entry \notin held[w]
          /\ arg[u].entry \in Entry
      BY <3>1 DEF IInv, EntriesOwned, LocksHeld
    <3> QED
      BY <1>6, <1>12, <3>1, <3>2
  <2>3. ASSUME NEW u \in Thread, NEW w \in Thread, pc'[u] = "link", pc'[w] = "link",
               arg'[u].entry = arg'[w].entry
        PROVE  u = w
    BY <1>8, <1>9, <2>3 DEF IInv, EntriesOwned
  <2>4. ASSUME NEW u \in Thread, pc'[u] = "unlink"
        PROVE  arg'[u].entry \in held'[u] /\ list'[arg'[u].entry] = arg'[u].list
    <3>1. u # t /\ pc[u] = "unlink" /\ arg'[u] = arg[u]
      BY <1>8, <1>9, <2>4
    <3>2. /\ arg[u].entry \in held[u] /\ list[arg[u].entry] = arg[u].list
          /\ arg[u].entry \in Entry
      BY <3>1 DEF IInv, EntriesOwned, LocksHeld
    <3>3. arg[u].entry # e
      BY <1>1, <3>1, <3>2 DEF IInv, EntriesOwned
    <3> QED
      BY <1>6, <1>12, <3>1, <3>2, <3>3
  <2>5. \A u, w \in Thread : \A x \in held'[u] : x \in held'[w] => u = w
    BY <1>6 DEF IInv, EntriesOwned
  <2> QED
    BY <2>1, <2>2, <2>3, <2>4, <2>5 DEF EntriesOwned
<1>14. IsSequence(l)'
  <2>1. ~Linking(l)' /\ ~Unlinking(l)'
    BY <1>9 DEF Linking, Unlinking
  <2>2. numentries'[l] = numentries[l] - 1
    BY <1>1, <1>6 DEF IInv, TypeOK
  <2>3. Length(l)' = Length(l) /\ Front(l)' = Front(l) /\ last'[l] = last[l]
    BY <1>4, <1>6, <2>1, <2>2 DEF Length, Front
  <2>4. e \notin Members(l)
    BY <1>2 DEF Members, On
  <2>5. Members(l)' = Members(l)
    BY <1>1, <1>2, <1>12, <2>1, ListsAssumption DEF Members, On
  <2>6. \A x \in Entry : x \in Members(l) => next'[x] = next[x] /\ prev'[x] = prev[x]
    BY <1>12, <2>4
  <2>7. IsChain(Length(l), next', prev', last[l], Front(l), Members(l))
    BY <1>3, <2>6, SameChain
  <2> QED
    BY <2>3, <2>5, <2>7 DEF IsSequence
<1>15. ASSUME NEW m \in List, m # l PROVE IsSequence(m)'
  <2>1. first'[m] = first[m] /\ last'[m] = last[m] /\ numentries'[m] = numentries[m]
    BY <1>6, <1>15 DEF IInv, TypeOK
  <2>2. \A x \in Entry : list'[x] = list[x] \/ (list[x] # m /\ list'[x] # m)
    BY <1>1, <1>12, <1>15, ListsAssumption
  <2>3. ~On(e, m)
    <3>1. ASSUME Linking(m), e = Moved(m) PROVE FALSE
      <4>1. list_lock[m] \in Thread /\ pc[list_lock[m]] = "link" /\ arg[list_lock[m]].entry = e
        BY <3>1 DEF Linking, Moved, IInv, TypeOK
      <4>2. list[e] = NULL
        BY <4>1 DEF IInv, EntriesOwned
      <4> QED
        BY <1>1, <4>2, ListsAssumption
    <3> QED
      BY <1>1, <1>15, <3>1 DEF On
  <2>4. \A x \in Entry : On(x, m) => next'[x] = next[x] /\ prev'[x] = prev[x]
    BY <1>12, <2>3
  <2> QED
    BY <1>1, <1>6, <1>15, <2>1, <2>2, <2>4, OthersKeep
<1>16. ListsAreSequences'
  BY <1>14, <1>15 DEF ListsAreSequences
<1> QED
  BY <1>6, <1>7, <1>11, <1>13, <1>16 DEF IInv, AssertionsHold

\* next_page.
LEMMA NextPageKeeps ==
  ASSUME IInv, NEW t \in Thread, NEW l \in List, NEW e \in Entry \cup {NULL}, NextPage(t, l, e)
  PROVE  IInv'
<1>1. list_lock[l] = NULL /\ (e # NULL => Listed(l, e))
  BY DEF NextPage, Ready, Unlocked
<1>2. e # NULL => list[e] = l
  BY <1>1, ListedEntries
<1>3. result' \in [Thread -> Pointer]
  BY <1>2 DEF NextPage, IInv, TypeOK, Pointer
<1> QED
  BY <1>2, <1>3, ResultKeeps DEF NextPage

-----------------------------------------------------------------------------

\* The invariant holds in every state.
THEOREM ListsInvariant == Spec => []IInv
<1>1. IInv /\ [Next]_vars => IInv'
  <2> SUFFICES ASSUME IInv, [Next]_vars PROVE IInv'
    OBVIOUS
  <2>1. CASE UNCHANGED vars
    BY <2>1, ResultKeeps DEF vars, IInv, TypeOK
  <2>2. ASSUME NEW t \in Thread, Link(t) \/ Unlink(t) PROVE IInv'
    <3>1. arg[t].list \in List /\ arg[t].entry \in Entry
      BY <2>2 DEF Link, Unlink, IInv, LocksHeld
    <3> QED
      BY <2>2, <3>1, LinkKeeps, UnlinkKeeps
  <2>3. ASSUME NEW t \in Thread, NEW l \in List, Dequeue(t, l) PROVE IInv'
    BY <2>3, DequeueKeeps
  <2>4. ASSUME NEW t \in Thread, NEW l \in List, NEW e \in Entry,
               Enqueue(t, l, e) \/ RemovePage(t, l, e)
        PROVE  IInv'
    BY <2>4, EnqueueKeeps, RemovePageKeeps
  <2>5. ASSUME NEW t \in Thread, NEW l \in List, NEW e \in Entry \cup {NULL}, NextPage(t, l, e)
        PROVE  IInv'
    BY <2>5, NextPageKeeps
  <2> QED
    BY <2>1, <2>2, <2>3, <2>4, <2>5 DEF Next
<1> QED
  BY InitIInv, <1>1, PTL DEF Spec

\* No assertion of fifo.c ever fails: the asserts of enqueue_fifo, dequeue_fifo,
\* page_list_remove_page and next_page hold for every use of the lists by threads
\* that enqueue only entries of their own, and remove or ask for the successor of
\* only entries that are met on the list.
THEOREM NoAssertionFails == Spec => []AssertionsHold
<1>1. IInv => AssertionsHold
  BY DEF IInv
<1> QED
  BY ListsInvariant, <1>1, PTL

-----------------------------------------------------------------------------
(* The lists as queues.                                                     *)

\* Between calls each list reads the same from both ends, its count is the number
\* of its entries and their list fields name it, however the threads interleave
\* their calls: walking prev from `last' and next from `first' meets the same
\* entries in opposite orders (fifo.c:11-23, 37-48, 64-85).
THEOREM ListsReadBothWays == Spec => []BothEndsAgree
<1>1. IInv => BothEndsAgree
  BY EndsAgree
<1> QED
  BY ListsInvariant, <1>1, PTL

\* A list whose entries keep their links to newer ones stays the same.
LEMMA QueueKept ==
  ASSUME IInv, NEW m \in List, prev' \in [Entry -> Pointer], last'[m] = last[m],
         \A e \in Entry : On(e, m) => prev'[e] = prev[e]
  PROVE  QueueOf(m)' = QueueOf(m)
<1> DEFINE n == Length(m)
           q == QueueOf(m)
<1>1. /\ n \in Nat /\ n <= Cardinality(Entry) /\ q \in [1 .. n -> Entry]
      /\ Lists(q, n, next, prev, last[m], Front(m), Members(m))
  BY QueueIsList
<1> HIDE DEF n, q
<1>2. \A i \in 1 .. n : q[i] \in Entry /\ q[i] \in Members(m)
  BY <1>1 DEF Lists
<1>3. \A i \in 1 .. n : prev'[q[i]] = IF i = n THEN NULL ELSE q[i + 1]
  BY <1>1, <1>2 DEF Lists, Members
<1>4. last'[m] = IF n = 0 THEN NULL ELSE q[1]
  BY <1>1 DEF Lists
<1>5. Chain(prev', last'[m]) = q
  BY <1>1, <1>3, <1>4, ChainFollows
<1> QED
  BY <1>5 DEF QueueOf, q

-----------------------------------------------------------------------------
(* Each step of the lists is a step of the queues.                          *)

\* What changes in the abstract queues when one list does.
LEMMA QueueChange ==
  ASSUME NEW l \in List, NEW x, QueueOf(l)' = x,
         \A m \in List : m # l => QueueOf(m)' = QueueOf(m)
  PROVE  [m \in List |-> Chain(prev, last[m])]' = [[m \in List |-> Chain(prev, last[m])] EXCEPT ![l] = x]
BY DEF QueueOf

\* The count of a list is bounded by the number of entries.
LEMMA ChainBound ==
  ASSUME NEW n, NEW nx, NEW pv, NEW la, NEW fr, NEW S, IsChain(n, nx, pv, la, fr, S)
  PROVE  n \in Nat /\ n <= Cardinality(Entry)
<1>1. PICK q \in [1 .. n -> Entry] : Lists(q, n, nx, pv, la, fr, S)
  BY DEF IsChain
<1>2. n \in Nat
  BY <1>1 DEF Lists
<1> QED
  BY <1>1, <1>2, NoMoreThanEntries DEF Lists

\* A sequence with an entry more at its end.
LEMMA AppendEntry ==
  ASSUME NEW n \in Nat, NEW q \in [1 .. n -> Entry], NEW e \in Entry
  PROVE  /\ Append(q, e) \in [1 .. n + 1 -> Entry] /\ Append(q, e)[n + 1] = e
         /\ \A i \in 1 .. n : Append(q, e)[i] = q[i]
<1>1. q \in Seq(Entry) /\ Len(q) = n
  OBVIOUS
<1>2. /\ Append(q, e) \in Seq(Entry) /\ Len(Append(q, e)) = n + 1 /\ Append(q, e)[n + 1] = e
      /\ \A i \in 1 .. n : Append(q, e)[i] = q[i]
  BY <1>1
<1> QED
  BY <1>2, LenProperties

\* enqueue_fifo takes effect with its first half: the entry is the newest one.
LEMMA EnqueuePuts ==
  ASSUME IInv, NEW t \in Thread, NEW l \in List, NEW e \in Entry, Enqueue(t, l, e)
  PROVE  Queues!Put(t, l, e)
<1>1. pc[t] = "idle" /\ list_lock[l] = NULL /\ e \in held[t]
  BY DEF Enqueue, Ready, Unlocked
<1>2. list[e] = NULL /\ next[e] = NULL /\ prev[e] = NULL /\ \A m \in List : ~On(e, m)
  BY <1>1, HeldOffLists
<1>3. /\ Length(l) = numentries[l] /\ Front(l) = first[l]
      /\ IsChain(numentries[l], next, prev, last[l], first[l], Members(l))
  BY <1>1, AtRest
<1>4. /\ first[l] = NULL => last[l] = NULL /\ numentries[l] = 0
      /\ first[l] # NULL => first[l] \in Members(l) /\ prev[first[l]] = NULL
  BY <1>3, EndsOfChain
<1>5. EnqueueAsserts(l, e)
  BY <1>2, <1>4 DEF EnqueueAsserts
<1>6. /\ prev' = Set(prev, first[l], e)
      /\ last' = IF first[l] = NULL THEN [last EXCEPT ![l] = e] ELSE last
      /\ held' = [held EXCEPT ![t] = @ \ {e}]
      /\ list_lock' = [list_lock EXCEPT ![l] = t]
      /\ pc' = [pc EXCEPT ![t] = "link"]
      /\ UNCHANGED <<numentries, result>>
  BY <1>5 DEF Enqueue, GoOn
<1>7. \A x \in Entry : prev'[x] = IF x = first[l] THEN e ELSE prev[x]
  BY <1>6, EntriesAssumption DEF Set, IInv, TypeOK
<1>8. prev' \in [Entry -> Pointer]
  BY <1>6 DEF Set, IInv, TypeOK, Pointer
<1> DEFINE n == numentries[l]
           q == QueueOf(l)
           s == Append(q, e)
<1>9. n \in Nat /\ q \in [1 .. n -> Entry] /\ Lists(q, n, next, prev, last[l], first[l], Members(l))
  BY <1>3, QueueIsList
<1>10. n + 1 <= Cardinality(Entry)
  <2>1. IInv'
    BY EnqueueKeeps
  <2>2. list_lock'[l] = t /\ pc'[t] = "link" /\ t # NULL
    BY <1>6, CallersAssumption DEF IInv, TypeOK
  <2>3. Length(l)' = n + 1
    BY <1>6, <2>2 DEF Length, Linking
  <2>4. IsChain(n + 1, next', prev', last'[l], Front(l)', Members(l)')
    BY <2>1, <2>3 DEF IInv, ListsAreSequences, IsSequence
  <2> QED
    BY <2>4, ChainBound
<1>11. last'[l] = IF first[l] = NULL THEN e ELSE last[l]
  BY <1>6 DEF IInv, TypeOK
<1> HIDE DEF n, q
<1>12. /\ s \in [1 .. n + 1 -> Entry] /\ s[n + 1] = e
       /\ \A i \in 1 .. n : s[i] = q[i]
  BY <1>9, AppendEntry
<1>13. \A i \in 1 .. n : q[i] \in Entry /\ q[i] \in Members(l) /\ q[i] # e
  BY <1>2, <1>9 DEF Lists, Members
<1> HIDE DEF s
<1>14. ASSUME NEW i \in 1 .. n + 1 PROVE prev'[s[i]] = IF i = n + 1 THEN NULL ELSE s[i + 1]
  <2>1. CASE i = n + 1
    <3>1. first[l] # e
      BY <1>2, <1>4, EntriesAssumption DEF Members
    <3> QED
      BY <1>2, <1>7, <1>12, <2>1, <3>1
  <2>2. CASE i = n /\ n # 0
    <3>1. i \in 1 .. n /\ i # n + 1
      BY <1>9, <2>2
    <3>2. first[l] = q[n]
      BY <1>9, <2>2 DEF Lists
    <3> QED
      BY <1>7, <1>12, <1>13, <2>2, <3>1, <3>2
  <2>3. CASE i \in 1 .. n /\ i # n
    <3>1. n \in 1 .. n /\ n # 0 /\ i + 1 \in 1 .. n /\ i # n + 1
      BY <1>9, <2>3
    <3>2. first[l] = q[n] /\ q[i] # q[n] /\ prev[q[i]] = q[i + 1]
      BY <1>9, <2>3, <3>1 DEF Lists
    <3> QED
      BY <1>7, <1>12, <1>13, <2>3, <3>1, <3>2
  <2> QED
    BY <1>9, <2>1, <2>2, <2>3
<1>15. last'[l] = IF n + 1 = 0 THEN NULL ELSE s[1]
  <2>1. CASE n = 0
    <3>1. first[l] = NULL
      BY <1>9, <2>1 DEF Lists
    <3> QED
      BY <1>11, <1>12, <2>1, <3>1
  <2>2. CASE n # 0
    <3>1. first[l] = q[n] /\ last[l] = q[1] /\ 1 \in 1 .. n /\ n \in 1 .. n
      BY <1>9, <2>2 DEF Lists
    <3>2. first[l] # NULL
      BY <1>13, <3>1, EntriesAssumption
    <3> QED
      BY <1>9, <1>11, <1>12, <3>1, <3>2
  <2> QED
    BY <2>1, <2>2
<1>16. QueueOf(l)' = s
  <2>1. PICK k \in Nat : k = n + 1
    BY <1>9
  <2>2. k <= Cardinality(Entry) /\ s \in [1 .. k -> Entry]
    BY <1>10, <1>12, <2>1
  <2>3. \A i \in 1 .. k : prev'[s[i]] = IF i = k THEN NULL ELSE s[i + 1]
    BY <1>14, <2>1
  <2>4. last'[l] = IF k = 0 THEN NULL ELSE s[1]
    BY <1>15, <2>1
  <2>5. Chain(prev', last'[l]) = s
    BY <1>8, <2>2, <2>3, <2>4, ChainFollows
  <2> QED
    BY <2>5 DEF QueueOf
<1>17. ASSUME NEW m \in List, m # l PROVE QueueOf(m)' = QueueOf(m)
  <2>1. ASSUME NEW x \in Entry, On(x, m) PROVE prev'[x] = prev[x]
    <3>1. ~On(x, l)
      BY <1>17, <2>1, OneListEach
    <3>2. x # first[l]
      BY <1>4, <3>1, EntriesAssumption DEF Members
    <3> QED
      BY <1>7, <3>2
  <2>2. last'[m] = last[m]
    BY <1>6, <1>17 DEF IInv, TypeOK
  <2> QED
    BY <1>8, <2>1, <2>2, QueueKept
<1>18. [m \in List |-> Chain(prev, last[m])]'
         = [[m \in List |-> Chain(prev, last[m])] EXCEPT ![l] = Append(@, e)]
  BY <1>16, <1>17, QueueChange DEF s, q, QueueOf
<1> QED
  BY <1>1, <1>6, <1>18 DEF Queues!Put

\* A sequence without its k-th entry.
Without(q, n, k) == [i \in 1 .. n - 1 |-> IF i < k THEN q[i] ELSE q[i + 1]]

\* RemoveAt gives that.
LEMMA WithoutEntry ==
  ASSUME NEW n \in Nat, NEW q \in [1 .. n -> Entry], NEW k \in 1 .. n
  PROVE  Queues!RemoveAt(q, k) = Without(q, n, k)
<1> DEFINE a == SubSeq(q, 1, k - 1)
           b == SubSeq(q, k + 1, n)
           w == Without(q, n, k)
<1>1. q \in Seq(Entry) /\ Len(q) = n /\ k \in Nat /\ 1 <= k /\ k <= n /\ n - 1 \in Nat
  OBVIOUS
<1>2. /\ a \in Seq(Entry) /\ Len(a) = k - 1
      /\ \A i \in 1 .. k - 1 : a[i] = q[i]
  <2>1. \A i \in 1 .. k - 1 : q[i] \in Entry
    BY <1>1
  <2>2. /\ a \in Seq(Entry) /\ Len(a) = IF 1 <= k - 1 THEN k - 1 - 1 + 1 ELSE 0
        /\ \A i \in 1 .. k - 1 - 1 + 1 : a[i] = q[1 + i - 1]
    BY <1>1, <2>1, SubSeqProperties
  <2> QED
    BY <1>1, <2>2
<1>3. /\ b \in Seq(Entry) /\ Len(b) = n - k
      /\ \A i \in 1 .. n - k : b[i] = q[k + i]
  <2>1. \A i \in k + 1 .. n : q[i] \in Entry
    BY <1>1
  <2>2. /\ b \in Seq(Entry) /\ Len(b) = IF k + 1 <= n THEN n - (k + 1) + 1 ELSE 0
        /\ \A i \in 1 .. n - (k + 1) + 1 : b[i] = q[k + 1 + i - 1]
    BY <1>1, <2>1, SubSeqProperties
  <2>3. Len(b) = n - k
    BY <1>1, <2>2
  <2>4. ASSUME NEW i \in 1 .. n - k PROVE b[i] = q[k + i]
    <3>1. i \in 1 .. n - (k + 1) + 1 /\ k + 1 + i - 1 = k + i
      BY <1>1
    <3> QED
      BY <2>2, <3>1
  <2> QED
    BY <2>2, <2>3, <2>4
<1>4. Queues!RemoveAt(q, k) = a \o b
  BY <1>1 DEF Queues!RemoveAt
<1> HIDE DEF a, b
<1>5. /\ a \o b \in Seq(Entry) /\ Len(a \o b) = k - 1 + (n - k)
      /\ \A i \in 1 .. k - 1 + (n - k) : (a \o b)[i] = IF i <= k - 1 THEN a[i] ELSE b[i - (k - 1)]
  <2>1. /\ a \o b \in Seq(Entry) /\ Len(a \o b) = Len(a) + Len(b)
        /\ \A i \in 1 .. Len(a) + Len(b) : (a \o b)[i] = IF i <= Len(a) THEN a[i] ELSE b[i - Len(a)]
    BY <1>2, <1>3, ConcatProperties
  <2> QED
    BY <1>2, <1>3, <2>1
<1>6. /\ w \in Seq(Entry) /\ Len(w) = n - 1
      /\ \A i \in 1 .. n - 1 : w[i] = IF i < k THEN q[i] ELSE q[i + 1]
  <2>1. \A i \in 1 .. n - 1 : (IF i < k THEN q[i] ELSE q[i + 1]) \in Entry
    BY <1>1
  <2>2. w \in [1 .. n - 1 -> Entry]
    BY <2>1 DEF Without
  <2> QED
    BY <1>1, <2>2 DEF Without
<1> HIDE DEF w
<1>7. Len(a \o b) = n - 1
  BY <1>1, <1>5
<1>8. ASSUME NEW i \in 1 .. n - 1 PROVE (a \o b)[i] = w[i]
  <2>1. i \in 1 .. k - 1 + (n - k) /\ (i <= k - 1 <=> i < k)
    BY <1>1
  <2>2. CASE i < k
    <3>1. i \in 1 .. k - 1
      BY <1>1, <2>2
    <3> QED
      BY <1>2, <1>5, <1>6, <2>1, <2>2, <3>1
  <2>3. CASE ~(i < k)
    <3>1. i - (k - 1) \in 1 .. n - k /\ k + (i - (k - 1)) = i + 1
      BY <1>1, <2>3
    <3>2. b[i - (k - 1)] = q[i + 1]
      BY <1>3, <3>1
    <3> QED
      BY <1>5, <1>6, <2>1, <2>3, <3>2
  <2> QED
    BY <2>2, <2>3
<1>9. a \o b = w
  BY <1>5, <1>6, <1>7, <1>8, SeqEqual
<1> QED
  BY <1>4, <1>9 DEF w

\* The tail of a sequence is the sequence without its first entry.
LEMMA WithoutFirst ==
  ASSUME NEW n \in Nat, n # 0, NEW q \in [1 .. n -> Entry]
  PROVE  q # <<>> /\ Head(q) = q[1] /\ Tail(q) = Without(q, n, 1)
<1>1. q \in Seq(Entry) /\ Len(q) = n /\ n - 1 \in Nat
  OBVIOUS
<1>2. q # <<>>
  BY <1>1
<1>3. /\ Tail(q) \in Seq(Entry) /\ Len(Tail(q)) = n - 1
      /\ \A i \in 1 .. n - 1 : Tail(q)[i] = q[i + 1]
  BY <1>1, <1>2, HeadTailProperties
<1> DEFINE w == Without(q, n, 1)
<1>4. /\ w \in Seq(Entry) /\ Len(w) = n - 1
      /\ \A i \in 1 .. n - 1 : w[i] = q[i + 1]
  <2>1. \A i \in 1 .. n - 1 : q[i + 1] \in Entry /\ ~(i < 1)
    BY <1>1
  <2>2. w \in [1 .. n - 1 -> Entry]
    BY <2>1 DEF Without
  <2>3. \A i \in 1 .. n - 1 : w[i] = q[i + 1]
    BY <2>1 DEF Without
  <2> QED
    BY <1>1, <2>2, <2>3
<1> HIDE DEF w
<1>5. Tail(q) = w
  BY <1>3, <1>4, SeqEqual
<1> QED
  BY <1>1, <1>2, <1>5 DEF w

\* The links that dequeue_fifo and page_list_remove_page make around an entry
\* take it out of the queue and leave the order of the others.
LEMMA TakeOutDeletes ==
  ASSUME IInv, NEW l \in List, list_lock[l] = NULL, NEW e \in Entry, list[e] = l,
         last' = [last EXCEPT ![l] = IF @ = e THEN prev[e] ELSE @],
         prev' = Set(prev, next[e], prev[e]),
         NEW k \in 1 .. numentries[l], QueueOf(l)[k] = e
  PROVE  /\ QueueOf(l)' = Without(QueueOf(l), numentries[l], k)
         /\ \A m \in List : m # l => QueueOf(m)' = QueueOf(m)
<1> DEFINE n == numentries[l]
           q == QueueOf(l)
           w == Without(q, n, k)
<1>1. /\ Length(l) = n /\ Front(l) = first[l]
      /\ IsChain(n, next, prev, last[l], first[l], Members(l))
      /\ Members(l) = {x \in Entry : list[x] = l}
  BY AtRest
<1>2. /\ n \in Nat /\ q \in [1 .. n -> Entry] /\ n <= Cardinality(Entry)
      /\ Lists(q, n, next, prev, last[l], first[l], Members(l))
  BY <1>1, QueueIsList
<1>3. e \in Members(l)
  BY <1>1
<1>4. next[e] # NULL => next[e] \in Members(l)
  BY <1>1, <1>3, NeighboursInChain
<1>5. \A x \in Entry : prev'[x] = IF x = next[e] THEN prev[e] ELSE prev[x]
  BY EntriesAssumption DEF Set, IInv, TypeOK
<1>6. prev' \in [Entry -> Pointer]
  BY DEF Set, IInv, TypeOK, Pointer
<1>7. last'[l] = IF last[l] = e THEN prev[e] ELSE last[l]
  BY DEF IInv, TypeOK
<1> HIDE DEF n, q
<1>8. n \in Nat /\ n - 1 \in Nat /\ k \in Nat /\ 1 <= k /\ k <= n /\ k \in 1 .. n
  BY <1>2 DEF n
<1>9. q[k] = e
  BY DEF q
<1>10. next[e] = (IF k = 1 THEN NULL ELSE q[k - 1]) /\ prev[e] = (IF k = n THEN NULL ELSE q[k + 1])
  BY <1>2, <1>8, <1>9 DEF Lists
<1>11. last[l] = q[1]
  BY <1>2, <1>8 DEF Lists
<1>12. w \in [1 .. n - 1 -> Entry] /\ \A i \in 1 .. n - 1 : w[i] = IF i < k THEN q[i] ELSE q[i + 1]
  <2>1. \A i \in 1 .. n - 1 : (IF i < k THEN q[i] ELSE q[i + 1]) \in Entry
    BY <1>2, <1>8
  <2> QED
    BY <2>1 DEF Without
<1> HIDE DEF w
<1>13. \A i, j \in 1 .. n : q[i] = q[j] => i = j
  BY <1>2 DEF Lists
<1>14. \A i \in 1 .. n : prev[q[i]] = (IF i = n THEN NULL ELSE q[i + 1]) /\ q[i] \in Entry
  BY <1>2 DEF Lists
<1>15. ASSUME NEW i \in 1 .. n PROVE q[i] = next[e] <=> i = k - 1
  <2>1. CASE k = 1
    BY <1>8, <1>10, <1>14, <2>1, EntriesAssumption
  <2>2. CASE k # 1
    <3>1. k - 1 \in 1 .. n
      BY <1>8, <2>2
    <3> QED
      BY <1>10, <1>13, <2>2, <3>1
  <2> QED
    BY <2>1, <2>2
<1>16. ASSUME NEW i \in 1 .. n - 1 PROVE prev'[w[i]] = IF i = n - 1 THEN NULL ELSE w[i + 1]
  <2>1. CASE i < k - 1
    <3>1. /\ i \in 1 .. n /\ i # n /\ i < k /\ i + 1 < k /\ i # k - 1
          /\ i # n - 1 /\ i + 1 \in 1 .. n - 1
      BY <1>8, <2>1
    <3>2. prev'[q[i]] = q[i + 1]
      BY <1>5, <1>14, <1>15, <3>1
    <3> QED
      BY <1>12, <3>1, <3>2
  <2>2. CASE i = k - 1
    <3>1. i \in 1 .. n /\ i < k /\ ~(i + 1 < k) /\ i + 1 = k
      BY <1>8, <2>2
    <3>2. prev'[q[i]] = IF k = n THEN NULL ELSE q[k + 1]
      BY <1>5, <1>10, <1>14, <1>15, <2>2, <3>1
    <3>3. (k = n <=> i = n - 1) /\ (i # n - 1 => k \in 1 .. n - 1)
      BY <1>8, <2>2
    <3> QED
      BY <1>12, <3>1, <3>2, <3>3
  <2>3. CASE ~(i < k)
    <3>1. /\ i + 1 \in 1 .. n /\ i + 1 # k - 1 /\ ~(i + 1 < k) /\ (i + 1 = n <=> i = n - 1)
          /\ i # n - 1 => i + 1 \in 1 .. n - 1
      BY <1>8, <2>3
    <3>2. w[i] = q[i + 1]
      BY <1>12, <2>3
    <3>3. prev'[q[i + 1]] = IF i + 1 = n THEN NULL ELSE q[i + 1 + 1]
      BY <1>5, <1>14, <1>15, <3>1
    <3>4. i # n - 1 => w[i + 1] = q[i + 1 + 1]
      BY <1>12, <3>1
    <3> QED
      BY <3>1, <3>2, <3>3, <3>4
  <2> QED
    BY <1>8, <2>1, <2>2, <2>3
<1>17. last'[l] = IF n - 1 = 0 THEN NULL ELSE w[1]
  <2>1. 1 \in 1 .. n /\ (q[1] = e <=> k = 1)
    BY <1>8, <1>9, <1>13
  <2>2. n - 1 # 0 => 1 \in 1 .. n - 1
    BY <1>8
  <2>3. CASE k = 1
    <3>1. last'[l] = IF n = 1 THEN NULL ELSE q[2]
      BY <1>7, <1>10, <1>11, <2>1, <2>3
    <3> QED
      BY <1>8, <1>12, <2>2, <2>3, <3>1
  <2>4. CASE k # 1
    <3>1. last'[l] = q[1] /\ n - 1 # 0 /\ 1 < k
      BY <1>7, <1>8, <1>11, <2>1, <2>4
    <3> QED
      BY <1>12, <2>2, <3>1
  <2> QED
    BY <2>3, <2>4
<1>18. n - 1 <= Cardinality(Entry)
  <2>1. Cardinality(Entry) \in Nat
    BY EntriesAssumption, FS_CardinalityType
  <2> QED
    BY <1>2, <1>8, <2>1
<1>19. QueueOf(l)' = w
  <2>1. PICK j \in Nat : j = n - 1
    BY <1>8
  <2>2. /\ j <= Cardinality(Entry) /\ w \in [1 .. j -> Entry]
    BY <1>12, <1>18, <2>1
  <2>3. \A i \in 1 .. j : prev'[w[i]] = IF i = j THEN NULL ELSE w[i + 1]
    BY <1>16, <2>1
  <2>4. last'[l] = IF j = 0 THEN NULL ELSE w[1]
    BY <1>17, <2>1
  <2>5. Chain(prev', last'[l]) = w
    BY <1>6, <2>2, <2>3, <2>4, ChainFollows
  <2> QED
    BY <2>5 DEF QueueOf
<1>20. ASSUME NEW m \in List, m # l PROVE QueueOf(m)' = QueueOf(m)
  <2>1. ASSUME NEW x \in Entry, On(x, m) PROVE prev'[x] = prev[x]
    <3>1. ~On(x, l)
      BY <1>20, <2>1, OneListEach
    <3>2. x # next[e]
      BY <1>4, <3>1, EntriesAssumption DEF Members
    <3> QED
      BY <1>5, <3>2
  <2>2. last'[m] = last[m]
    BY <1>20 DEF IInv, TypeOK
  <2> QED
    BY <1>6, <2>1, <2>2, QueueKept
<1> QED
  BY <1>19, <1>20 DEF w, q, n

\* dequeue_fifo gives the oldest entry, or NULL when there is none.
LEMMA DequeueGets ==
  ASSUME IInv, NEW t \in Thread, NEW l \in List, Dequeue(t, l)
  PROVE  Queues!Get(t, l)
<1> DEFINE n == numentries[l]
           q == QueueOf(l)
           Q == [m \in List |-> Chain(prev, last[m])]
<1>1. list_lock[l] = NULL
  BY DEF Dequeue, Ready, Unlocked
<1>2. /\ Length(l) = n /\ Front(l) = first[l]
      /\ IsChain(n, next, prev, last[l], first[l], Members(l))
      /\ Members(l) = {x \in Entry : list[x] = l}
  BY <1>1, AtRest
<1>3. /\ n \in Nat /\ q \in [1 .. n -> Entry]
      /\ Lists(q, n, next, prev, last[l], first[l], Members(l))
  BY <1>2, QueueIsList
<1>4. Q[l] = q
  BY DEF QueueOf
<1> HIDE DEF n, q
<1>5. CASE last[l] = NULL
  <2>1. n = 0
    BY <1>2, <1>5, EndsOfChain
  <2>2. q = <<>>
    BY <1>3, <2>1
  <2>3. result' = [result EXCEPT ![t] = NULL] /\ UNCHANGED <<prev, last, held>>
    BY <1>5 DEF Dequeue
  <2> QED
    BY <1>4, <2>2, <2>3 DEF Queues!Get
<1>6. CASE last[l] # NULL
  <2> DEFINE e == last[l]
  <2>1. /\ last' = [last EXCEPT ![l] = prev[e]]
        /\ result' = [result EXCEPT ![t] = e]
        /\ held' = [held EXCEPT ![t] = @ \cup {e}]
        /\ UNCHANGED prev
    BY <1>6 DEF Dequeue
  <2>2. e \in Entry /\ e \in Members(l) /\ next[e] = NULL /\ list[e] = l
    BY <1>2, <1>6, EndsOfChain
  <2>3. last \in [List -> Pointer] /\ prev \in [Entry -> Pointer]
    BY DEF IInv, TypeOK
  <2>4. n # 0
    BY <1>2, <1>6, EndsOfChain
  <2>5. q[1] = e /\ 1 \in 1 .. numentries[l]
    BY <1>3, <2>4 DEF Lists, n
  <2>6. last' = [last EXCEPT ![l] = IF @ = e THEN prev[e] ELSE @]
    BY <2>1, <2>3
  <2>7. prev' = Set(prev, next[e], prev[e])
    BY <2>1, <2>2, <2>3 DEF Set
  <2> HIDE DEF e
  <2>8. /\ QueueOf(l)' = Without(q, n, 1)
        /\ \A m \in List : m # l => QueueOf(m)' = QueueOf(m)
    BY <1>1, <2>2, <2>5, <2>6, <2>7, TakeOutDeletes DEF q, n
  <2>9. q # <<>> /\ Head(q) = e /\ Tail(q) = Without(q, n, 1)
    BY <1>3, <2>4, <2>5, WithoutFirst
  <2>10. Q' = [Q EXCEPT ![l] = Tail(q)]
    BY <2>8, <2>9, QueueChange
  <2> HIDE DEF Q
  <2>11. Q' = [Q EXCEPT ![l] = Tail(@)]
    BY <1>4, <2>10
  <2> QED
    BY <1>4, <2>1, <2>9, <2>11 DEF Queues!Get, Q
<1> QED
  BY <1>5, <1>6

\* page_list_remove_page takes the entry it is given out of the middle.
LEMMA RemovePageDeletes ==
  ASSUME IInv, NEW t \in Thread, NEW l \in List, NEW e \in Entry, RemovePage(t, l, e)
  PROVE  Queues!Delete(t, l, e)
<1> DEFINE n == numentries[l]
           q == QueueOf(l)
           Q == [m \in List |-> Chain(prev, last[m])]
<1>1. list_lock[l] = NULL
  BY DEF RemovePage, Ready, Unlocked
<1>2. /\ Length(l) = n /\ Front(l) = first[l]
      /\ IsChain(n, next, prev, last[l], first[l], Members(l))
      /\ Members(l) = {x \in Entry : list[x] = l}
  BY <1>1, AtRest
<1>3. /\ n \in Nat /\ q \in [1 .. n -> Entry]
      /\ Lists(q, n, next, prev, last[l], first[l], Members(l))
  BY <1>2, QueueIsList
<1>4. Q[l] = q
  BY DEF QueueOf
<1>5. first[l] = NULL => last[l] = NULL /\ n = 0
  BY <1>2, EndsOfChain
<1>6. /\ first[l] # NULL /\ Listed(l, e)
      /\ last' = [last EXCEPT ![l] = IF @ = e THEN prev[e] ELSE @]
      /\ prev' = Set(prev, next[e], prev[e])
      /\ held' = [held EXCEPT ![t] = @ \cup {e}]
      /\ UNCHANGED result
  BY <1>5 DEF RemovePage, BypassPrev
<1>7. PICK k \in 1 .. n : q[k] = e
  BY <1>3, <1>6 DEF Listed, QueueOf
<1> HIDE DEF q
<1>8. list[e] = l
  BY <1>1, <1>6, ListedEntries
<1>9. /\ QueueOf(l)' = Without(q, n, k)
      /\ \A m \in List : m # l => QueueOf(m)' = QueueOf(m)
  BY <1>1, <1>6, <1>7, <1>8, TakeOutDeletes DEF q
<1>10. Queues!RemoveAt(q, k) = Without(q, n, k)
  BY <1>3, <1>7, WithoutEntry
<1>11. Q' = [Q EXCEPT ![l] = Queues!RemoveAt(q, k)]
  BY <1>9, <1>10, QueueChange
<1>12. k \in DOMAIN q
  BY <1>3, <1>7
<1> HIDE DEF Q
<1>13. Q' = [Q EXCEPT ![l] = Queues!RemoveAt(@, k)]
  BY <1>4, <1>11
<1> QED
  BY <1>4, <1>6, <1>7, <1>12, <1>13 DEF Queues!Delete, Q

\* next_page gives the oldest entry, or the one enqueued after the one it is given.
LEMMA NextPageFollows ==
  ASSUME IInv, NEW t \in Thread, NEW l \in List, NEW e \in Entry \cup {NULL}, NextPage(t, l, e)
  PROVE  Queues!Follow(t, l, e)
<1> DEFINE n == numentries[l]
           q == QueueOf(l)
           Q == [m \in List |-> Chain(prev, last[m])]
<1>1. list_lock[l] = NULL /\ (e # NULL => list[e] = l)
  <2>1. list_lock[l] = NULL /\ (e # NULL => Listed(l, e))
    BY DEF NextPage, Ready, Unlocked
  <2> QED
    BY <2>1, ListedEntries
<1>2. list_lock[l] = NULL /\ (e # NULL => list[e] = l)
      /\ result' = [result EXCEPT ![t] = IF e = NULL THEN last[l] ELSE prev[e]]
      /\ UNCHANGED <<prev, last, held>>
  BY <1>1 DEF NextPage
<1>3. /\ Length(l) = n /\ Front(l) = first[l]
      /\ Members(l) = {x \in Entry : list[x] = l}
  BY <1>2, AtRest
<1>4. /\ n \in Nat /\ q \in [1 .. n -> Entry]
      /\ Lists(q, n, next, prev, last[l], first[l], Members(l))
  BY <1>3, QueueIsList
<1>5. Q[l] = q /\ Q' = Q
  BY <1>2 DEF QueueOf
<1> HIDE DEF n, q
<1>6. Len(q) = n /\ DOMAIN q = 1 .. n
  BY <1>4
<1>7. CASE e = NULL
  <2>1. last[l] = IF q = <<>> THEN NULL ELSE Head(q)
    <3>1. CASE n = 0
      BY <1>4, <3>1 DEF Lists
    <3>2. CASE n # 0
      <4>1. last[l] = q[1]
        BY <1>4, <3>2 DEF Lists
      <4> QED
        BY <1>4, <3>2, <4>1, WithoutFirst
    <3> QED
      BY <3>1, <3>2
  <2> QED
    BY <1>2, <1>5, <1>7, <2>1 DEF Queues!Follow
<1>8. CASE e # NULL
  <2>1. e \in Entry /\ e \in Members(l)
    BY <1>2, <1>3, <1>8
  <2>2. PICK k \in 1 .. n : q[k] = e
    BY <1>4, <2>1 DEF Lists
  <2>3. prev[e] = IF k = Len(q) THEN NULL ELSE q[k + 1]
    BY <1>4, <1>6, <2>2 DEF Lists
  <2>4. k \in DOMAIN q
    BY <1>6, <2>2
  <2> HIDE DEF Q
  <2>5. result' = [result EXCEPT ![t] = IF k = Len(Q[l]) THEN NULL ELSE Q[l][k + 1]]
    BY <1>2, <1>5, <1>8, <2>3
  <2>6. k \in DOMAIN Q[l] /\ Q[l][k] = e
    BY <1>5, <2>2, <2>4
  <2> QED
    BY <1>2, <1>5, <2>5, <2>6 DEF Queues!Follow, Q
<1> QED
  BY <1>7, <1>8

\* The second halves of the operations change no queue: the entry that Unlink
\* clears is on none, and Link fills fields that the walk from `last' never reads.
LEMMA SecondHalvesStutter ==
  ASSUME IInv, NEW t \in Thread, Link(t) \/ Unlink(t)
  PROVE  UNCHANGED <<[m \in List |-> Chain(prev, last[m])], held, result>>
<1>1. CASE Link(t)
  BY <1>1 DEF Link
<1>2. CASE Unlink(t)
  <2> DEFINE l == arg[t].list
             e == arg[t].entry
  <2>1. /\ l \in List /\ e \in Entry /\ list_lock[l] = t /\ pc[t] = "unlink" /\ t # NULL
        /\ list[e] = l
    BY <1>2, CallersAssumption DEF Unlink, IInv, LocksHeld, EntriesOwned
  <2>2. numentries[l] > 0
    <3>1. Unlinking(l) /\ ~Linking(l)
      BY <2>1 DEF Unlinking, Linking
    <3>2. Length(l) \in Nat
      BY <2>1, QueueIsList
    <3>3. Length(l) = numentries[l] - 1 /\ numentries[l] \in Int
      BY <2>1, <3>1 DEF Length, IInv, TypeOK
    <3> QED
      BY <3>2, <3>3
  <2>3. prev' = [prev EXCEPT ![e] = NULL] /\ UNCHANGED <<last, held, result>>
    BY <1>2, <2>2 DEF Unlink, ClearPrev
  <2>4. prev' \in [Entry -> Pointer]
    BY <2>3 DEF IInv, TypeOK, Pointer
  <2> HIDE DEF l, e
  <2>5. ASSUME NEW m \in List PROVE QueueOf(m)' = QueueOf(m)
    <3>1. ~On(e, m)
      <4>1. ASSUME Linking(m), e = Moved(m) PROVE FALSE
        <5>1. list_lock[m] \in Thread /\ pc[list_lock[m]] = "link" /\ arg[list_lock[m]].entry = e
          BY <4>1 DEF Linking, Moved, IInv, TypeOK
        <5>2. list[e] = NULL
          BY <5>1 DEF IInv, EntriesOwned
        <5> QED
          BY <2>1, <5>2, ListsAssumption
      <4>2. Unlinking(l) /\ e = Moved(l)
        BY <2>1 DEF Unlinking, Moved, l, e
      <4> QED
        BY <2>1, <4>1, <4>2 DEF On
    <3>2. ASSUME NEW x \in Entry, On(x, m) PROVE prev'[x] = prev[x]
      <4>1. x # e
        BY <3>1, <3>2
      <4> QED
        BY <2>3, <4>1 DEF IInv, TypeOK
    <3> QED
      BY <2>3, <2>4, <3>2, QueueKept
  <2> QED
    BY <2>3, <2>5 DEF QueueOf
<1> QED
  BY <1>1, <1>2

\* The lists of fifo.c are queues: every behaviour of the linked representation,
\* cut in the middle of its critical sections, is one of Fifo, in which each call
\* takes effect at once (fifo.c:7-100).
THEOREM ListsAreQueues == Spec => ImplementsFifo
<1>1. Init => Queues!Init
  <2> SUFFICES ASSUME Init PROVE Queues!Init
    OBVIOUS
  <2>1. ASSUME NEW l \in List PROVE Chain(prev, last[l]) = <<>>
    <3>1. IInv
      BY InitIInv
    <3>2. Length(l) = 0
      BY DEF Init, Length, Linking, Unlinking
    <3>3. QueueOf(l) \in [1 .. 0 -> Entry]
      BY <3>1, <3>2, QueueIsList
    <3> QED
      BY <3>3 DEF QueueOf
  <2> QED
    BY <2>1 DEF Init, Queues!Init
<1>2. IInv /\ [Next]_vars => [Queues!Next]_(Queues!fvars)
  <2> SUFFICES ASSUME IInv, [Next]_vars PROVE [Queues!Next]_(Queues!fvars)
    OBVIOUS
  <2>1. CASE UNCHANGED vars
    BY <2>1 DEF vars, Queues!fvars
  <2>2. ASSUME NEW t \in Thread, Link(t) \/ Unlink(t) PROVE UNCHANGED Queues!fvars
    BY <2>2, SecondHalvesStutter DEF Queues!fvars
  <2>3. ASSUME NEW t \in Thread, NEW l \in List, Dequeue(t, l) PROVE Queues!Next
    BY <2>3, DequeueGets DEF Queues!Next
  <2>4. ASSUME NEW t \in Thread, NEW l \in List, NEW e \in Entry,
               Enqueue(t, l, e) \/ RemovePage(t, l, e)
        PROVE  Queues!Next
    BY <2>4, EnqueuePuts, RemovePageDeletes DEF Queues!Next
  <2>5. ASSUME NEW t \in Thread, NEW l \in List, NEW e \in Entry \cup {NULL}, NextPage(t, l, e)
        PROVE  Queues!Next
    BY <2>5, NextPageFollows DEF Queues!Next
  <2> QED
    BY <2>1, <2>2, <2>3, <2>4, <2>5 DEF Next
<1> QED
  BY ListsInvariant, <1>1, <1>2, PTL DEF Spec, ImplementsFifo, Queues!Spec

=============================================================================
