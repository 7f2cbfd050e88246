------------------------------ MODULE FifoList ------------------------------
(***************************************************************************)
(* The doubly linked lists of fifo.c, used by several threads.  An entry is *)
(* enqueued at `first' and dequeued at `last'; next leads to older entries, *)
(* prev to newer ones.                                                      *)
(*                                                                          *)
(* Each operation is one critical section of the list's mutex, cut in two:  *)
(* the links of the neighbours, then those of the entry and the count.  A   *)
(* failed assert() sets `failed' and stops every thread.                    *)
(***************************************************************************)
EXTENDS Integers, Sequences, FiniteSets

CONSTANTS
  Entry,   \* the list entries: struct hemem_page
  List,    \* the lists: struct fifo_list
  Thread,  \* the threads that use them
  NULL     \* the null pointer

ASSUME EntriesAssumption == IsFiniteSet(Entry) /\ NULL \notin Entry
ASSUME ListsAssumption   == NULL \notin List
ASSUME CallersAssumption == NULL \notin Thread

VARIABLES
  first, last, numentries, list_lock,   \* the fields of each list
  next, prev, list,                     \* the fields of each entry
  pc, arg,      \* where each thread is, and in which list and entry
  held,         \* the entries each thread has allocated or taken off a list
  result,       \* what its last dequeue_fifo or next_page returned
  failed        \* an assertion has failed

vars == <<first, last, numentries, list_lock, next, prev, list,
          pc, arg, held, result, failed>>

\* pebs_init has allocated the entries and has not enqueued any.
Init ==
  /\ first = [l \in List |-> NULL] /\ last = [l \in List |-> NULL]
  /\ numentries = [l \in List |-> 0]
  /\ list_lock = [l \in List |-> NULL]
  /\ next = [e \in Entry |-> NULL] /\ prev = [e \in Entry |-> NULL]
  /\ list = [e \in Entry |-> NULL]
  /\ pc = [t \in Thread |-> "idle"]
  /\ arg = [t \in Thread |-> [list |-> NULL, entry |-> NULL]]
  /\ \E t \in Thread : held = [u \in Thread |-> IF u = t THEN Entry ELSE {}]
  /\ result = [t \in Thread |-> NULL]
  /\ failed = FALSE

-----------------------------------------------------------------------------

\* Mutant: the mutex is not taken.
NoMutex(l) == TRUE

Unlocked(l) == list_lock[l] = NULL

\* The thread is in no call, and gets the list's mutex.
Ready(t, l) == pc[t] = "idle" /\ Unlocked(l) /\ ~failed

\* The thread keeps the mutex and goes on with the second half.
GoOn(t, l, e, label) ==
  /\ list_lock' = [list_lock EXCEPT ![l] = t]
  /\ pc' = [pc EXCEPT ![t] = label]
  /\ arg' = [arg EXCEPT ![t] = [list |-> l, entry |-> e]]

Return(t, l) ==
  /\ list_lock' = [list_lock EXCEPT ![l] = NULL]
  /\ pc' = [pc EXCEPT ![t] = "idle"]
  /\ arg' = [arg EXCEPT ![t] = [list |-> NULL, entry |-> NULL]]

Fail == failed' = TRUE /\ UNCHANGED <<first, last, numentries, list_lock, next, prev, list,
                                      pc, arg, held, result>>

\* f[x] = y, unless the pointer x is NULL.
Set(f, x, y) == [z \in DOMAIN f |-> IF z = x /\ x # NULL THEN y ELSE f[z]]

\* The entries met when the links f are followed from e.
Chain(f, e) ==
  LET chain[n \in 0 .. Cardinality(Entry)] ==
        [x \in Entry \cup {NULL} |->
           IF x = NULL \/ n = 0 THEN <<>> ELSE <<x>> \o chain[n - 1][f[x]]]
  IN chain[Cardinality(Entry)][e]

\* The entry is met on the way from `last', over prev.
Listed(l, e) == \E i \in DOMAIN Chain(prev, last[l]) : Chain(prev, last[l])[i] = e

\* The three assertions of enqueue_fifo.
EnqueueAsserts(l, e) ==
  /\ prev[e] = NULL
  /\ first[l] # NULL => prev[first[l]] = NULL
  /\ first[l] = NULL => last[l] = NULL /\ numentries[l] = 0

Enqueue(t, l, e) ==
  /\ Ready(t, l) /\ e \in held[t]
  /\ \/ ~EnqueueAsserts(l, e) /\ Fail
     \/ /\ EnqueueAsserts(l, e)
        /\ next' = [next EXCEPT ![e] = first[l]]
        /\ prev' = Set(prev, first[l], e)
        /\ last' = IF first[l] = NULL THEN [last EXCEPT ![l] = e] ELSE last
        /\ held' = [held EXCEPT ![t] = @ \ {e}]
        /\ GoOn(t, l, e, "link")
        /\ UNCHANGED <<first, numentries, list, result, failed>>

\* queue->first = entry, entry->list = queue, numentries++
Link(t) ==
  LET l == arg[t].list
      e == arg[t].entry
  IN /\ pc[t] = "link" /\ ~failed
     /\ first' = [first EXCEPT ![l] = e]
     /\ list' = [list EXCEPT ![e] = l]
     /\ numentries' = [numentries EXCEPT ![l] = @ + 1]
     /\ Return(t, l)
     /\ UNCHANGED <<last, next, prev, held, result, failed>>

Dequeue(t, l) ==
  /\ Ready(t, l)
  /\ \/ /\ last[l] = NULL
        /\ result' = [result EXCEPT ![t] = NULL]
        /\ UNCHANGED <<first, last, numentries, list_lock, next, prev, list,
                       pc, arg, held, failed>>
     \/ /\ last[l] # NULL
        /\ last' = [last EXCEPT ![l] = prev[last[l]]]
        /\ first' = IF prev[last[l]] = NULL THEN [first EXCEPT ![l] = NULL] ELSE first
        /\ next' = Set(next, prev[last[l]], NULL)
        /\ result' = [result EXCEPT ![t] = last[l]]
        /\ held' = [held EXCEPT ![t] = @ \cup {last[l]}]
        /\ GoOn(t, l, last[l], "unlink")
        /\ UNCHANGED <<numentries, prev, list, failed>>

\* Mutant: the older neighbour still leads to the entry that is gone.
KeepPrev(e) == prev

\* page->next->prev = page->prev
BypassPrev(e) == Set(prev, next[e], prev[e])

\* page_list_remove_page.  The caller names an entry that is on the list.
RemovePage(t, l, e) ==
  /\ Ready(t, l)
  /\ \/ /\ first[l] = NULL
        /\ last[l] # NULL \/ numentries[l] # 0
        /\ Fail
     \/ /\ first[l] # NULL /\ Listed(l, e)
        /\ first' = [first EXCEPT ![l] = IF @ = e THEN next[e] ELSE @]
        /\ last' = [last EXCEPT ![l] = IF @ = e THEN prev[e] ELSE @]
        /\ prev' = BypassPrev(e)
        /\ next' = Set(next, prev[e], next[e])
        /\ held' = [held EXCEPT ![t] = @ \cup {e}]
        /\ GoOn(t, l, e, "unlink")
        /\ UNCHANGED <<numentries, list, result, failed>>

\* Mutant: prev keeps the newer neighbour.
ClearNext(e) == UNCHANGED prev

\* ret->prev = NULL
ClearPrev(e) == prev' = [prev EXCEPT ![e] = NULL]

\* The end of dequeue_fifo and of page_list_remove_page.
Unlink(t) ==
  LET l == arg[t].list
      e == arg[t].entry
  IN /\ pc[t] = "unlink" /\ ~failed
     /\ \/ numentries[l] = 0 /\ Fail
        \/ /\ numentries[l] > 0
           /\ numentries' = [numentries EXCEPT ![l] = @ - 1]
           /\ ClearPrev(e)
           /\ next' = [next EXCEPT ![e] = NULL]
           /\ list' = [list EXCEPT ![e] = NULL]
           /\ Return(t, l)
           /\ UNCHANGED <<first, last, held, result, failed>>

\* next_page.  The caller names no entry, or one that is on the list.
NextPage(t, l, e) ==
  /\ Ready(t, l)
  /\ e # NULL => Listed(l, e)
  /\ \/ /\ e # NULL /\ list[e] # l
        /\ Fail
     \/ /\ e # NULL => list[e] = l
        /\ result' = [result EXCEPT ![t] = IF e = NULL THEN last[l] ELSE prev[e]]
        /\ UNCHANGED <<first, last, numentries, list_lock, next, prev, list,
                       pc, arg, held, failed>>

Next == \E t \in Thread :
  \/ Link(t) \/ Unlink(t)
  \/ \E l \in List :
       \/ Dequeue(t, l)
       \/ \E e \in Entry : Enqueue(t, l, e) \/ RemovePage(t, l, e)
       \/ \E e \in Entry \cup {NULL} : NextPage(t, l, e)

Spec == Init /\ [][Next]_vars

-----------------------------------------------------------------------------

\* No assertion of fifo.c fails, whatever the threads do with entries they
\* own and entries they find on a list.  (fifo.c:10, 13, 16, 17, 47, 58, 59, 81, 97.)
AssertionsHold == ~failed

\* Between calls a list reads the same from both ends, and its count and the
\* list field of every entry say so too.  (fifo.c:11-23, 37-48, 64-85.)
BothEndsAgree ==
  \A l \in List : Unlocked(l) =>
    LET old == Chain(prev, last[l])
        new == Chain(next, first[l])
    IN /\ Len(old) = numentries[l]
       /\ new = [i \in 1 .. Len(old) |-> old[Len(old) + 1 - i]]
       /\ {old[i] : i \in 1 .. Len(old)} = {e \in Entry : list[e] = l}

\* The lists are queues: what a thread finds on one, in which order, and when
\* it finds none, is what Fifo says.  A call takes effect with the first half
\* of its critical section.  (fifo.c:7-100.)
Queues == INSTANCE Fifo WITH queue <- [l \in List |-> Chain(prev, last[l])]

ImplementsFifo == Queues!Spec

=============================================================================
