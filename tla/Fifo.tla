-------------------------------- MODULE Fifo --------------------------------
(***************************************************************************)
(* What the lists of fifo.c promise their callers: each list is a queue of *)
(* entries, an entry is on one list or in one caller's hands, and every    *)
(* call takes effect at once.                                              *)
(***************************************************************************)
EXTENDS Sequences, SequencesExt

CONSTANTS
  Entry,   \* the list entries
  List,    \* the lists
  Thread,  \* the callers
  NULL     \* the null pointer

VARIABLES
  queue,   \* the entries of each list, oldest first
  held,    \* the entries each thread may enqueue
  result   \* what each thread's last dequeue_fifo or next_page returned

fvars == <<queue, held, result>>

\* One thread has allocated the entries and has not enqueued any.
Init ==
  /\ queue = [l \in List |-> <<>>]
  /\ \E t \in Thread : held = [u \in Thread |-> IF u = t THEN Entry ELSE {}]
  /\ result = [t \in Thread |-> NULL]

Put(t, l, e) ==
  /\ e \in held[t]
  /\ queue' = [queue EXCEPT ![l] = Append(@, e)]
  /\ held' = [held EXCEPT ![t] = @ \ {e}]
  /\ UNCHANGED result

\* The oldest entry, or NULL when and only when there is none.
Get(t, l) ==
  \/ /\ queue[l] # <<>>
     /\ queue' = [queue EXCEPT ![l] = Tail(@)]
     /\ held' = [held EXCEPT ![t] = @ \cup {Head(queue[l])}]
     /\ result' = [result EXCEPT ![t] = Head(queue[l])]
  \/ /\ queue[l] = <<>>
     /\ result' = [result EXCEPT ![t] = NULL]
     /\ UNCHANGED <<queue, held>>

\* Take an entry out of the middle; the others keep their order.
Delete(t, l, e) ==
  /\ \E i \in DOMAIN queue[l] :
       queue[l][i] = e /\ queue' = [queue EXCEPT ![l] = RemoveAt(@, i)]
  /\ held' = [held EXCEPT ![t] = @ \cup {e}]
  /\ UNCHANGED result

\* The first entry, or the one that was enqueued after e.
Follow(t, l, e) ==
  /\ \/ /\ e = NULL
        /\ result' = [result EXCEPT ![t] = IF queue[l] = <<>> THEN NULL ELSE Head(queue[l])]
     \/ \E i \in DOMAIN queue[l] :
          /\ queue[l][i] = e
          /\ result' = [result EXCEPT ![t] = IF i = Len(queue[l]) THEN NULL
                                             ELSE queue[l][i + 1]]
  /\ UNCHANGED <<queue, held>>

Next == \E t \in Thread, l \in List :
  \/ Get(t, l)
  \/ \E e \in Entry : Put(t, l, e) \/ Delete(t, l, e)
  \/ \E e \in Entry \cup {NULL} : Follow(t, l, e)

Spec == Init /\ [][Next]_fvars

=============================================================================
