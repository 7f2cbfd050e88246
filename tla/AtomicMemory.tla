---------------------------- MODULE AtomicMemory ----------------------------
(***************************************************************************)
(* What the application expects of its memory: a store takes effect at one *)
(* moment between its start and its end, and nothing else changes a page.  *)
(***************************************************************************)
CONSTANTS
  App,    \* the threads
  VA,     \* the virtual pages
  Value,  \* what a page may hold
  Zero,   \* what it holds before the first store
  None    \* no store in progress

VARIABLES
  mem,    \* the contents of every page
  store   \* the store each thread has started and not finished

mvars == <<mem, store>>

Init == /\ mem = [v \in VA |-> Zero]
        /\ store = [t \in App |-> None]

Start(t, v, x) == /\ store[t] = None
                  /\ store' = [store EXCEPT ![t] = <<v, x>>]
                  /\ UNCHANGED mem

Finish(t) == /\ store[t] # None
             /\ mem' = [mem EXCEPT ![store[t][1]] = store[t][2]]
             /\ store' = [store EXCEPT ![t] = None]

Next == \E t \in App : \/ \E v \in VA, x \in Value : Start(t, v, x)
                       \/ Finish(t)

Spec == Init /\ [][Next]_mvars

=============================================================================
