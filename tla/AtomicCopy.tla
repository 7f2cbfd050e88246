----------------------------- MODULE AtomicCopy -----------------------------
(***************************************************************************)
(* What the callers of hemem_parallel_memcpy and hemem_parallel_memset are *)
(* promised: the whole of dst changes at one moment between the call and   *)
(* its return, and nothing else does.                                      *)
(***************************************************************************)
CONSTANTS
  Client,  \* the callers
  Region,  \* the pages they copy and clear
  Zeros,   \* the contents of a cleared page
  None     \* no source: clear the page; no call

VARIABLES
  mem,     \* the contents of each page
  call,    \* the call each client is in
  done     \* the clients whose call has had its effect

avars == <<mem, call, done>>

Begin(c, dst, src) == /\ call[c] = None
                      /\ call' = [call EXCEPT ![c] = [dst |-> dst, src |-> src]]
                      /\ UNCHANGED <<mem, done>>

Do(c) == /\ call[c] # None /\ c \notin done
         /\ mem' = [mem EXCEPT ![call[c].dst] = IF call[c].src = None THEN Zeros
                                                ELSE mem[call[c].src]]
         /\ done' = done \cup {c}
         /\ UNCHANGED call

End(c) == /\ c \in done
          /\ call' = [call EXCEPT ![c] = None]
          /\ done' = done \ {c}
          /\ UNCHANGED mem

Init == call = [c \in Client |-> None] /\ done = {}

Next == \E c \in Client : \/ \E dst \in Region, src \in Region \cup {None} : Begin(c, dst, src)
                          \/ Do(c) \/ End(c)

Spec == Init /\ [][Next]_avars

=============================================================================
