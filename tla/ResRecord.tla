----------------------------- MODULE ResRecord -----------------------------
(***************************************************************************)
(* The CPU use recorder of res-record.c.  A thread samples the cores at     *)
(* intervals, while `running', and writes the difference of two samples;    *)
(* `first' tells it that there is no earlier sample.  Clients start and     *)
(* stop it with plain stores, at any moment.                                *)
(*                                                                          *)
(* A sample of a core is the time it was taken at: what /proc/stat counts.  *)
(***************************************************************************)
EXTENDS Integers

CONSTANT Core   \* the cores sampled, SCAN_CORE_MAX of them

VARIABLES
  now,                    \* what /proc/stat has counted since the boot
  running, first,         \* the flags
  before, after, record,  \* per core: the last two samples, their difference
  pc,                     \* where the recorder is
  todo,                   \* the cores it has not sampled yet in this round
  starting                \* a client is between the stores of record_run_request

vars == <<now, running, first, before, after, record, pc, todo, starting>>

Init ==
  /\ now = 1
  /\ running = FALSE /\ first = TRUE
  /\ before = [c \in Core |-> 0] /\ after = [c \in Core |-> 0] /\ record = [c \in Core |-> 0]
  /\ pc = "wait" /\ todo = Core
  /\ starting = FALSE

Tick == now' = now + 1 /\ UNCHANGED <<running, first, before, after, record, pc, todo, starting>>

-----------------------------------------------------------------------------
(* record_run_request and record_stop_request.                              *)

SetFirst == /\ ~starting
            /\ first' = TRUE /\ starting' = TRUE
            /\ UNCHANGED <<now, running, before, after, record, pc, todo>>

SetRunning == /\ starting
              /\ running' = TRUE /\ starting' = FALSE
              /\ UNCHANGED <<now, first, before, after, record, pc, todo>>

Stop == /\ ~starting
        /\ running' = FALSE
        /\ UNCHANGED <<now, first, before, after, record, pc, todo, starting>>

-----------------------------------------------------------------------------
(* record_util.                                                             *)

\* The interval is over and `running' is set.
Begin == /\ pc = "wait" /\ running
         /\ pc' = "sample" /\ todo' = Core
         /\ UNCHANGED <<now, running, first, before, after, record, starting>>

\* One iteration of cal_record: it reads `first' for each core.
Sample(c) ==
  /\ pc = "sample" /\ c \in todo
  /\ before' = [before EXCEPT ![c] = after[c]]
  /\ after' = [after EXCEPT ![c] = now]
  /\ record' = IF first THEN record ELSE [record EXCEPT ![c] = now - after[c]]
  /\ todo' = todo \ {c}
  /\ UNCHANGED <<now, running, first, pc, starting>>

\* if (first) first = 0; else write_record();
TestFirst == /\ pc = "sample" /\ todo = {}
             /\ pc' = IF first THEN "clear" ELSE "write"
             /\ UNCHANGED <<now, running, first, before, after, record, todo, starting>>

ClearFirst == /\ pc = "clear"
              /\ first' = FALSE /\ pc' = "wait"
              /\ UNCHANGED <<now, running, before, after, record, todo, starting>>

WriteRecord == /\ pc = "write"
               /\ pc' = "wait"
               /\ UNCHANGED <<now, running, first, before, after, record, todo, starting>>

Next == \/ Tick
        \/ SetFirst \/ SetRunning \/ Stop
        \/ Begin \/ (\E c \in Core : Sample(c)) \/ TestFirst \/ ClearFirst \/ WriteRecord

Spec == Init /\ [][Next]_vars

-----------------------------------------------------------------------------

TypeOK ==
  /\ now \in Nat \ {0}
  /\ running \in BOOLEAN /\ first \in BOOLEAN /\ starting \in BOOLEAN
  /\ before \in [Core -> Nat] /\ after \in [Core -> Nat] /\ record \in [Core -> Int]
  /\ pc \in {"wait", "sample", "clear", "write"} /\ todo \in SUBSET Core

Measured(c) == /\ before[c] # 0 /\ before[c] <= after[c]
               /\ record[c] = after[c] - before[c]

\* What is written is, for every core, the difference of two samples, also when
\* a client starts or stops the recorder in the middle of a round: never use
\* since the boot, and never a record of one round next to a record of another.
RecordsAreDifferences == pc = "write" => \A c \in Core : Measured(c)

=============================================================================
