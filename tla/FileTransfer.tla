---------------------------- MODULE FileTransfer ----------------------------
(***************************************************************************)
(* What the MQTT file sender (src/tools/mqtt_file_server_send.py)        *)
(* promises, without topics, queues or retries: the device opens the     *)
(* file (truncating it) before the sender has moved past any block, it   *)
(* stores blocks only while the file is open, the sender moves past a    *)
(* block only once the device holds it, the file is closed only after    *)
(* the last block, and the sender ends once it has moved past them all.  *)
(***************************************************************************)
EXTENDS Naturals

CONSTANT N              \* blocks in the file

VARIABLES
  stored,     \* blocks the device holds
  fileState,  \* "idle", "open" or "closed"
  progress,   \* blocks the sender has moved past
  finished    \* the sender has ended

vars == <<stored, fileState, progress, finished>>

Init ==
  /\ stored = {} /\ fileState = "idle"
  /\ progress = 0 /\ finished = FALSE

Open ==
  /\ progress = 0 /\ fileState # "closed"
  /\ stored' = {} /\ fileState' = "open"
  /\ UNCHANGED <<progress, finished>>

Store(b) ==
  /\ fileState = "open"
  /\ stored' = stored \cup {b}
  /\ UNCHANGED <<fileState, progress, finished>>

Advance ==
  /\ progress < N /\ progress \in stored
  /\ progress' = progress + 1
  /\ UNCHANGED <<stored, fileState, finished>>

Close ==
  /\ progress = N /\ fileState = "open"
  /\ fileState' = "closed"
  /\ UNCHANGED <<stored, progress, finished>>

Finish ==
  /\ progress = N /\ ~finished
  /\ finished' = TRUE
  /\ UNCHANGED <<stored, fileState, progress>>

Next == Open \/ (\E b \in 0..N - 1 : Store(b)) \/ Advance \/ Close \/ Finish

\* A stored block is eventually passed, and the sender then ends.
Spec == Init /\ [][Next]_vars /\ WF_vars(Advance) /\ WF_vars(Finish)
=============================================================================
