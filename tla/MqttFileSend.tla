---------------------------- MODULE MqttFileSend ----------------------------
(***************************************************************************)
(* The MQTT file sender, src/tools/mqtt_file_server_send.py: a stop-and-   *)
(* wait transfer of a file in 64-byte blocks to a device over QoS 0 MQTT.  *)
(*                                                                         *)
(* Two threads of the script run here: the main thread (send_open,        *)
(* send_block, send_close: publish, then confirmed.get(timeout), retried   *)
(* on a timeout) and the paho network thread running on_message, which   *)
(* turns every reply into an item of the shared queue "confirmed".        *)
(*                                                                         *)
(* The device is not part of this repository; it is modelled as the        *)
(* environment the script expects: it handles the requests of its input   *)
(* topic in order, opens the file on "open", stores block bn on "data"    *)
(* and answers "c" bn, closes the file on "close" and answers "h".  QoS 0   *)
(* keeps each topic in order but may lose any message.                     *)
(***************************************************************************)
EXTENDS Integers, Sequences, SequencesExt

CONSTANTS
  NumBlocks,   \* blocks of 64 bytes in the file (f.read(64) until empty)
  ChanCap,     \* messages a topic holds in flight; more are lost
  MaxQueue     \* items the model lets the queue "confirmed" hold

VARIABLES
  pc,          \* main thread: where it is in send_open/send_block/send_close
  bn,          \* the block being sent
  toDev,       \* topic target/in, in flight
  toCli,       \* topic target/out, in flight
  confirmed,   \* queue.Queue shared by on_message and the main thread
  dev          \* the device's file: [state, blocks]

vars == <<pc, bn, toDev, toCli, confirmed, dev>>

Blocks == 0..NumBlocks - 1
Requests == {[kind |-> "open"], [kind |-> "close"]}
            \cup [kind: {"data"}, bn: Blocks]
Replies == [kind: {"o", "h"}] \cup [kind: {"c"}, bn: Blocks]

Init ==
  /\ pc = "open_pub"
  /\ bn = 0
  /\ toDev = <<>>
  /\ toCli = <<>>
  /\ confirmed = <<>>
  /\ dev = [state |-> "idle", blocks |-> {}]

\* client.publish(..., qos = 0): a topic that is full loses the message.
Publish(ch, m) == IF Len(ch) < ChanCap THEN Append(ch, m) ELSE ch

\* The request the main thread publishes in each of its loops.
Request ==
  CASE pc = "open_pub"  -> [kind |-> "open"]
    [] pc = "block_pub" -> [kind |-> "data", bn |-> bn]
    [] pc = "close_pub" -> [kind |-> "close"]

\* The get(timeout) that follows the publish of each loop.
WaitOf == [open_pub |-> "open_wait", block_pub |-> "block_wait",
           close_pub |-> "close_wait"]

\* The first publish of a loop, and every retry.
PublishRequest ==
  /\ pc \in DOMAIN WaitOf
  /\ toDev' = Publish(toDev, Request)
  /\ pc' = WaitOf[pc]
  /\ UNCHANGED <<bn, toCli, confirmed, dev>>

\* Variant: on queue.Empty the loop waits again without publishing.
WaitAgain(p) == p

\* On queue.Empty the loop publishes again.
Retry(p) == CHOOSE q \in DOMAIN WaitOf : WaitOf[q] = p

\* confirmed.get(timeout) raises queue.Empty.
Timeout ==
  /\ pc \in {"open_wait", "block_wait", "close_wait"}
  /\ confirmed = <<>>
  /\ pc' = Retry(pc)
  /\ UNCHANGED <<bn, toDev, toCli, confirmed, dev>>

\* Variant: the read loop sends one block past the end of the file.
AfterBlockPastEnd(n) == IF n <= NumBlocks THEN "block_pub" ELSE "close_pub"

\* Variant: the read loop stops one block early.
AfterBlockEarly(n) == IF n < NumBlocks - 1 THEN "block_pub" ELSE "close_pub"

\* After the open, or after block bn, the main loop reads the next block
\* or, at the end of the file, sends the close.
AfterBlock(n) == IF n < NumBlocks THEN "block_pub" ELSE "close_pub"

\* send_open: any item of the queue ends the loop.
OpenConfirmed ==
  /\ pc = "open_wait"
  /\ confirmed # <<>>
  /\ confirmed' = Tail(confirmed)
  /\ pc' = AfterBlock(0)
  /\ UNCHANGED <<bn, toDev, toCli, dev>>

\* Variant: send_block, like send_open, takes any item as its confirmation.
ConfirmsAny(item, n) == TRUE

\* "if bn == bc: return" (line 46).
Confirms(item, n) == item = n

\* send_block: the loop ends when the item is bn; any other item makes it
\* publish the block again.
BlockConfirmed ==
  /\ pc = "block_wait"
  /\ confirmed # <<>>
  /\ confirmed' = Tail(confirmed)
  /\ \/ /\ Confirms(Head(confirmed), bn)
        /\ bn' = bn + 1
        /\ pc' = AfterBlock(bn + 1)
     \/ /\ ~Confirms(Head(confirmed), bn)
        /\ pc' = "block_pub"
        /\ UNCHANGED bn
  /\ UNCHANGED <<toDev, toCli, dev>>

\* send_close: any item of the queue ends the loop; the script then exits.
CloseConfirmed ==
  /\ pc = "close_wait"
  /\ confirmed # <<>>
  /\ confirmed' = Tail(confirmed)
  /\ pc' = "done"
  /\ UNCHANGED <<bn, toDev, toCli, dev>>

\* on_message: "c" puts the 16-bit block number, "h" and "o" put 1.
QueueItem(r) == IF r.kind = "c" THEN r.bn ELSE 1

OnMessage ==
  /\ toCli # <<>>
  /\ Len(confirmed) < MaxQueue
  /\ confirmed' = Append(confirmed, QueueItem(Head(toCli)))
  /\ toCli' = Tail(toCli)
  /\ UNCHANGED <<pc, bn, toDev, dev>>

----------------------------------------------------------------------------
(* The environment: the device and the broker.                             *)

DeviceReceive ==
  /\ toDev # <<>>
  /\ LET m == Head(toDev) IN
       CASE m.kind = "open" ->
              /\ dev' = [state |-> "open", blocks |-> {}]
              /\ toCli' = Publish(toCli, [kind |-> "o"])
         [] m.kind = "data" ->
              /\ dev' = [dev EXCEPT !.blocks = @ \cup {m.bn}]
              /\ toCli' = Publish(toCli, [kind |-> "c", bn |-> m.bn])
         [] m.kind = "close" ->
              /\ dev' = [dev EXCEPT !.state = "closed"]
              /\ toCli' = Publish(toCli, [kind |-> "h"])
  /\ toDev' = Tail(toDev)
  /\ UNCHANGED <<pc, bn, confirmed>>

\* QoS 0: any message in flight may be lost.
Lose ==
  \/ /\ \E i \in 1..Len(toDev) : toDev' = RemoveAt(toDev, i)
     /\ UNCHANGED toCli
  \/ /\ \E i \in 1..Len(toCli) : toCli' = RemoveAt(toCli, i)
     /\ UNCHANGED toDev
  /\ UNCHANGED <<pc, bn, confirmed, dev>>

Next ==
  \/ PublishRequest \/ Timeout
  \/ OpenConfirmed \/ BlockConfirmed \/ CloseConfirmed
  \/ OnMessage
  \/ DeviceReceive \/ Lose

(***************************************************************************)
(* Fairness: the main thread and the network thread run whenever they can *)
(* (weak fairness; a get that finds the queue empty times out).  The      *)
(* broker may lose any message, but a topic that carries messages again   *)
(* and again delivers one eventually (strong fairness on delivery).       *)
(***************************************************************************)
Fairness ==
  /\ WF_vars(PublishRequest) /\ WF_vars(Timeout)
  /\ WF_vars(OpenConfirmed) /\ WF_vars(BlockConfirmed) /\ WF_vars(CloseConfirmed)
  /\ SF_vars(OnMessage) /\ SF_vars(DeviceReceive)

Spec == Init /\ [][Next]_vars /\ Fairness
-----------------------------------------------------------------------------
\* Every variable in its range; in particular the sender only ever names a
\* block of the file, in its requests and in bn.
TypeOK ==
  /\ pc \in {"open_pub", "open_wait", "block_pub", "block_wait",
             "close_pub", "close_wait", "done"}
  /\ bn \in 0..NumBlocks
  /\ toDev \in Seq(Requests) /\ Len(toDev) <= ChanCap
  /\ toCli \in Seq(Replies) /\ Len(toCli) <= ChanCap
  /\ confirmed \in Seq(Blocks \cup {1}) /\ Len(confirmed) <= MaxQueue
  /\ dev \in [state: {"idle", "open", "closed"}, blocks: SUBSET Blocks]

(***************************************************************************)
(* A block the script has moved past is stored on the device: send_block  *)
(* returns only on a confirmation of its own block number, although the   *)
(* queue also holds the 1 of every "o" and "h" reply and the late "c"     *)
(* replies to retransmitted blocks (lines 20-29, 41-49).                   *)
(***************************************************************************)
ConfirmedBlocksStored ==
  \A b \in 0..bn - 1 : b \in dev.blocks

(***************************************************************************)
(* The transfer ends: however many requests and replies the broker loses, *)
(* the retry loops of send_open, send_block and send_close bring the main  *)
(* thread to its end.                                                      *)
(***************************************************************************)
Termination == <>(pc = "done")

(***************************************************************************)
(* When the script ends the device has closed the file: send_close waits  *)
(* for the answer to "close" (line 56 prints "waiting for file close").   *)
(* The loop takes any item of the queue (line 57), and a late "c" of the   *)
(* last block is one.                                                      *)
(***************************************************************************)
ClosedWhenDone ==
  pc = "done" => dev.state = "closed"

FT == INSTANCE FileTransfer
        WITH N <- NumBlocks, stored <- dev.blocks, fileState <- dev.state,
             progress <- bn, finished <- (pc = "done")

(***************************************************************************)
(* The sender implements FileTransfer: over lossy topics and with retries *)
(* the device's file is truncated only before the first block is passed, *)
(* written only while open, closed only after the last block, and the     *)
(* read loop of lines 82-92 passes every block of the file.               *)
(***************************************************************************)
FileTransferRefined == FT!Spec
=============================================================================
