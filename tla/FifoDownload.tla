---------------------------- MODULE FifoDownload ----------------------------
(***************************************************************************)
(* The FIFO downloader, src/tools/fifo_download.py: it asks the device's  *)
(* shell for the oldest block of the FIFO filesystem as lines of hex,     *)
(* appends what it read to the output file and removes the block on the  *)
(* device, until a block comes back empty.                                *)
(*                                                                         *)
(* The serial port has a 1 s timeout: readline returns an empty line when *)
(* the device stays silent that long, which is how get_block sees the end *)
(* of a block.  The device is not part of this repository; it answers a   *)
(* "cat" with the lines of its oldest block, and may stall longer than    *)
(* the timeout between two of them.  A line garbled on the wire fails the *)
(* regular expression of line 29.                                          *)
(***************************************************************************)
EXTENDS Integers, Sequences, SequencesExt

CONSTANTS
  FifoInit   \* the device's FIFO: a sequence of blocks, a block a sequence of lines

VARIABLES
  fifo,      \* the blocks still on the device
  stream,    \* lines the device has sent that the script has not read
  data,      \* the block get_block is reading
  out,       \* the output file
  pc         \* where the script is

vars == <<fifo, stream, data, out, pc>>

Init ==
  /\ fifo = FifoInit
  /\ stream = <<>> /\ data = <<>> /\ out = <<>>
  /\ pc = "stats"

\* fs_stats (lines 12-19, 69, 76): no matching line before the timeout
\* returns None, and unpacking it raises TypeError.
FsStats ==
  /\ pc = "stats"
  /\ pc' \in {"get", "crashed"}
  /\ UNCHANGED <<fifo, stream, data, out>>

\* get_block sends "cat" (line 22); the device prints its oldest block.
SendCat ==
  /\ pc = "get"
  /\ stream' = IF fifo = <<>> THEN <<>> ELSE Head(fifo)
  /\ data' = <<>>
  /\ pc' = "read"
  /\ UNCHANGED <<fifo, out>>

\* Lines 26-33: a line that matches is appended to data, one that does not
\* is dropped, and an empty line (the timeout) ends the block.
ReadLine ==
  /\ pc = "read"
  /\ \/ /\ stream # <<>>
        /\ data' = data \o <<Head(stream)>>
        /\ stream' = Tail(stream)
        /\ UNCHANGED pc
     \/ /\ stream # <<>>
        /\ stream' = Tail(stream)
        /\ UNCHANGED <<data, pc>>
     \/ /\ pc' = "store"
        /\ UNCHANGED <<data, stream>>
  /\ UNCHANGED <<fifo, out>>

\* remove_block (lines 36-38): the FIFO after the remove command.  The
\* command travels the same serial line as the answers and may be garbled;
\* readlines discards whatever the shell prints, so the script goes on
\* either way.
remove_block(f) == {Tail(f), f}

\* Lines 81-91: a non-empty block is written and then removed on the
\* device (remove_block's readlines also discards what is left of the
\* cat); an empty one ends the download.
Store ==
  /\ pc = "store"
  /\ IF data # <<>>
     THEN /\ out' = out \o data
          /\ fifo' \in remove_block(fifo) /\ stream' = <<>>
          /\ pc' = "stats"
     ELSE /\ pc' = "done"
          /\ UNCHANGED <<out, fifo, stream>>
  /\ UNCHANGED data

Next == FsStats \/ SendCat \/ ReadLine \/ Store

Spec == Init /\ [][Next]_vars
-----------------------------------------------------------------------------
=============================================================================
