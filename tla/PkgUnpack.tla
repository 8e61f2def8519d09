----------------------------- MODULE PkgUnpack -----------------------------
(***************************************************************************)
(* The package splitting loop of the two PKG unpackers,                   *)
(* src/tools/pkg_unpack.py (lines 77-105) and                             *)
(* src/services/plog-packager/pkg_unpack.py (lines 66-88).  A log file is *)
(* a stream of packages, each starting with the marker b'PKG'; the loop   *)
(* finds the next marker with mm.find and hands the bytes from one marker *)
(* to the next to parse_pkg.  The two copies differ after the last marker: *)
(* tools parses the rest of the file, services stops.                     *)
(*                                                                         *)
(* Decoding a package (protobuf, heatshrink) is left out: a package is    *)
(* the slice handed to parse_pkg.  The file is a sequence of bytes from a *)
(* small alphabet; which copy runs is chosen in Init.                     *)
(***************************************************************************)
EXTENDS Integers, Sequences, SequencesExt

CONSTANTS
  Bytes,     \* the byte alphabet of the files, containing "P", "K", "G"
  MaxLen     \* the longest file

Marker == <<"P", "K", "G">>

\* mm.find(b'PKG', start): the lowest index i >= start (0-based) where the
\* marker starts, or -1.
find(s, start) ==
  LET at == {i \in start..Len(s) - 3 : SubSeq(s, i + 1, i + 3) = Marker}
  IN  IF at = {} THEN -1 ELSE CHOOSE i \in at : \A j \in at : i <= j

\* mm[a:b]; a = -1 counts from the end, as Python does.
Slice(s, a, b) == SubSeq(s, (IF a < 0 THEN Len(s) + a ELSE a) + 1, b)

\* Variant: parse_pkg without its magic check.
MagicUnchecked(pd) == TRUE

\* parse_pkg (lines 48-50) raises on a slice without the magic.
MagicOk(pd) == Len(pd) >= 3 /\ SubSeq(pd, 1, 3) = Marker

VARIABLES
  copy,        \* "tools" or "services"
  mm,          \* the mapped file
  pkg_start,   \* where the current package starts (-1: none yet)
  find_start,  \* where the next search starts
  parsed,      \* the slices handed to parse_pkg, in order
  pc           \* "loop", "done", or "raised" (an uncaught exception)

vars == <<copy, mm, pkg_start, find_start, parsed, pc>>

\* mmap of an empty file raises, so the loop only ever sees a byte or more.
Files == UNION {[1..n -> Bytes] : n \in 1..MaxLen}

Init ==
  /\ copy \in {"tools", "services"}
  /\ mm \in Files
  /\ pkg_start = -1 /\ find_start = 0
  /\ parsed = <<>>
  /\ pc = "loop"

\* Variant: a package only counts as started past offset 0.
StartedPast0(ps) == ps > 0

\* "if pkg_start >= 0" (line 87 / 76).
Started(ps) == ps >= 0

\* Variant: the search restarts at the marker it found.
NextSearchAtFound(found) == found

\* "find_start = found + 3" (line 101 / 86).
NextSearchAt(found) == found + 3

\* A marker is found (lines 86-101 / 75-86): the package before it, if
\* any, is parsed; the next package starts here.  A file of MaxLen bytes
\* holds fewer than MaxLen packages, so the cap on parsed only stops a
\* loop that does not advance.
FoundMarker ==
  LET found == find(mm, find_start) IN
  /\ pc = "loop"
  /\ found >= 0
  /\ Len(parsed) < MaxLen
  /\ parsed' = IF Started(pkg_start)
               THEN Append(parsed, Slice(mm, pkg_start, found)) ELSE parsed
  /\ pkg_start' = found
  /\ find_start' = NextSearchAt(found)
  /\ UNCHANGED <<copy, mm, pc>>

\* tools, no further marker (lines 102-105): the rest of the file, from
\* pkg_start (the last byte when no marker was ever found), is parsed
\* outside the try, so a bad magic ends the script.  Past the magic,
\* parse_pkg decodes protobuf and heatshrink data and unpacks values
\* (lines 51-68), any of which may raise on a damaged package.
ToolsEnd ==
  /\ pc = "loop" /\ copy = "tools"
  /\ find(mm, find_start) < 0
  /\ parsed' = Append(parsed, Slice(mm, pkg_start, Len(mm)))
  /\ pc' \in IF MagicOk(Slice(mm, pkg_start, Len(mm))) THEN {"done", "raised"}
                                                      ELSE {"raised"}
  /\ UNCHANGED <<copy, mm, pkg_start, find_start>>

\* services, no further marker (lines 87-88): the loop just ends.
ServicesEnd ==
  /\ pc = "loop" /\ copy = "services"
  /\ find(mm, find_start) < 0
  /\ pc' = "done"
  /\ UNCHANGED <<copy, mm, pkg_start, find_start, parsed>>

Next == FoundMarker \/ ToolsEnd \/ ServicesEnd

\* One thread runs the loop.
Spec == Init /\ [][Next]_vars /\ WF_vars(Next)
-----------------------------------------------------------------------------
\* The packages of a file, by definition: from each occurrence of the
\* marker to the next one, or to the end of the file.
Packages(s) ==
  LET at == SetToSortSeq({i \in 0..Len(s) - 3 : SubSeq(s, i + 1, i + 3) = Marker}, <)
  IN  [k \in 1..Len(at) |->
         SubSeq(s, at[k] + 1, IF k < Len(at) THEN at[k + 1] ELSE Len(s))]

(***************************************************************************)
(* The tools copy hands parse_pkg every package of a file that has one,   *)
(* whole and in order, the first one at offset 0 and the last one, which  *)
(* ends at the end of the file, included.                                 *)
(***************************************************************************)
ToolsParsesEveryPackage ==
  copy = "tools" /\ pc # "loop" /\ Packages(mm) # <<>> => parsed = Packages(mm)

(***************************************************************************)
(* The search always moves past the marker it found, so the while True    *)
(* loop of both copies ends.                                              *)
(***************************************************************************)
LoopEnds == <>(pc # "loop")

(***************************************************************************)
(* The tools copy never ends normally on a file that holds no package:   *)
(* with no marker, pkg_start is still -1 at line 103, so mm[-1:], the    *)
(* last byte, reaches parse_pkg outside the try and fails its magic      *)
(* check, instead of an empty result.                                    *)
(***************************************************************************)
ToolsRaisesWithoutPackage ==
  copy = "tools" /\ pc # "loop" /\ Packages(mm) = <<>> => pc = "raised"

(***************************************************************************)
(* The services copy hands parse_pkg every package of the file, like the  *)
(* tools copy.                                                            *)
(***************************************************************************)
ServicesParsesEveryPackage ==
  copy = "services" /\ pc # "loop" => parsed = Packages(mm)
=============================================================================
