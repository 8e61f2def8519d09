----------------------------- MODULE FwSection -----------------------------
(***************************************************************************)
(* The section codec of the uBLoad firmware container (src/tools/createfw.py) *)
(* a section is a big-endian 32-bit magic, a big-endian 32-bit length and   *)
(* the payload.  A byte string is a sequence whose elements are bytes; the *)
(* leaves written by the authenticator (digest, signature) may hold tokens  *)
(* standing for their content (see CreateFw).                                *)
(*                                                                         *)
(* build_section, pad_metadata and the diagnostic tree printer             *)
(* print_section/print_sections are operators over these strings.           *)
(***************************************************************************)
EXTENDS Integers, Sequences

\* class section_magic: the wire-stable tags, as the four bytes
\* struct.pack("!L", ...) writes for them (TLC integers are 32-bit signed).
MagicVerification  == <<110, 244, 75, 192>>   \* 0x6ef44bc0
MagicVerified      == <<30, 218, 132, 188>>    \* 0x1eda84bc
MagicDummy         == <<186, 80, 145, 26>>   \* 0xba50911a
MagicFirmware      == <<64, 184, 12, 15>>   \* 0x40b80c0f
MagicSha512        == <<182, 235, 151, 33>>   \* 0xb6eb9721
MagicEd25519       == <<157, 107, 26, 153>>   \* 0x9d6b1a99
MagicFp            == <<91, 240, 170, 57>>   \* 0x5bf0aa39
MagicVersion       == <<68, 237, 49, 190>>   \* 0x44ed31be
MagicCompatibility == <<58, 30, 17, 43>>    \* 0x3a1e112b

\* section_names: the printer looks a magic up here; any other magic is a
\* KeyError.
section_names ==
  [m \in {MagicVerification, MagicVerified, MagicDummy, MagicFirmware,
          MagicSha512, MagicEd25519, MagicFp, MagicVersion,
          MagicCompatibility} |->
     CASE m = MagicVerification  -> "verification"
       [] m = MagicVerified      -> "verified"
       [] m = MagicDummy         -> "dummy"
       [] m = MagicFirmware      -> "firmware"
       [] m = MagicSha512        -> "sha512 hash"
       [] m = MagicEd25519       -> "ed25519 signature"
       [] m = MagicFp            -> "pubkey fingerprint"
       [] m = MagicVersion       -> "firmware version"
       [] m = MagicCompatibility -> "hardware compatibility"]

\* struct.pack("!L", n) and struct.unpack("!L", s) for lengths.
PackL(n)   == [i \in 1..4 |-> (n \div 2^(8 * (4 - i))) % 256]
UnpackL(s) == ((s[1] * 256 + s[2]) * 256 + s[3]) * 256 + s[4]

\* Python slices s[:n] and s[n:] (both clip at the end of s).
Take(s, n) == SubSeq(s, 1, IF n < Len(s) THEN n ELSE Len(s))
Drop(s, n) == SubSeq(s, n + 1, Len(s))

\* " " * n
Spaces(n) == [i \in 1..n |-> 32]

\* build_section(section_magic, data)
build_section(magic, data) == magic \o PackL(Len(data)) \o data

\* pad_metadata(data, req_len): NoPad (a model value) stands for the None it
\* returns when the metadata, or the padding section's own header, does not
\* fit.
CONSTANT NoPad

\* Variant: the padding forgets the 8 bytes of its own header.
pad_metadata_no_header(data, req_len) ==
  CASE Len(data) > req_len       -> NoPad
    [] Len(data) = req_len       -> data
    [] Len(data) > req_len - 8   -> NoPad
    [] OTHER -> data \o build_section(MagicDummy, Spaces(req_len - Len(data)))
pad_metadata(data, req_len) ==
  CASE Len(data) > req_len       -> NoPad
    [] Len(data) = req_len       -> data
    [] Len(data) > req_len - 8   -> NoPad
    [] OTHER -> data \o build_section(MagicDummy,
                                      Spaces(req_len - Len(data) - 8))

(***************************************************************************)
(* print_section(data, offset, indent) prints one line for the section at  *)
(* the head of data and, while indent <= 1, the sections inside its       *)
(* payload; it returns the rest of data and the offset after the section. *)
(* A line is [name, at, data, len, indent].  A header shorter than 8 bytes *)
(* (struct.error) or an unknown magic (KeyError) raises: the result then   *)
(* has raised = TRUE and printing stops.                                   *)
(***************************************************************************)
RECURSIVE print_section(_, _, _), PrintLoop(_, _, _)
print_section(data, offset, indent) ==
  IF indent > 1
  THEN [rest |-> <<>>, off |-> 0, lines |-> <<>>, raised |-> FALSE]
  ELSE IF Len(data) < 8 \/ Take(data, 4) \notin DOMAIN section_names
  THEN [rest |-> <<>>, off |-> 0, lines |-> <<>>, raised |-> TRUE]
  ELSE LET magic  == Take(data, 4)
           length == UnpackL(SubSeq(data, 5, 8))
           body   == Drop(data, 8)
           line   == [name |-> section_names[magic], at |-> offset,
                      data |-> offset + 8, len |-> length, indent |-> indent]
           inner  == PrintLoop(Take(body, length), offset + 8, indent + 1)
       IN  [rest |-> Drop(body, length), off |-> offset + 8 + length,
            lines |-> <<line>> \o inner.lines, raised |-> inner.raised]

\* The "while len(data) > 0" loop of print_section and print_sections.
PrintLoop(data, offset, indent) ==
  IF data = <<>>
  THEN [lines |-> <<>>, raised |-> FALSE]
  ELSE LET r == print_section(data, offset, indent)
       IN  IF r.raised
           THEN [lines |-> r.lines, raised |-> TRUE]
           ELSE LET more == PrintLoop(r.rest, r.off, indent)
                IN  [lines |-> r.lines \o more.lines, raised |-> more.raised]

\* print_sections(data, offset)
print_sections(data, offset) == PrintLoop(data, offset, 0)
=============================================================================
