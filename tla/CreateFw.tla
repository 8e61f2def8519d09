------------------------------ MODULE CreateFw ------------------------------
(***************************************************************************)
(* The uBLoad firmware image creator, src/tools/createfw.py lines 140-224:  *)
(* one action per block of the script, in the order the script runs them. *)
(* The command line is chosen in Init from small sets of values; files that *)
(* cannot be read or written are inputs too.                               *)
(*                                                                         *)
(* Cryptography is ideal: a SHA-512 digest is 64 bytes whose first byte is *)
(* a token naming the hashed string (so digests of different strings      *)
(* differ), an Ed25519 signature is 64 bytes whose first is a token naming *)
(* the signed string and the key, a public key is 32 bytes whose first is  *)
(* a token naming the private key.                                         *)
(***************************************************************************)
EXTENDS FwSection, SequencesExt

CONSTANTS
  Versions,        \* values of --version (NoArg: option absent)
  Compatibilities, \* values of the --compatibility list (NoArg: absent)
  Offsets,         \* values of --offset, as integers
  Firmwares,       \* contents of --input (Unreadable: open/read raises)
  HashTypes,       \* values of --hash-type
  Checks,          \* values of --check
  SignFiles,       \* --sign: a key, NoArg, or Unreadable
  Keys,            \* private keys (model values)
  Base,            \* --base, the load address
  NoArg, Unreadable, NoFile

Byte == 0..255

\* publickey(priv), sha512(s).digest() and signature(m, priv, pub).
Zeros(n)         == [i \in 1..n |-> 0]
publickey(k)     == <<[pubkey |-> k]>> \o Zeros(31)
sha512(s)        == <<[sha512 |-> s]>> \o Zeros(63)
signature(m, k)  == <<[signed |-> m, key |-> k]>> \o Zeros(63)

VARIABLES
  args,            \* the parsed command line
  pc,              \* the next block of the script to run
  fw_verified,     \* the verified section payload being built
  fw_verification, \* the verification section payload being built
  fw_hash,         \* the digest of fw_verified ("" until computed)
  fw_image,        \* the two top-level sections
  printed,         \* the lines print_sections printed
  outfile,         \* contents of the --output file (NoFile: never created)
  status           \* "running", "ok" (exit 0) or the error the script exits 1 with

vars == <<args, pc, fw_verified, fw_verification, fw_hash, fw_image,
          printed, outfile, status>>

Args == [version: Versions, compatibility: Compatibilities, fw_offset: Offsets,
         binfile: Firmwares, check: Checks, hash_type: HashTypes,
         signfile: SignFiles]

Init ==
  /\ args \in Args
  /\ pc = "version"
  /\ fw_verified = <<>>
  /\ fw_verification = <<>>
  /\ fw_hash = <<>>
  /\ fw_image = <<>>
  /\ printed = <<>>
  /\ outfile = NoFile
  /\ status = "running"

\* Variant: the error is printed but the exit(1) after it is missing.
ExitNoStop(msg) == /\ status' = msg
                   /\ pc' = pc

\* print "..."; exit(1)
Exit(msg) == /\ status' = msg
             /\ pc' = "done"

\* if args.version: (an empty string is false)
AddVersion ==
  /\ pc = "version"
  /\ fw_verified' = IF args.version \in {NoArg, <<>>} THEN fw_verified
                    ELSE fw_verified \o build_section(MagicVersion, args.version)
  /\ pc' = "compatibility"
  /\ UNCHANGED <<args, fw_verification, fw_hash, fw_image, printed, outfile, status>>

\* if args.compatibility: for c in ...: one section per string, in order.
AddCompatibility ==
  /\ pc = "compatibility"
  /\ fw_verified' =
       IF args.compatibility = NoArg THEN fw_verified
       ELSE fw_verified \o FlattenSeq([i \in DOMAIN args.compatibility |->
                              build_section(MagicCompatibility,
                                            args.compatibility[i])])
  /\ pc' = "size"
  /\ UNCHANGED <<args, fw_verification, fw_hash, fw_image, printed, outfile, status>>

\* Variant: the check allows offset - 16 bytes, the length the comment of
\* lines 152-155 gives for the padded metadata.
MetadataFitsMinus16(len, offset) == len <= offset - 16

\* The metadata check before padding (line 156).
MetadataFits(len, offset) == len <= offset - 24

CheckSize ==
  /\ pc = "size"
  /\ IF MetadataFits(Len(fw_verified), args.fw_offset)
     THEN pc' = "pad" /\ UNCHANGED status
     ELSE Exit("metadata too big")
  /\ UNCHANGED <<args, fw_verified, fw_verification, fw_hash, fw_image, printed, outfile>>

Pad ==
  /\ pc = "pad"
  /\ fw_verified' = pad_metadata(fw_verified, args.fw_offset - 16)
  /\ pc' = "firmware"
  /\ UNCHANGED <<args, fw_verification, fw_hash, fw_image, printed, outfile, status>>

\* try: fw_verified += build_section(firmware, f.read())  except: exit(1).
\* The bare except also catches the TypeError of None += str.
ReadFirmware ==
  /\ pc = "firmware"
  /\ IF args.binfile = Unreadable \/ fw_verified = NoPad
     THEN Exit("cannot read input") /\ UNCHANGED fw_verified
     ELSE /\ fw_verified' = fw_verified \o build_section(MagicFirmware, args.binfile)
          /\ pc' = "hash"
          /\ UNCHANGED status
  /\ UNCHANGED <<args, fw_verification, fw_hash, fw_image, printed, outfile>>

ComputeHash ==
  /\ pc = "hash"
  /\ CASE ~args.check ->
            pc' = "sign" /\ UNCHANGED <<fw_hash, fw_verification, status>>
       [] args.hash_type = "sha512" ->
            /\ fw_hash' = sha512(fw_verified)
            /\ fw_verification' = fw_verification \o build_section(MagicSha512, fw_hash')
            /\ pc' = "sign"
            /\ UNCHANGED status
       [] OTHER -> Exit("unknown hash") /\ UNCHANGED <<fw_hash, fw_verification>>
  /\ UNCHANGED <<args, fw_verified, fw_image, printed, outfile>>

\* The signature and the public key fingerprint (first 4 digest bytes).
AuthSections(hash, k) ==
  build_section(MagicEd25519, signature(hash, k))
    \o build_section(MagicFp, Take(sha512(publickey(k)), 4))

\* Variant: signing does not require --check.
SignNeedsNothing(check) == TRUE

\* Signing needs the hash that --check computed (line 187).
SignNeedsCheck(check) == check

Sign ==
  /\ pc = "sign"
  /\ CASE args.signfile = NoArg ->
            pc' = "image" /\ UNCHANGED <<fw_verification, status>>
       [] ~SignNeedsCheck(args.check) -> Exit("check required") /\ UNCHANGED fw_verification
       [] args.signfile = Unreadable ->
            Exit("cannot read key") /\ UNCHANGED fw_verification
       [] OTHER ->
            /\ fw_verification' = fw_verification \o AuthSections(fw_hash, args.signfile)
            /\ pc' = "image"
            /\ UNCHANGED status
  /\ UNCHANGED <<args, fw_verified, fw_hash, fw_image, printed, outfile>>

\* fw_image = ...; print_sections(fw_image, base).  An exception in the
\* printer ends the script before the output is written.
Describe ==
  /\ pc = "image"
  /\ fw_image' = build_section(MagicVerified, fw_verified)
                   \o build_section(MagicVerification, fw_verification)
  /\ LET r == print_sections(fw_image', Base)
     IN  /\ printed' = r.lines
         /\ IF r.raised THEN Exit("describe raised")
            ELSE pc' = "write" /\ UNCHANGED status
  /\ UNCHANGED <<args, fw_verified, fw_verification, fw_hash, outfile>>

\* Bytes of a write that fails after open(..., "w") truncated the file.
PartialLengths == {0, Len(fw_image) \div 2}

\* open(args.fwfile, "w"): fails (file untouched), or truncates; then
\* f.write succeeds, or fails having written a prefix.
Write ==
  /\ pc = "write"
  /\ \/ /\ outfile' = fw_image
        /\ status' = "ok"
        /\ pc' = "done"
     \/ /\ Exit("cannot write output")
        /\ UNCHANGED outfile
     \/ /\ Exit("cannot write output")
        /\ \E n \in PartialLengths : outfile' = SubSeq(fw_image, 1, n)
  /\ UNCHANGED <<args, fw_verified, fw_verification, fw_hash, fw_image, printed>>

Next ==
  \/ AddVersion \/ AddCompatibility \/ CheckSize \/ Pad \/ ReadFirmware
  \/ ComputeHash \/ Sign \/ Describe \/ Write

\* The script runs to its end or to an exit; nothing else runs after it.
Spec == Init /\ [][Next]_vars
-----------------------------------------------------------------------------
\* A byte string: a sequence whose elements are bytes or, in a digest,
\* signature or public key, a token (TLC cannot compare the two kinds, so
\* the type only says it is a finite sequence).
IsString(s) == DOMAIN s = 1..Len(s)

TypeOK ==
  /\ args \in Args
  /\ pc \in {"version", "compatibility", "size", "pad", "firmware", "hash",
             "sign", "image", "write", "done"}
  /\ fw_verified = NoPad \/ IsString(fw_verified)
  /\ IsString(fw_verification) /\ IsString(fw_hash) /\ IsString(fw_image)
  /\ outfile = NoFile \/ IsString(outfile)
  /\ \A i \in DOMAIN printed : printed[i].indent \in 0..1
  /\ (status = "running") = (pc # "done")
  /\ status \in {"running", "ok", "metadata too big", "cannot read input",
                 "unknown hash", "check required", "cannot read key",
                 "describe raised", "cannot write output"}

\* The two top-level sections of an image: the payload of the first
\* (verified) and of the second (verification) section.
VerifiedOf(img)     == SubSeq(img, 9, 8 + UnpackL(SubSeq(img, 5, 8)))
VerificationOf(img) == Drop(img, 16 + Len(VerifiedOf(img)))

(***************************************************************************)
(* The vector table lands where the bootloader looks for it: when the      *)
(* script reports success, the written image holds a firmware section     *)
(* header whose payload, the input binary, starts exactly --offset bytes   *)
(* into the image (the padding arithmetic of lines 152-161).              *)
(***************************************************************************)
FirmwareAtOffset ==
  status = "ok" =>
    LET off == args.fw_offset
        fw  == args.binfile
    IN  /\ SubSeq(outfile, off - 7, off) = MagicFirmware \o PackL(Len(fw))
        /\ SubSeq(outfile, off + 1, off + Len(fw)) = fw

(***************************************************************************)
(* A successful image carries exactly the authentication asked for, bound *)
(* to the verified payload that was written: with --check a SHA-512 of the *)
(* verified payload, with --sign also a signature over that digest by the *)
(* key and the fingerprint of its public key; without them nothing (lines *)
(* 172-207).                                                               *)
(***************************************************************************)
VerificationBound ==
  status = "ok" =>
    LET h    == sha512(VerifiedOf(outfile))
        hsec == IF args.check THEN build_section(MagicSha512, h) ELSE <<>>
        ssec == IF args.signfile = NoArg THEN <<>>
                ELSE AuthSections(h, args.signfile)
    IN  VerificationOf(outfile) = hsec \o ssec

(***************************************************************************)
(* The script blames the input file only when it could not be read: the   *)
(* bare except around the firmware read (line 167) also catches the        *)
(* TypeError a None from pad_metadata would raise, so that case must never *)
(* reach it.                                                              *)
(***************************************************************************)
InputErrorOnlyWhenUnreadable ==
  status = "cannot read input" => args.binfile = Unreadable
-----------------------------------------------------------------------------
(* What spec.md states of the builder, checked against the code.           *)

(***************************************************************************)
(* spec.md 4.3: the digest covers the exact encoded verified section,      *)
(* its own tag and length header included, so a verified region of        *)
(* another length cannot be spliced in under the same hash.  The script    *)
(* hashes fw_verified, the payload alone (line 177).                       *)
(***************************************************************************)
SpecHashCoversHeader ==
  (status = "ok" /\ args.check) =>
    SubSeq(VerificationOf(outfile), 9, 72)
      = sha512(SubSeq(outfile, 1, 8 + Len(VerifiedOf(outfile))))

(***************************************************************************)
(* spec.md 4.2 and 8 (Boundary): metadata that exactly fills the space     *)
(* before the firmware needs no padding section and the build succeeds;    *)
(* only metadata that is longer, or leaves too little room for a padding   *)
(* header, is too big.  pad_metadata has that exact-fit branch (line 37),  *)
(* but the size check of line 156 runs first.                             *)
(***************************************************************************)
SpecExactFitAccepted ==
  status = "metadata too big" => Len(fw_verified) # args.fw_offset - 16

(***************************************************************************)
(* spec.md 7: a partially built image is never left at the output path;   *)
(* the output file is either untouched or the whole image.  The script     *)
(* truncates it with open(..., "w") and then writes (lines 220-221).       *)
(***************************************************************************)
OutputNeverPartial ==
  outfile \in {NoFile, fw_image}
=============================================================================
