------------------------------- MODULE ElfSign -------------------------------
(***************************************************************************)
(* The ELF signing tool, src/scripts/elfsign.py: one invocation of the     *)
(* script is one action, and a behaviour is a session of invocations      *)
(* (sign, verify, save the public key) on one ELF file.                   *)
(*                                                                         *)
(* An ELF is abstracted to its body (everything but the section           *)
(* .sign.ed25519) and the content of that section, NoSection when the ELF *)
(* has none.  Each arm-none-eabi-objcopy call succeeds or fails (missing  *)
(* tool, unwritable file); the script never looks at the result of run(). *)
(* A failing objcopy leaves its output file as it was.                    *)
(*                                                                         *)
(* Cryptography is ideal, as in CreateFw: a digest names the hashed bytes, *)
(* a signature names the message and both keys handed to the signer.      *)
(***************************************************************************)
EXTENDS Integers

CONSTANTS
  Keys,            \* secret keys; --sk names a file holding one in base64
  Bodies,          \* contents of the ELF apart from .sign.ed25519
  ObjcopyResults,  \* outcomes an objcopy call may have (TRUE: success)
  NoArg, NoSection, NoFile, Undef

\* b'\x00' * 64 and the empty file tempfile creates.
Zeros == [zeros |-> 64]
Empty == [zeros |-> 0]

\* blake2s(x).digest(), ed25519.publickey_unsafe(sk) and
\* ed25519.signature_unsafe(m, sk, pk).
blake2s(x)              == [blake2s |-> x]
publickey_unsafe(k)     == [pub |-> k]
signature_unsafe(m, k, p) == [signed |-> m, sk |-> k, pk |-> p]

\* ed25519.checkvalid(s, m, pk) returns only for a signature of m made with
\* the secret key of pk and pk itself; otherwise it raises.
checkvalid(s, m, p) ==
  /\ "signed" \in DOMAIN s
  /\ s = signature_unsafe(m, s.sk, p)
  /\ publickey_unsafe(s.sk) = p

\* b64encode / b64decode of key files.
b64encode(x) == [b64 |-> x]

\* Variant: the key file is used as it is, undecoded.
b64decodeNone(f) == f
b64decode(f) == f.b64

VARIABLES
  elf,       \* the ELF file: [body, sig]
  pubfile,   \* the file --save-pubkey writes and --pk reads (NoFile: none)
  cmd,       \* the branch of the last invocation
  sk, pk,    \* the script's globals sk and pk (Undef: never assigned)
  printed,   \* what the last invocation printed: the signature, or a verdict
  exitcode   \* its exit status

vars == <<elf, pubfile, cmd, sk, pk, printed, exitcode>>

Elfs == [body: Bodies, sig: {NoSection, Zeros}]

\* Before the first invocation the ELF comes from the linker, with the
\* reserved section of 64 zero bytes or without it.
Init ==
  /\ elf \in Elfs
  /\ pubfile = NoFile
  /\ cmd = "none" /\ sk = Undef /\ pk = Undef
  /\ printed = "" /\ exitcode = 0

\* Lines 38-43: --sk loads sk and derives pk from it; --pk, the file the
\* -p option saved (usePk), then replaces pk.
LoadSk(skArg) == IF skArg = NoArg THEN Undef ELSE b64decode(b64encode(skArg))

LoadPk(skArg, usePk) ==
  IF usePk THEN b64decode(pubfile)
  ELSE IF skArg # NoArg THEN publickey_unsafe(skArg) ELSE Undef

\* The command lines of an invocation: its key options, and the outcomes
\* of its first and second objcopy call.
SkArgs == {NoArg} \cup Keys
PkArgs == IF pubfile = NoFile THEN {FALSE} ELSE BOOLEAN

\* --pk names the public key file before -p has written it: load_file
\* raises before any branch runs.
KeyLoadFails ==
  /\ pubfile = NoFile
  /\ cmd' = "load_error" /\ sk' = Undef /\ pk' = Undef
  /\ printed' = "" /\ exitcode' = 1
  /\ UNCHANGED <<elf, pubfile>>

\* objcopy --remove-section .sign.ed25519 --add-section .sign.ed25519=f
\* (line 52): the section holds 64 zero bytes, whether or not it existed.
ResetSection(e, ok) == IF ok THEN [e EXCEPT !.sig = Zeros] ELSE e

\* objcopy --update-section (line 64): fails on an ELF without the section.
UpdateSection(e, data, ok) ==
  IF ok /\ e.sig # NoSection THEN [e EXCEPT !.sig = data] ELSE e

\* Variant: the hash is taken before the section is reset to zeros.
SignHashFirst(e, k, p, a, u) ==
  LET sm == signature_unsafe(blake2s(e), k, p)
  IN  [elf |-> UpdateSection(ResetSection(e, a), sm, u), sm |-> sm]

\* Lines 48-64: reset the section, hash the ELF, sign the digest, write the
\* signature into the section.
SignElf(e, k, p, a, u) ==
  LET e1 == ResetSection(e, a)
      sm == signature_unsafe(blake2s(e1), k, p)
  IN  [elf |-> UpdateSection(e1, sm, u), sm |-> sm]

\* The -s branch.  Without --sk, line 58 raises NameError after the first
\* objcopy has already rewritten the section.
Sign ==
  /\ \E skArg \in SkArgs, usePk \in PkArgs, a, u \in ObjcopyResults :
       LET k == LoadSk(skArg)
           p == LoadPk(skArg, usePk)
           r == SignElf(elf, k, p, a, u)
       IN  /\ sk' = k /\ pk' = p
           /\ IF k = Undef
              THEN elf' = ResetSection(elf, a) /\ printed' = "" /\ exitcode' = 1
              ELSE elf' = r.elf /\ printed' = r.sm /\ exitcode' = 0
  /\ cmd' = "sign"
  /\ UNCHANGED pubfile

\* Lines 70-75: the dumped section; a failed dump leaves the temporary
\* file empty.
DumpSection(e, d) == IF d /\ e.sig # NoSection THEN e.sig ELSE Empty

\* Lines 78-85: the ELF with a zeroed section goes to the temporary file,
\* which keeps its 64 zero bytes if objcopy fails; the ELF is untouched.
ZeroSection(e, u) ==
  [copy |-> IF u /\ e.sig # NoSection THEN [e EXCEPT !.sig = Zeros] ELSE Zeros,
   elf  |-> e]

\* Lines 87-93.  A NameError for an undefined pk is caught by the bare
\* except like a failed check.
VerifyElf(e, p, d, u) ==
  IF p # Undef /\ checkvalid(DumpSection(e, d), blake2s(ZeroSection(e, u).copy), p)
  THEN "ok" ELSE "signature verification failed"

\* The -v branch: whatever the verdict, the script exits 0.
Verify ==
  /\ \E skArg \in SkArgs, usePk \in PkArgs, d, u \in ObjcopyResults :
       /\ sk' = LoadSk(skArg) /\ pk' = LoadPk(skArg, usePk)
       /\ printed' = VerifyElf(elf, pk', d, u)
       /\ elf' = ZeroSection(elf, u).elf
  /\ cmd' = "verify" /\ exitcode' = 0
  /\ UNCHANGED pubfile

\* The -p branch (lines 96-97): NameError, exit 1, when pk is undefined.
SavePubkey ==
  /\ \E skArg \in SkArgs, usePk \in PkArgs :
       LET p == LoadPk(skArg, usePk) IN
         /\ sk' = LoadSk(skArg) /\ pk' = p
         /\ IF p = Undef
            THEN exitcode' = 1 /\ UNCHANGED pubfile
            ELSE exitcode' = 0 /\ pubfile' = b64encode(p)
  /\ cmd' = "save_pubkey" /\ printed' = ""
  /\ UNCHANGED elf

\* Lines 100-102: no -s, -v or -p.
NoAction ==
  /\ \E skArg \in SkArgs, usePk \in PkArgs :
       sk' = LoadSk(skArg) /\ pk' = LoadPk(skArg, usePk)
  /\ cmd' = "none" /\ printed' = "no action selected" /\ exitcode' = 1
  /\ UNCHANGED <<elf, pubfile>>

Next == KeyLoadFails \/ Sign \/ Verify \/ SavePubkey \/ NoAction

Spec == Init /\ [][Next]_vars
-----------------------------------------------------------------------------
PubKeys == {publickey_unsafe(k) : k \in Keys}

TypeOK ==
  /\ elf.body \in Bodies
  /\ pubfile \in {NoFile} \cup {b64encode(p) : p \in PubKeys}
  /\ cmd \in {"none", "load_error", "sign", "verify", "save_pubkey"}
  /\ sk \in Keys \cup {Undef} /\ pk \in PubKeys \cup {Undef}
  /\ exitcode \in {0, 1}

(***************************************************************************)
(* Signing and verifying agree on what is hashed: after a sign that exits *)
(* 0 with a key pair (pk derived from sk), the verify path, its objcopy   *)
(* calls succeeding, accepts the ELF under pk.  This holds for an ELF    *)
(* that was signed before: the sign path hashes it only after line 52    *)
(* has zeroed the old signature, as the verify path does at line 81.     *)
(***************************************************************************)
SignedElfVerifies ==
  cmd = "sign" /\ exitcode = 0 /\ pk = publickey_unsafe(sk)
    => VerifyElf(elf, pk, TRUE, TRUE) = "ok"

\* The ELF carries a signature of its own digest, taken with the section
\* zeroed, made with the secret key of p.
Authentic(e, p) ==
  \E k \in Keys :
     /\ p = publickey_unsafe(k)
     /\ e.sig = signature_unsafe(blake2s([e EXCEPT !.sig = Zeros]), k, p)

(***************************************************************************)
(* The exit status is all a build learns from the script (spec.md 6 and  *)
(* 7: a non-zero exit code on failure, no error silently swallowed): an  *)
(* invocation that exits 0 did what it was asked.  A sign has left the   *)
(* ELF carrying the signature it printed, authentic under some key pair  *)
(* (the objcopy calls of lines 52 and 64 are not checked, and a --pk     *)
(* given with --sk replaces the pk line 40 derived, line 43); a          *)
(* verify has accepted the ELF (line 93 only prints).                    *)
(***************************************************************************)
ExitZeroMeansDone ==
  exitcode = 0 =>
    /\ cmd = "sign" => elf.sig = printed /\ \E p \in PubKeys : Authentic(elf, p)
    /\ cmd = "verify" => printed = "ok"

(***************************************************************************)
(* An invocation that fails takes no signature away (spec.md 7: a failed *)
(* build leaves no partially written artifact).  A sign without --sk     *)
(* raises NameError at line 58, after line 52 has already replaced the   *)
(* section.                                                              *)
(***************************************************************************)
FailedInvocationKeepsSignature ==
  [][exitcode' # 0 => \A p \in PubKeys : Authentic(elf, p) => Authentic(elf', p)]_vars
=============================================================================
