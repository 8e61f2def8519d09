CONSTANTS
  Versions <- MCVersions
  Compatibilities <- MCCompatibilities
  Offsets <- MCOffsets
  Firmwares <- MCFirmwares
  HashTypes <- MCHashTypes
  Checks = {TRUE, FALSE}
  SignFiles <- MCSignFiles
  Keys <- MCKeys
  Base <- MCBase
  NoArg = NoArg
  Unreadable = Unreadable
  NoFile = NoFile
  NoPad = NoPad

SPECIFICATION Spec

\* The script ends: a final state is its exit.
CHECK_DEADLOCK FALSE

INVARIANT SpecExactFitAccepted
