CONSTANTS
  Keys = {k1, k2}
  Bodies = {b1, b2}
  ObjcopyResults = {TRUE, FALSE}
  NoArg = NoArg
  NoSection = NoSection
  NoFile = NoFile
  Undef = Undef

SPECIFICATION Spec

INVARIANT ExitZeroMeansDone
