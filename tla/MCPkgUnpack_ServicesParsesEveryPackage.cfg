CONSTANTS
  Bytes = {"P", "K", "G", "x"}
  MaxLen = 7

SPECIFICATION Spec

\* The script ends: a final state is its exit.
CHECK_DEADLOCK FALSE

INVARIANT ServicesParsesEveryPackage
