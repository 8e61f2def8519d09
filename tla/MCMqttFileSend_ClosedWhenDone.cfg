CONSTANTS
  NumBlocks = 3
  ChanCap = 3
  MaxQueue = 3

SPECIFICATION Spec

\* The script exits after send_close; the final states are its end.
CHECK_DEADLOCK FALSE

INVARIANT ClosedWhenDone
