SPECIFICATION Spec
CONSTANTS
  Sessions = {own, other}
  Own = {own}
  Chunks = {a, b}
  Captures = {k}
  MaxSeq = 2
  None = None
  Overlaps <- UserOverlaps
  MaxPresses = 3
  MaxInbox = 1
SYMMETRY AudioSymmetry
INVARIANT MicNeedsSession
CHECK_DEADLOCK FALSE
