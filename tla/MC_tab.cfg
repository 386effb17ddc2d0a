SPECIFICATION Spec
CONSTANTS
  Sessions = {own, other}
  Own = {own}
  Chunks = {a, b}
  Captures = {k}
  MaxSeq = 2
  None = None
  Overlaps <- UserOverlaps
  MaxPresses = 4
  MaxInbox = 2
SYMMETRY AudioSymmetry
INVARIANTS
  TypeOK
  
  
  
PROPERTY RetriesKeepAudio
CHECK_DEADLOCK FALSE
