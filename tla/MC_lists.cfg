SPECIFICATION Spec
CONSTANTS
  None = None
  Sessions = {own, other}
  Own = {own}
  MaxGets = 2
  MaxInbox = 2
  MaxPresses = 2
INVARIANTS EndedNotOffered OneInvitePerSession 
CHECK_DEADLOCK FALSE
