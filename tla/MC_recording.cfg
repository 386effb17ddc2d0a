CONSTANTS
  Sessions = {s1}
  SegmentKeys = {k1, k2}
  Files = {f1}
  Takes = {a1, a2, a3}
  ResultIds = {r1}
  PromptSessions = {}
  Tabs = {t1}
  Posts = {p1, p2}
  Requests <- RecordRequests
  MaxRequests = 5
  Outcomes <- TextOnly
  FallbackBucket = TRUE
  Faults = {"worker_loss"}
  MaxFaults = 1
  None = None
SPECIFICATION Spec
SYMMETRY Symmetry
CHECK_DEADLOCK FALSE
 
INVARIANT SegmentTextIsCurrent
