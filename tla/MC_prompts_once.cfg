CONSTANTS
  Sessions = {s1}
  SegmentKeys = {k1}
  Files = {f1}
  Takes = {a1}
  ResultIds = {r1, r2}
  PromptSessions = {s1}
  Tabs = {t1}
  Posts = {p1, p2}
  Requests <- PromptRequests
  MaxRequests = 4
  Outcomes <- TextOnly
  FallbackBucket = TRUE
  Faults = {"server_crash","channel_close"}
  MaxFaults = 1
  None = None
SPECIFICATION Spec
SYMMETRY Symmetry
CHECK_DEADLOCK FALSE
PROPERTY PromptsFollowLifecycle
