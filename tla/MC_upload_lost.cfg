CONSTANTS
  Sessions = {s1}
  SegmentKeys = {k1}
  Files = {f1}
  Takes = {a1}
  ResultIds = {r1}
  PromptSessions = {}
  Tabs = {t1}
  Posts = {p1, p2}
  Requests <- FileRequests
  MaxRequests = 2
  Outcomes <- TextOnly
  FallbackBucket = TRUE
  Faults = {}
  MaxFaults = 0
  None = None
SPECIFICATION Spec
SYMMETRY Symmetry
CHECK_DEADLOCK FALSE
INVARIANT UploadedAudioIsTranscribed
