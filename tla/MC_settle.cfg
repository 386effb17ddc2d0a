CONSTANTS
  Sessions = {s1}
  SegmentKeys = {k1}
  Files = {f1}
  Takes = {a1}
  ResultIds = {r1, r2}
  PromptSessions = {s1}
  Tabs = {t1}
  Posts = {p1, p2}
  Requests <- UploadRequests
  MaxRequests = 3
  Outcomes <- AnyOutcome
  FallbackBucket = TRUE
  Faults = {"worker_loss"}
  MaxFaults = 1
  None = None
SPECIFICATION FairSpec
CHECK_DEADLOCK FALSE
PROPERTY PromptsSettle
PROPERTY TranscribingFinishes
INVARIANT PromptAccountedFor
INVARIANT TranscribingIsPending
