CONSTANTS
  Sessions = {s1, s2}
  SegmentKeys = {k1}
  Files = {f1}
  Takes = {a1, a2}
  ResultIds = {r1}
  PromptSessions = {s1, s2}
  Tabs = {t1}
  Posts = {p1, p2}
  Requests <- RequestNames
  MaxRequests = 3
  Outcomes <- TextOnly
  FallbackBucket = TRUE
  Faults = {"worker_loss","server_crash","store_fails","channel_close","broker_restart"}
  MaxFaults = 1
  None = None
SPECIFICATION Spec
SYMMETRY SessionSymmetry
CHECK_DEADLOCK FALSE
INVARIANT TypeOK
INVARIANT JobsNameStoredAudio
 
