CONSTANTS
  Users = {ann, bob}
  Times = {1, 2, 4}
  MaxSegments = 4
  None = None
SPECIFICATION Spec
CHECK_DEADLOCK FALSE
INVARIANT LinesKeepTime
INVARIANT LabelsAreSpeakers
INVARIANT LinesTellTranscript
