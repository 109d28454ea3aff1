SPECIFICATION Spec
CHECK_DEADLOCK FALSE
CONSTANTS
  x1 = x1
  x2 = x2
  Spans <- MCSpans
  NoFile = NoFile
  MaxRuns = 2
  PipeSize = 2
  MaxFaults = 2
INVARIANTS
  NothingLeftBehind
  EvidenceIsOwn
PROPERTIES
  RunsEnd
