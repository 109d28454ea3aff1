SPECIFICATION Spec
CHECK_DEADLOCK FALSE
CONSTANTS
  d1 = d1
  d2 = d2
  d3 = d3
  d4 = d4
  g = g
  dc = dc
  h = h
  nightly = nightly
  pr = pr
  Defects = {d1, d2, d3, d4}
  Groups = {g, dc}
  Hashes = {h}
  NoHash = NoHash
  Lines = {1, 2}
  GroupOf <- MCGroupOf
  HashOf <- MCHashOf
  Lineless = {d3}
  DesignGroup = dc
  Severe = {g}
  Paths = {nightly, pr}
  Options <- MCOptions
  NoFile = NoFile
  NoDefect = NoDefect
  Threshold = 60
  SeverePercent = 50
  MaxMetric = 2
  MaxEdits = 3
  MaxRuns = 3
  MaxFaults = 1
INVARIANTS
  SilenceIsJustified
  KnownDebtIsNotNew
  FixesAreReported
  ResolvedIsGone
  DriftIsReported
