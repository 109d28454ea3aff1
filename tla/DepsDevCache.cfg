SPECIFICATION Spec
CHECK_DEADLOCK FALSE
CONSTANTS
  a = a
  b = b
  s1 = s1
  s2 = s2
  Scans = {s1, s2}
  Packages = {a, b}
  Versions = {1, 2, 3}
  Prereleases = {3}
  AnyVersion = AnyVersion
  Malformed = Malformed
  Published <- MCPublished
  Manifests <- MCManifests
  MaxWorkers = 2
  Unknown = Unknown
  None = None
  Missing = Missing
  Cut = Cut
  Damaged = Damaged
  MaxStarts = 3
  MaxFaults = 1
INVARIANTS
  AnswersAreGenuine
  UnsolvableIsGenuine
  RecommendationIsNewest
  RaisingIsExplained
PROPERTIES
  ScansEnd
  SnapshotSpec
