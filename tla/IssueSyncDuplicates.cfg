SPECIFICATION FairSpec
CONSTANTS
  k1 = k1
  b1 = b1
  Keys = {k1}
  Bodies = {b1}
  FirstRunCap = 1
  FetchLimit = 9
  CloseResolved = TRUE
  Unreliable = {"list"}
  MaxFaults = 1
  MaxChanges = 1
  MaxTouches = 0
PROPERTIES
  NewIssueOnlyIfNoneOpen
