SPECIFICATION FairSpec
CONSTANTS
  k1 = k1
  b1 = b1
  Keys = {k1}
  Bodies = {b1}
  FirstRunCap = 1
  FetchLimit = 9
  CloseResolved = TRUE
  Unreliable = {}
  MaxFaults = 0
  MaxChanges = 2
  MaxTouches = 1
PROPERTIES
  ClosedByHandNotRecreated
