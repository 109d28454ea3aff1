SPECIFICATION FairSpec
CONSTANTS
  k1 = k1
  k2 = k2
  b1 = b1
  b2 = b2
  Keys = {k1, k2}
  Bodies = {b1, b2}
  FirstRunCap = 1
  FetchLimit = 9
  CloseResolved = TRUE
  Unreliable <- AllCommands
  MaxFaults = 1
  MaxChanges = 2
  MaxTouches = 1
INVARIANTS
  OneOpenPerKey
  RunSettles
  RunIsIdempotent
PROPERTIES
  TrackerSpec
  NewIssueJustified
  Settles
