SPECIFICATION Spec
CONSTANTS
  Clients <- MCClients
  Bodies <- MCBodies
  MaxPosts = 4
  Baseline <- MCBaseline
  MaxQueueSpans = 2
  MaxSeenHashes = 1
  Deduplicate = TRUE
INVARIANT
  FinalFlushComplete
CHECK_DEADLOCK FALSE
