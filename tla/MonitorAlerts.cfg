SPECIFICATION FairSpec
CONSTANTS
  Clients <- MCClients
  Bodies <- MCBodies
  MaxPosts = 4
  Baseline <- MCBaseline
  MaxQueueSpans = 2
  MaxSeenHashes = 1
  Deduplicate = TRUE
INVARIANTS
  SpansConserved
  RequestsAccounted
  QueueBounded
  AtMostOncePerEpoch
  NothingSuppressed
  AlertsAreReal
  StopsClean
PROPERTIES
  StreamSpec
  WindowIsFlushed
  ShutdownEnds
CHECK_DEADLOCK FALSE
