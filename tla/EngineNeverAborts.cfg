SPECIFICATION Spec
CONSTANTS
  NumCollectors = 4
  NumRules = 4
  MaxItems = 1
  MaxWorkers = 2
  Required <- MCRequired
  NeedsTech <- MCNeedsTech
  Tech <- MCTech
  SkipRules <- MCSkipRules
  IncludeOnly <- MCIncludeOnly
INVARIANT
  NeverAborts
CHECK_DEADLOCK FALSE
