SPECIFICATION FairSpec
CONSTANTS
  NumCollectors = 4
  NumRules = 4
  MaxItems = 1
  MaxWorkers = 2
  Required <- MCRequired
  NeedsTech <- MCNeedsTech
  Tech <- MCTech
  SkipRules <- MCSkipRules
  IncludeOnly <- MCIncludeOnly
INVARIANTS
  CollectionIsDeterministic
  NoRuleOnFailedCollector
  AccountingComplete
  PoolDrained
PROPERTIES
  ScanAdvances
  Terminates
  ContractSpec
CHECK_DEADLOCK FALSE
