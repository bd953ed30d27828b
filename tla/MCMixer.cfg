SPECIFICATION Spec
CONSTANTS
  Controls = {1, 2, 3}
  Control <- MCControl
  Values = {0, 1}
  MaxChanges = 2
  MaxSets = 1
  MaxLoads = 2
CHECK_DEADLOCK FALSE
INVARIANTS
  TypeOK
  CacheFollows
  BagsAgree
  AppTold
  ValuesFresh
  AbortsOnlyRacing
PROPERTIES
  WritesBackOnlyStale
