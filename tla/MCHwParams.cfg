SPECIFICATION Spec
CONSTANTS
  UintMax = 4095
  Width <- MCWidth
  TimeUnit = 10
  Slave <- MCSlave
  MaxPeriods = 0
  RateMin = 1
  RateMax = 8
  MaxPasses = 16
  MaxRounds = 12
  MinPeriodTimes <- MCMinPeriodTimes
  Kinds = {"null", "direct", "rate"}
  Requests <- MCRequests
  MaxCalls <- MCMaxCalls
  Sample <- MCSample
CHECK_DEADLOCK FALSE
INVARIANTS
  TypeOK
  NothingLost
  GrantedStays
  RulesSettled
  SomethingLeft
  SlaveAgrees
PROPERTIES
  NearestTaken
