SPECIFICATION Spec
CONSTANTS
  Proc = {p1, p2, p3}
  NoProc = nobody
  UseServer = {TRUE, FALSE}
  MaxTries = 2
  MaxCrashes = 2
  Beyond = FALSE
INVARIANTS
  TypeOK
  MutualExclusion
  OpenIsConfigured
  OneSemaphore
  NothingLeft
PROPERTIES
  OpenReturns
  ServerLeaves
