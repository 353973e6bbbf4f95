SPECIFICATION FairSpec
CONSTANTS
  r1 = r1  r2 = r2  k1 = k1  k2 = k2
  NoRunner = NoRunner  NoCaller = NoCaller
  Actors <- Canceller
  Runners <- OneRunner
  Callers <- OneCaller
  Peers = 2
  MaxFailover = 2
  MaxAttempts = 4
  MaxFaults = 1
  MaxCrashes = 1
INVARIANT TransfersJournaled
PROPERTIES CancelSticks TaskEnds
CHECK_DEADLOCK FALSE
