SPECIFICATION Spec
CONSTANTS
  r1 = r1  r2 = r2  k1 = k1  k2 = k2
  NoRunner = NoRunner  NoCaller = NoCaller
  Actors <- Canceller
  Runners <- OneRunner
  Callers <- OneCaller
  Peers = 3
  MaxFailover = 3
  MaxAttempts = 5
  MaxFaults = 0
  MaxCrashes = 1
PROPERTY LadderSpec
CHECK_DEADLOCK FALSE
