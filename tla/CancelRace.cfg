SPECIFICATION Spec
CONSTANTS
  r1 = r1  r2 = r2  k1 = k1  k2 = k2
  NoRunner = NoRunner  NoCaller = NoCaller
  Actors <- CancelAndNext
  Runners <- TwoRunners
  Callers <- TwoCallers
  Peers = 2
  MaxFailover = 2
  MaxAttempts = 4
  MaxFaults = 0
  MaxCrashes = 0
PROPERTY CancelSticks
CHECK_DEADLOCK FALSE
