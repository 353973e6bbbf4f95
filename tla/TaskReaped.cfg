SPECIFICATION FairSpec
CONSTANTS
  r1 = r1  r2 = r2  k1 = k1  k2 = k2
  NoRunner = NoRunner  NoCaller = NoCaller
  Actors <- Enders
  Runners <- OneRunner
  Callers <- TwoCallers
  Peers = 1
  MaxFailover = 2
  MaxAttempts = 4
  MaxFaults = 0
  MaxCrashes = 0
PROPERTY StaleIsReaped
CHECK_DEADLOCK FALSE
