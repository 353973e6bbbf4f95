SPECIFICATION Spec
CONSTANTS
  r1 = r1  r2 = r2  k1 = k1  k2 = k2
  NoRunner = NoRunner  NoCaller = NoCaller
  Actors <- Importers
  Runners <- OneRunner
  Callers <- TwoCallers
  Peers = 2
  MaxFailover = 1
  MaxAttempts = 3
  MaxFaults = 0
  MaxCrashes = 1
INVARIANT ReimportKeepsRow
SYMMETRY CoroutineSymmetry
CHECK_DEADLOCK FALSE
