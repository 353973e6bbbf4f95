SPECIFICATION Spec
CONSTANTS
  r1 = r1  r2 = r2  k1 = k1  k2 = k2
  NoRunner = NoRunner  NoCaller = NoCaller
  Actors <- PickAndNext
  Runners <- TwoRunners
  Callers <- OneCaller
  Peers = 3
  MaxFailover = 2
  MaxAttempts = 4
  MaxFaults = 0
  MaxCrashes = 0
INVARIANTS TypeOK OneLiveRow TransfersJournaled
PROPERTY SwitchesInBudget
SYMMETRY CoroutineSymmetry
CHECK_DEADLOCK FALSE
