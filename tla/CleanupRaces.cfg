SPECIFICATION Spec
CONSTANTS
  w1 = w1  w2 = w2  p1 = p1  p2 = p2  nzb = nzb  peer = peer
  NoWorker = NoWorker  NoAttempt = NoAttempt
  Attempts <- OnePeer
  Usenet <- NoUsenet
  Workers <- TwoWorkers
  Plans <- OnePlan
  UnresolvedJobRetries = 1
  MaxFaults = 0
  MaxCrashes = 0
  MaxLapses = 1
INVARIANTS TypeOK CurrentView CommitExclusive SettledMeansCleared
SYMMETRY WorkerSymmetry
CHECK_DEADLOCK FALSE
