SPECIFICATION Spec
CONSTANTS
  w1 = w1  w2 = w2  p1 = p1  p2 = p2  nzb = nzb  peer = peer
  NoWorker = NoWorker  NoAttempt = NoAttempt
  Attempts <- OneNzb
  Usenet <- OneNzb
  Workers <- TwoWorkers
  Plans <- TwoPlans
  UnresolvedJobRetries = 1
  MaxFaults = 0
  MaxCrashes = 0
  MaxLapses = 0
PROPERTY SourceStaysWhilePublishing
CHECK_DEADLOCK FALSE
