SPECIFICATION FairSpec
CONSTANTS
  w1 = w1  w2 = w2  p1 = p1  p2 = p2  nzb = nzb  peer = peer
  NoWorker = NoWorker  NoAttempt = NoAttempt
  Attempts <- OneNzb
  Usenet <- OneNzb
  Workers <- OneWorker
  Plans <- OnePlan
  UnresolvedJobRetries = 1
  MaxFaults = 1
  MaxCrashes = 1
  MaxLapses = 0
PROPERTIES DebtSettles DebrisCollected
CHECK_DEADLOCK FALSE
