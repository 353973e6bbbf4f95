SPECIFICATION FairSpec
CONSTANTS
  r1 = r1  r2 = r2  s1 = s1  s2 = s2  p1 = p1  p2 = p2  p3 = p3
  Roots = {r1, r2}
  Scopes = {s1, s2}
  Paths = {p1, p2, p3}
  RootOf <- TwoRoots
  ScopeOf <- TwoScopes
  OnDisk = {p1, p3}
  Catalogued = {p1}
  NoFence = NoFence
  Rewalks = 1
  MaxDisturbed = 3
INVARIANTS TypeOK CompletedSwept NothingOverlooked
PROPERTIES NoFalseMissing StopWins EndedStays RunsEnd QueuedRuns
CHECK_DEADLOCK FALSE
