SPECIFICATION FairSpec
CONSTANTS
  scan = scan  publisher = publisher  undo = undo
  Clients <- ThreeClients
  Roots <- TwoRoots
  MaxAsks = 4
INVARIANTS TypeOK CountsExact NoLostWakeup
PROPERTIES LeasesShared NoOvertaking Served
CHECK_DEADLOCK FALSE
