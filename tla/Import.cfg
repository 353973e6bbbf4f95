SPECIFICATION FairSpec
CONSTANTS
  Count = 2
  SamePath <- One
  OtherPath <- Two
  Artwork <- One
  Content <- One
  MaxCalls = 2
  MaxDisturbed = 2
INVARIANTS TypeOK RolledBackClean OldKept CompletedWhole
PROPERTIES ImportIsSafe MovesAsCleanupExpects StrangersStay Concludes Boots
CHECK_DEADLOCK FALSE
