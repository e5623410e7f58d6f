SPECIFICATION FairSpec
CONSTANTS
  Pages = {p1, p2}
  MaxRetries = 1
  MaxActs = 2
  MaxOpens = 2
  MaxFaults = 1
INVARIANTS SavedTellsTruth OwnContent
PROPERTY EditArrives
CHECK_DEADLOCK FALSE
