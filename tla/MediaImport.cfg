SPECIFICATION FairSpec
CONSTANTS
  s1 = s1
  s2 = s2
  w1 = w1
  w2 = w2
  Session = {s1, s2}
  Workspace = {w1, w2}
  HomeOf <- Homes
  MaxSize = 2
  Declares <- Sizes
  MaxMetadata = 2
  Describes <- TextSizes
  Knows <- Paths
  Quota = 4
  MaxOpen = 2
  MaxHandlers = 2
  MaxFaults = 1
CHECK_DEADLOCK FALSE
INVARIANTS ImportedWhole DiskAccounted 
PROPERTY AbandonedIsRemoved
