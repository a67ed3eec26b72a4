SPECIFICATION FairSpec
CONSTANTS
  p1 = p1
  p2 = p2
  l1 = l1
  l2 = l2
  a1 = a1
  a2 = a2
  NoLeg = NoLeg
  Post = {p1, p2}
  Leg = {l1, l2}
  Account = {a1}
  PostOf <- TwoPosts
  AccountOf <- OneAccount
  Idempotent = {l1, l2}
  Ambiguous = {}
  NoBlindRetry = {}
  MaxAttempts = 1
  BatchSize = 2
  MaxConcurrent = 2
  MaxFaults = 1
  FaultPoints <- LeasedStoreCall
PROPERTY DueIsDecided
