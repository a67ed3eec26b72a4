SPECIFICATION Spec
CONSTANTS
  p1 = p1
  p2 = p2
  l1 = l1
  l2 = l2
  a1 = a1
  a2 = a2
  NoLeg = NoLeg
  Post = {p1}
  Leg = {l1, l2}
  Account = {a1, a2}
  PostOf <- OnePost
  AccountOf <- TwoAccounts
  Idempotent = {l1}
  Ambiguous = {l1, l2}
  NoBlindRetry = {l2}
  MaxAttempts = 2
  BatchSize = 1
  MaxConcurrent = 1
  MaxFaults = 2
  FaultPoints <- AnyStoreCall
INVARIANTS QueueConsistent DuplicatesOnlyFromUncertainty EventTellsTheTruth
PROPERTIES NeverResent ImplementsContract
