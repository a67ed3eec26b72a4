SPECIFICATION MCSpec
CONSTANTS
  ChunkSize = 2
  MaxLen = 5
  MaxDamage = 2
  MaxRecords = 3
  MaxFaults = 3
  Master = {"m1", "m2", "m3"}
  Plugin = {"a"}
  Part = {"a"}
  Tenant = {"t"}
  Context = {"x", "y"}
  Child = {c1, c2}
  Absent = Absent
  MaxValues = 1
  Thread = {"t", "u"}
  Index = {1, 2, 3}
  Space = {"p"}
  Id = {"x", "y"}
  Dims = {1, 2}
  Limit = 4
  K = 2
  Score = {1, 2, 3}
  MaxTotal = 2
  MaxOffers = 4
  AppKeys = {k1, k2, o}
  Operator = {o}
  NoKey = Absent
  Broken = "broken"
  AllowFile = TRUE
  MaxEvents = 2
SYMMETRY Alike
INVARIANTS
  ReadsTheTruth
  PromisedOpens
  ResolvedWhole
  OpensItsOwn
  IndexKept
  AppKeysKept
PROPERTY ReplacedWhole
\* A file that is sealed, a log that is compacted and a query that is answered are done.
CHECK_DEADLOCK FALSE
