SPECIFICATION MCSpec
CONSTANTS
  Home = "default"
  Others = {"ws"}
  Identity <- Identities
  None = "none"
  Starter = {1, 2}
  MaxCalls = 4
  Secret = {"s1", "s2"}
  NoSecret = "none"
  Key = {"k1", "k2"}
  NoKey = "nokey"
  Keep = keep
  MaxEdits = 4
  Handler = {"h1", "h2"}
  History <- Published
  RefreshBatch = 1
  MinAge = 2
  MaxTime = 2
  DayLen = 3
  WeekLen = 2
  Zone <- Clocks
  Score = {0, 1}
  Platform = {"p", "q"}
  MinPlatform = 3
  MinFine = 2
  MaxSlots = 2
  SampleLimit = 3
  BuiltIn <- MCBuiltIn
  AnyDay = AnyDay
  MaxNow = 9
  MaxPosts = 4
INVARIANTS
  SpacesKept
  CredentialKept
  NextIsFirst
  SlotsAreEarned
PROPERTY RefreshesHold
\* The bounds on handlers' calls, changes and time end a behaviour.
CHECK_DEADLOCK FALSE
