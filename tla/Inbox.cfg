SPECIFICATION FairSpec
CONSTANTS
  a1 = a1
  c1 = c1
  c2 = c2
  poller = poller
  asked = asked
  Account = {a1}
  Comment = {c1, c2}
  Pass = {poller, asked}
  Poller = poller
  Replier = {r1}
  MaxFaults = 1
CHECK_DEADLOCK FALSE
INVARIANTS EachNewRowOnce ReplyIsMarkedTruly
PROPERTY PassesSettle
