SPECIFICATION MCSpec
CONSTANTS
  Post = {p1, p2}
  Agent = {a1, a2}
  Person = Person
  Drafts <- MCDrafts
  Posts <- MCPosts
  MaxLen = 3
  MaxAttempts = 2
  MaxRuns = 3
  Contents <- MCContents
  MaxSize = 2
  MaxUploads = 3
  MaxUploadRuns = 2
  Provider = {"treg", "composio"}
  Treg = "treg"
  Fallback = "unconfigured"
  Orders <- MCOrders
  Reader = {1, 2}
  TTL = 1
  MaxTime = 2
  Wires <- Bodies
  MaxMessages = 2
  MaxTokens = 3
SYMMETRY Alike
INVARIANTS
  ActorKnowsTheEdit
  GrantKept
  ChunkingIsInvisible
  ThreadKept
  ThreadDelivered
  OnceAsHashed
  AnswersAreRecent
\* A stream that is read and runs that are used up are done.
CHECK_DEADLOCK FALSE
