\* One check of a watched page at a time, the owner acts between checks, a check may be
\* lost; servers that migrate, documents stored, cut up and searched,
\* and messages that come while chats are linked, switched and unlinked.
SPECIFICATION FairScenesSpec
CONSTANTS
  Scenes = {"watchers", "migrating", "knowledge", "chunking", "search", "bridge"}
  Targets = {"p", "q"}
  Ai = {"q"}
  Versions = {1, 2}
  Holds = {2}
  Checks = {"tick"}
  ServerOf <- OneServer
  Editors = {"owner"}
  PauseAfter = 2
  OwnerDuringCheck = FALSE
  MaxFaults = 1
  MaxEdits = 2
  MaxChanges = 2
  Unset = Unset
  Servers = {"s1", "s2"}
  PoolSize = 2
  MaxTroubles = 2
  HasTrigrams = TRUE
  Documents = {d}
  KbJobs = {"k1", "k2"}
  LastVersion = 2
  MaxKbJobs = 4
  MaxKbFaults = 2
  TARGET_CHARS = 10
  MAX_CHARS = 14
  MIN_CHARS = 3
  OVERLAP_CHARS = 2
  Lengths = {1, 5, 12}
  MaxPieces = 5
  KbChunks = {"c1", "c2", "c3", "c4"}
  Scores = {0, 2, 3, 4}
  MinScore = 3
  KeywordFloor = 2
  KeywordBonus = 2
  RelativeMargin = 2
  Limit = 1
  OverFetch = 2
  Chats = {"c1", "c2"}
  Users = {"u1", "u2"}
  BridgeSessions = {"s1", "s2"}
  NumCodes = 1
  MadeFor <- MCMadeFor
  Linked <- MCLinked
  MaxMessages <- MCMaxMessages
  MaxBridgeFaults = 1
INVARIANTS MigrationSafety DeletionTakesItsOwn   SearchIsExact
INVARIANT AnswersStayWithTheOwner
PROPERTIES  WatcherKeepsUp 
CHECK_DEADLOCK FALSE
