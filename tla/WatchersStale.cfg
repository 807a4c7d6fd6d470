\* The owner changes what is watched while a check is running.
SPECIFICATION ScenesSpec
CONSTANTS
  Scenes = {"watchers"}
  Targets = {"p", "q"}
  Ai = {"q"}
  Versions = {1, 2}
  Holds = {2}
  Checks = {"tick"}
  ServerOf <- OneServer
  Editors = {"owner"}
  PauseAfter = 2
  OwnerDuringCheck = TRUE
  MaxFaults = 0
  MaxEdits = 1
  MaxChanges = 0
  Unset = Unset
  Servers = {"s1", "s2"}
  PoolSize = 2
  MaxTroubles = 0
  HasTrigrams = TRUE
  Documents = {d}
  KbJobs = {"k1", "k2"}
  LastVersion = 2
  MaxKbJobs = 0
  MaxKbFaults = 0
  TARGET_CHARS = 10
  MAX_CHARS = 14
  MIN_CHARS = 3
  OVERLAP_CHARS = 2
  Lengths = {1, 5, 12}
  MaxPieces = 1
  KbChunks = {"c1", "c2", "c3", "c4"}
  Scores = {0, 2, 3, 4}
  MinScore = 3
  KeywordFloor = 2
  KeywordBonus = 2
  RelativeMargin = 2
  Limit = 1
  OverFetch = 2
  Chats = {"c1", "c2"}
  Users = {"u1", "u2"}
  BridgeSessions = {"s1", "s2"}
  NumCodes = 1
  MadeFor <- MCMadeFor
  Linked <- MCLinked
  MaxMessages <- MCMaxMessages
  MaxBridgeFaults = 0
INVARIANT NoStaleBaseline
CHECK_DEADLOCK FALSE
