\* Redis errors, lost replies, late renewals and a dying worker, all at once; files
\* read while calls fail; agents at their provider; and what the messengers' side does when
\* answers, settings, polls and calls cross.
SPECIFICATION FairScenesSpec
CONSTANTS
  Scenes = {"lane", "reading", "natives", "turns",
            "answers", "whatsapp", "telegram", "calls", "away"}
  Procs = {w1, w2}
  Turns = {t1, t2, t3}
  NoTurn = NoTurn
  Cap = 1
  UseRedis = TRUE
  RedisMayFail = TRUE
  LockMayLapse = TRUE
  MayCrash = TRUE
  ReadFiles = 3
  ReadWorkers = {"w1", "w2"}
  ChunksPerFile = 2
  QueueSize = 1
  Batch = 2
  MaxReadFaults = 1
  AgentIds = {"a"}
  Functions = {"f", "g"}
  AgentChats = {"c"}
  Requests = {"r", "q"}
  MaxRequests = 5
  MaxNativeFaults = 2
  Own = {"f", "g"}
  Approvals = {"p"}
  Hosted = {"m"}
  MaxTexts = 1
  MaxTurnFaults = 1
  Asks = {"q1", "q2"}
  Commands = {"q1"}
  Posts = {"p1", "p2"}
  MaxAskFaults = 2
  MaxSaves = 2
  MaxChannels = 3
  MaxDrops = 2
  Tokens = {"t"}
  MaxTokens = 3
  MaxUpdates = 2
  MaxPollFaults = 1
  Notices = {"n1"}
  MaxChannelFaults = 2
  AwayMessages = {"m1", "m2", "m3"}
  MaxAwaySaves = 3
  MaxIntervals = 1
  MaxAwayFaults = 1
INVARIANTS LaneSafety ProviderHoldsWhatIsSaved TurnsAreHeardOut
INVARIANTS  PollingIsSafe CallsAreAnswered OneAwayMessage
PROPERTIES EveryTurnGetsItsGo IngestionEnds LastSavedWins
CHECK_DEADLOCK FALSE
