\* Two workers share the session through Redis, turns give up, workers crash; a service
\* answers whole, cut off or not at all; chats are stored while they are listed;
\* projects are saved, deleted, imported and run; a subscription whose events come late and
\* out of order; and two calls at a time that spend the wallet.
SPECIFICATION ScenesSpec
CONSTANTS
  Scenes = {"lane", "loops", "chats", "studio", "billing", "wallet"}
  Procs = {w1, w2}
  Turns = {t1, t2, t3, t4}
  NoTurn = NoTurn
  Cap = 1
  UseRedis = TRUE
  RedisMayFail = FALSE
  LockMayLapse = FALSE
  MayCrash = TRUE
  Services = {"anthropic", "openai"}
  PastStores <- MCPastStores
  JsonRetries = 2
  RoundLimit = 2
  MaxAsked = 3
  MaxReplies = 2
  MaxLoopFaults = 1
  ChatIds = {1, 2, 3}
  OldChats = {1, 2}
  OldRows <- MCOldRows
  PageLimit = 1
  MaxOffset = 9
  MaxPinned = 1
  MaxClock = 2
  MaxWrites = 2
  AgentRows = {"a1", "a2"}
  StudioFlows = {"f1", "f2"}
  Projects = {"p1", "p2"}
  Jobs = {"j1", "j2"}
  Tickers = {"s1", "s2"}
  Files <- MCFiles
  MaxSaves = 2
  MaxSlots = 1
  MaxStudioFaults = 1
  Subs = 2
  BillingJobs = {"j1", "j2"}
  MaxSnapshots = 4
  MaxBillingFaults = 1
  Calls = {"c1", "c2"}
  Offers <- MCOffers
  Price <- MCPrice
  MaxConcurrent = 1
  FailsToTrip = 2
  Credit = 3
  KeyLimit = 2
  MaxCalls = 3
  MaxWalletFaults = 2
INVARIANTS  PagesAreComplete 
INVARIANTS ProjectsStayWhole RowFollowsRazorpay BilledAsServed EveryProviderIsTried
PROPERTY ImplementsPromise
CHECK_DEADLOCK FALSE
