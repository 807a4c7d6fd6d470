\* An agent with two routes, alone; or two turns of plain chat that overlap.
SPECIFICATION FairSpec
CONSTANTS
  Weight <- MCWeight
  Budget = 5
  Keep = 2
  Turns = {"agent", "chat", "more"}
  Asked <- MCAsked
  Stoppable = {"agent", "chat"}
  Overlap = TRUE
  Past <- MCPast
  Routes <- MCRoutes
  Menu <- MCMenu
  Parallel = {"read"}
  MaxParallel = 2
  MaxRounds = 1
  MaxStreak = 2
  MaxSame = 2
  Rejectable = {"stream_options"}
  MaxFaults = 1
  MaxCrashes = 1
PROPERTIES  TurnSafety EveryTurnEnds
CHECK_DEADLOCK FALSE
