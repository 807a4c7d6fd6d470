\* An agent whose service may reject the tools of a request.
SPECIFICATION Spec
CONSTANTS
  Weight <- MCWeight
  Budget = 5
  Keep = 2
  Turns = {"agent"}
  Asked = {{"agent"}}
  Stoppable = {}
  Overlap = TRUE
  Past <- MCPast
  Routes <- MCRoutes
  Menu <- MCMenu
  Parallel = {"read"}
  MaxParallel = 2
  MaxRounds = 1
  MaxStreak = 2
  MaxSame = 2
  Rejectable = {"tools"}
  MaxFaults = 0
  MaxCrashes = 0
INVARIANT WrapUpIsAnswered
CHECK_DEADLOCK FALSE
