\* A workflow run on two servers with crashes, database errors, edits, cancels and sweeps;
\* two servers that tick, an owner who edits and presses "Run now"; a canvas drawn and edited.
SPECIFICATION FairScenesSpec
CONSTANTS
  Scenes = {"flows", "schedules", "canvas"}
  Servers = {s1, s2}
  Flows <- MCFlows
  Nodes <- MCNodes
  Kind <- MCKind
  Succ <- MCSucc
  Start = "start"
  MaxNodes = 4
  MaxEdits = 2
  NoNode = NoNode
  NoFlow = NoFlow
  Schedulers = {v1, v2}
  Schedules = {a, b}
  MaxParallel = 2
  Period = 1
  MaxTime = 2
  MaxScheduleEdits = 1
  MaxManual = 1
  MaxFaults = 1
  NoTime = NoTime
  NoSchedule = NoSchedule
  CanvasNodes = {"t", "a", "b", "p", "e"}
  KindOf <- MCKindOf
  MaxDrawn = 5
  MaxBranches = 2
  Plugs <- MCPlugs
  Occurrences = 2
  MaxPlugged = 4
INVARIANTS ScheduleSafety RunsWhatIsDrawn
PROPERTIES RunSafety RunsComeToRest  OpenedIsSaved
CHECK_DEADLOCK FALSE
