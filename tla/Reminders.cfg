\* Overlapping ticks, failing queries and dying servers against an owner who edits.
SPECIFICATION FairSpec
CONSTANTS
  Ticks = {t1, t2}
  Period = 1
  MaxTime = 3
  MaxEdits = 3
  MaxFaults = 2
  NoTime = NoTime
PROPERTIES  DueIsDelivered
CHECK_DEADLOCK FALSE
