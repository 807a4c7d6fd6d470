\* The header's rule, without Redis: broken once the last in line gives up.
SPECIFICATION Spec
CONSTANTS
  Procs = {w1}
  Turns = {t1, t2, t3}
  NoTurn = NoTurn
  Cap = 2
  UseRedis = FALSE
  RedisMayFail = FALSE
  LockMayLapse = FALSE
  MayCrash = FALSE
INVARIANT OneTurnAtATime
CHECK_DEADLOCK FALSE
