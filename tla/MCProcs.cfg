CONSTANTS
  t0 = t0
  t1 = t1
  t2 = t2
  t3 = t3
  None = None
  Pid = {0, 1, 2}
  Thread = {t0, t1, t2, t3}
  Terminator = t0
  InitThread = t1
  FirstThread = t2
  FirstPid = 1
  Waiters = {t1, t2}
  Starters = {t2}
  Peekers = {t1}
SPECIFICATION Spec
INVARIANTS
  RefsExact
  ReapedOnce
  NoLostDeath
  OrphansAdopted
  ReleasedBeforeZombie
  NoOtherDeadlock
CHECK_DEADLOCK FALSE
