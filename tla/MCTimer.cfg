CONSTANTS
  t1 = t1
  t2 = t2
  Thread = {t1, t2}
  Alarmers = {t1, t2}
  Msecs = {0, 3, 5}
  TimeInc = 2
  LISTENER_COUNT = 2
SPECIFICATION Spec
INVARIANTS
  EntriesExact
PROPERTIES
  ImplementsDeadlines
  SleepEnds
