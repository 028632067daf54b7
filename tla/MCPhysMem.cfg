CONSTANTS
  t1 = t1
  t2 = t2
  NoThread = NoThread
  Thread = {t1, t2}
  Frames0 <- MCFrames0
  Kframes0 = 0
  Cframes0 = 1
  Share = 1
  AtOnce = 2
  JobCount = 1
  Word = 16
  MaxCount = 2
  MaxUframes = 3
  Blocks = 2
SPECIFICATION FairSpec
INVARIANTS
  CountersCovered
  NoLostSleeper
  JobsExact
PROPERTY SwapInServed
CHECK_DEADLOCK FALSE
