CONSTANTS
  t1 = t1
  t2 = t2
  t3 = t3
  t4 = t4
  Null = Null
  Thread = {t1, t2, t3}
  NCPU = 2
  Value0 = 1
  AllowSigs = FALSE
  Signallable = {}
  MaxDepth = 2
SPECIFICATION FairSpec
INVARIANTS
  Exclusive
PROPERTIES
  ImplementsLock
  WaiterServed
