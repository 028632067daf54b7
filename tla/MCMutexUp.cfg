CONSTANTS
  t1 = t1
  t2 = t2
  t3 = t3
  t4 = t4
  Null = Null
  Thread = {t1, t2, t3}
  NCPU = 1
  Value0 = 1
  AllowSigs = FALSE
  Signallable = {t1, t2, t3}
  MaxDepth = 2
SPECIFICATION Spec
INVARIANTS
  FreeWhenTaken
