CONSTANTS
  t1 = t1
  t2 = t2
  t3 = t3
  p1 = p1
  p2 = p2
  Null = Null
  Thread = {t1, t2, t3}
  NCPU = 2
  Value0 = 1
  AllowSigs = TRUE
  Signallable = {t1}
  Proc = {p1, p2}
  Home <- MCHome
  Owner0 = p1
  MaxTaken = 3
  MaxGiven = 2
  MaxSent = 1
SPECIFICATION SemsSpec
INVARIANTS
  PermitsExact
  RefsExact
CHECK_DEADLOCK FALSE
