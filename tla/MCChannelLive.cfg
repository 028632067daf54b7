CONSTANTS
  t1 = t1
  t2 = t2
  h1 = h1
  h2 = h2
  c1 = c1
  c2 = c2
  Dev = Dev
  None = None
  Client = {t1, t2}
  Handler = {h1}
  Creator = h1
  Chan = {c1}
  NCPU = 1
  RidMod = 12
  Cancellable = TRUE
  NoBlockOps = {"read", "write"}
  Signallable = {t1}
  MayDie = TRUE
  MaxSent = 2
SPECIFICATION FairSpec
INVARIANTS
  NoStaleReply

  
CHECK_DEADLOCK FALSE
