CONSTANTS
  t1 = t1
  t2 = t2
  t3 = t3
  c1 = c1
  c2 = c2
  died = died
  o1 = o1
  Thread = {t1, t2, t3}
  CPU = {c1}
  MaxPrio = 0
  ForgiveCnt = 1
  Event = {died}
  EvThreadDied = died
  Object = {o1}
  InitThread = t1
  BootCPU = c1
  Mortal = {t3}
  Signallable = {}
  NoEvent = NoEvent
  NoObject = NoObject
  Idle = Idle
  NoThread = NoThread
SPECIFICATION FairSpec
PROPERTY TopReadyRuns
