CONSTANTS
  t1 = t1
  t2 = t2
  t3 = t3
  c1 = c1
  c2 = c2
  died = died
  o1 = o1
  Thread = {t1, t2}
  CPU = {c1, c2}
  MaxPrio = 1
  ForgiveCnt = 2
  Event = {died}
  EvThreadDied = died
  Object = {o1}
  InitThread = t1
  BootCPU = c1
  Mortal = {t2}
  Signallable = {t1, t2}
  NoEvent = NoEvent
  NoObject = NoObject
  Idle = Idle
  NoThread = NoThread
SPECIFICATION Spec
INVARIANTS
  EventsExact
  OneCPUPerThread
  NoLostSignal
  QueuesExact
PROPERTIES
  WakeupComplete
  WorkConserving
  HighestFirst
  OnlySignalsRevive
