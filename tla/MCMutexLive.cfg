SPECIFICATION LiveSpec
CONSTANTS
  t1 = t1
  t2 = t2
  idle = idle
  m1 = m1
  NoThread = NoThread
  Thread <- MCThread
  Idle = idle
  Main = t1
  Static <- MCThread
  Obj = {m1}
  MaxPrio = 3
  InitPrio <- MCInitPrio
  InitTick = 1
  MaxTime = 1
  MaxNest = 1
  PrioChoices = {}
  Guarded = TRUE
  MutexFlag <- MCMutexFlag
  MaxHold = 1
PROPERTIES
  WaitersAreServed
