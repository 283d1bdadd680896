SPECIFICATION KernelSpec
CONSTANTS
  t1 = t1
  t2 = t2
  t3 = t3
  idle = idle
  NoThread = NoThread
  Thread <- MCThread
  Idle = idle
  Main = t1
  Static <- MCStatic
  Obj = {}
  MaxPrio = 3
  InitPrio <- MCInitPrio
  InitTick = 1
  MaxTime = 2
  MaxNest = 1
  PrioChoices = {0}
  Guarded = TRUE
INVARIANTS
  KernelTypeOK
  QueuesConsistent
  ListsConsistent
  TimeoutFindsSuspended
  HighestRuns
