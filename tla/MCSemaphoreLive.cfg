SPECIFICATION LiveSpec
CONSTANTS
  t1 = t1
  t2 = t2
  idle = idle
  s1 = s1
  NoThread = NoThread
  Thread <- MCThread
  Idle = idle
  Main = t1
  Static = {idle}
  Obj = {s1}
  MaxPrio = 2
  InitPrio <- MCInitPrio
  InitTick = 1
  MaxTime = 1
  MaxNest = 0
  PrioChoices = {}
  Guarded = TRUE
  SemFlag <- MCSemFlag
  InitValue <- MCInitValue
  MaxValue = 1
  ResetTo = {0}
  IsrSem = {s1}
PROPERTIES
  FifoServesAll
  TopPriorityRuns
  SleepEnds
