SPECIFICATION MCSpec
CONSTANTS
  t1 = t1
  t2 = t2
  t3 = t3
  idle = idle
  s1 = s1
  NoThread = NoThread
  Thread <- MCThread
  Idle = idle
  Main = t1
  Static <- MCThread
  Obj = {s1}
  MaxPrio = 3
  InitPrio <- MCInitPrio
  InitTick = 1
  MaxTime = 1
  MaxNest = 1
  PrioChoices = {}
  Guarded = TRUE
  SemFlag <- MCSemFlag
  InitValue <- MCInitValue
  MaxValue = 1
  ResetTo = {0}
  IsrSem = {}
SYMMETRY MCSymmetry
INVARIANTS
  SemSound
  NobodyWaitsForAToken
PROPERTIES
  SemaphorePromise
