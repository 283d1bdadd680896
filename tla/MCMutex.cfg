SPECIFICATION Spec
CONSTANTS
  t1 = t1
  t2 = t2
  t3 = t3
  idle = idle
  m1 = m1
  m2 = m2
  NoThread = NoThread
  Thread <- MCThread
  Idle = idle
  Main = t1
  Static <- MCThread
  Obj = {m1}
  MaxPrio = 4
  InitPrio <- MCInitPrio
  InitTick = 1
  MaxTime = 1
  MaxNest = 0
  PrioChoices = {}
  Guarded = TRUE
  MutexFlag <- PrioFlag
  MaxHold = 2
INVARIANTS
  MutexSound
  MutualExclusion
  OwnerInherits
  BoostEnds
