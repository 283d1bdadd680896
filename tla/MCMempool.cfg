SPECIFICATION Spec
CONSTANTS
  t1 = t1
  t2 = t2
  t3 = t3
  idle = idle
  p1 = p1
  b1 = b1
  b2 = b2
  NoThread = NoThread
  Thread <- MCThread
  Idle = idle
  Main = t1
  Static <- MCThread
  Obj = {p1}
  MaxPrio = 3
  InitPrio <- MCInitPrio
  InitTick = 1
  MaxTime = 1
  MaxNest = 1
  PrioChoices = {}
  Guarded = TRUE
  Chunk = {b1, b2}
  Allocator = {t1}
  Timed = FALSE
INVARIANTS
  BlocksAccounted
  WokenFindsBlock
  PendedCounted
