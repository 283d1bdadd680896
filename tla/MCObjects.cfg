SPECIFICATION Spec
CONSTANTS
  t1 = t1
  t2 = t2
  t3 = t3
  idle = idle
  e1 = e1
  dq1 = dq1
  push1 = push1
  c1 = c1
  f = f
  g = g
  x = x
  y = y
  Nothing = Nothing
  NoThread = NoThread
  Thread <- MCThread
  Idle = idle
  Main = t1
  Static <- MCThread
  Obj = {e1, dq1, push1, c1}
  MaxPrio = 3
  InitPrio <- MCInitPrio
  InitTick = 1
  MaxTime = 1
  MaxNest = 1
  PrioChoices = {}
  Guarded = TRUE
  Ev = {e1}
  EventFlag <- MCEventFlag
  Bit = {f, g}
  Request <- MCRequest
  IsrEv = {e1}
  Message = {x, y}
  Sends <- MCSends
  IsrSends = {}
  Timeouts <- MCTimeouts
  Restarting = {dq1, push1}
  Dq = {dq1}
  PushList <- MCPushList
  DqSize = 2
  Lwm = 1
  Pusher = {t1}
  PushTimeouts <- MCPushTimeouts
  MaxPuts = 4
  Cp = {c1}
  Waiter <- MCWaiter
  Mb = {}
  Tx <- MCNone
  MbFlag <- MCNone
  Size = 1
  Mq = {}
  MqFlag <- MCNone
  Slot = {1}
  NoSlot = 0
SYMMETRY MCSymmetry
INVARIANTS
  ObjectsSound
  NobodyMissesFlags
  DqNobodyForgotten
  NobodyWaitsCompleted
PROPERTIES
  EventPromise
  DataQueuePromise
