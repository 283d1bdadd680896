SPECIFICATION Spec
CONSTANTS
  t1 = t1
  t2 = t2
  t3 = t3
  idle = idle
  mb1 = mb1
  tx1 = tx1
  mq1 = mq1
  x = x
  y = y
  Nothing = Nothing
  NoThread = NoThread
  Thread <- MCThread
  Idle = idle
  Main = t1
  Static <- MCThread
  Obj = {mb1, tx1, mq1}
  MaxPrio = 3
  InitPrio <- MCInitPrio
  InitTick = 1
  MaxTime = 1
  MaxNest = 1
  PrioChoices = {}
  Guarded = TRUE
  Mb = {mb1}
  Tx <- MCTx
  MbFlag <- MCMbFlag
  Mq = {mq1}
  MqFlag <- MCMqFlag
  Slot = {1, 2}
  NoSlot = 0
  Size = 2
  Message = {x, y}
  Sends <- MCSends
  IsrSends = {x}
  Timeouts <- MCTimeouts
  Restarting = {}
  Ev = {}
  EventFlag <- MCNone
  Bit = {}
  Request = {}
  IsrEv = {}
  Dq = {}
  PushList <- MCNone
  DqSize = 1
  Lwm = 0
  Pusher = {}
  PushTimeouts = {}
  MaxPuts = 0
  Cp = {}
  Waiter <- MCNone
SYMMETRY MCSymmetry
INVARIANTS
  QueuesSound
  NobodyForgotten
PROPERTIES
  MailboxPromise
  MessageQueuePromise
