SPECIFICATION Spec
CONSTANTS
  a = a
  b = b
  c = c
  u1 = u1
  Timer = {a, b, c}
  User = {u1}
  NoTimer = NoTimer
  TickMod = 16
  Times = {1, 5}
  InitTime <- MCInitTime
  Periodic = {c}
  Tuned = {a}
  MaxDelay = 1
VIEW MCView
INVARIANTS
  TimerSound
PROPERTIES
  AlarmsPromise
  StopStops
