-------------------------------- MODULE Timer --------------------------------
(***************************************************************************)
(* The timer list of src/timer.c: one list ordered by expiry, served by    *)
(* the tick interrupt, with expiry ticks that wrap around.                 *)
(*                                                                         *)
(* What runs with interrupts disabled is one step.  A thread that starts   *)
(* or stops a timer does so in several steps, and the tick interrupt comes *)
(* between any two of them; the interrupt itself runs to its end, and the  *)
(* timeout functions it calls start, stop and change timers too.           *)
(***************************************************************************)
EXTENDS Integers, SequencesExt

CONSTANTS
  Timer,      \* the timer objects
  NoTimer,
  User,       \* threads that work on timers, whatever their priorities
  TickMod,    \* the tick counter's range: 2^32 in the code
  Times,      \* values of init_tick
  InitTime,   \* the times the timers are created with
  Periodic,   \* the timers created with RT_TIMER_FLAG_PERIODIC
  Tuned,      \* bound: the timers that are ever changed, detached and
              \* initialised again
  MaxDelay    \* bound: ticks that come while rt_timer_start is held up
              \* between reading the tick counter and inserting the timer

RT_TICK_MAX == TickMod - 1
Half == RT_TICK_MAX \div 2

(* RT_ASSERT(timer->init_tick < RT_TICK_MAX / 2) asks less: it leaves no   *)
(* room for the delay.                                                     *)
ASSUME TimerAssumption ==
  /\ NoTimer \notin Timer /\ MaxDelay \in Nat
  /\ Periodic \subseteq Timer /\ Tuned \subseteq Timer /\ InitTime \in [Timer -> Times]
  /\ TickMod \in Nat \ {0} /\ Times \subseteq Nat \ {0}
  /\ \A n \in Times : n + MaxDelay < Half

VARIABLES
  tick,      \* rt_tick
  list,      \* rt_timer_list
  expiry,    \* timer->timeout_tick
  init,      \* timer->init_tick
  active,    \* the timers with RT_TIMER_FLAG_ACTIVATED
  periodic,  \* the timers with RT_TIMER_FLAG_PERIODIC
  exists,    \* the timers that are initialised and not detached
  serving,   \* the timer whose timeout function rt_timer_check has called
  irq,       \* "off", or where rt_timer_check is: "check", "callback"
  pc,        \* where the user is in a timer function
  arg,       \* the timer it works on
  delay      \* ticks since the user has read the tick counter

objVars  == <<init, periodic, exists>>
userVars == <<pc, arg, delay>>
vars == <<tick, list, expiry, active, objVars, serving, irq, userVars>>

(* _rt_timer_remove, of a timer that may be in the list *)
Off(q, t) ==
  IF t \in Range(q) THEN RemoveAt(q, CHOOSE i \in DOMAIN q : q[i] = t) ELSE q

(* a - b as unsigned ticks *)
Ahead(a, b) == (a - b) % TickMod

(* The new timer goes before the first one that expires later.             *)
InsertUnwrapped(q, t, e) ==   \* mutant: the ticks are compared directly
  LET later == {i \in DOMAIN q : expiry[q[i]] > e}
  IN IF later = {} THEN Append(q, t) ELSE InsertAt(q, Min(later), t)

Insert(q, t, e) ==
  LET later == {i \in DOMAIN q : /\ Ahead(expiry[q[i]], e) # 0
                                 /\ Ahead(expiry[q[i]], e) < Half}
  IN IF later = {} THEN Append(q, t) ELSE InsertAt(q, Min(later), t)

(* rt_timer_start in one go, as timeout functions and rt_timer_check call it *)
StartNow(t) ==
  LET e == (tick + init[t]) % TickMod IN
  /\ expiry' = [expiry EXCEPT ![t] = e]
  /\ list' = Insert(Off(list, t), t, e)
  /\ active' = active \cup {t}

(* Nobody is in the middle of a function on the timer. *)
Idle(t) == exists[t] /\ \A u \in User : arg[u] # t

(***************************************************************************)
(* Threads.                                                                *)
(***************************************************************************)
Enter(u, t, label) ==
  /\ irq = "off" /\ pc[u] = "run" /\ Idle(t)
  /\ pc' = [pc EXCEPT ![u] = label] /\ arg' = [arg EXCEPT ![u] = t]
  /\ UNCHANGED delay

Step(u, from, to) ==
  /\ irq = "off" /\ pc[u] = from
  /\ pc' = [pc EXCEPT ![u] = to]
  /\ arg' = IF to = "run" THEN [arg EXCEPT ![u] = NoTimer] ELSE arg
  /\ delay' = [delay EXCEPT ![u] = 0]

(* rt_timer_start: out of the list, read the tick counter, into the list *)
Start(u, t) ==
  /\ Enter(u, t, "start")
  /\ list' = Off(list, t) /\ active' = active \ {t}
  /\ UNCHANGED <<tick, expiry, objVars, serving, irq>>

StartRead(u) ==
  /\ Step(u, "start", "insert")
  /\ expiry' = [expiry EXCEPT ![arg[u]] = (tick + init[arg[u]]) % TickMod]
  /\ UNCHANGED <<tick, list, active, objVars, serving, irq>>

StartInsert(u) ==
  /\ Step(u, "insert", "run")
  /\ list' = Insert(list, arg[u], expiry[arg[u]])
  /\ active' = active \cup {arg[u]}
  /\ UNCHANGED <<tick, expiry, objVars, serving, irq>>

(* rt_timer_stop of an active timer; on another one it only fails *)
Stop(u, t) ==
  /\ Enter(u, t, "stop") /\ t \in active
  /\ UNCHANGED <<tick, list, expiry, active, objVars, serving, irq>>

StopRemoveKept(u) ==   \* mutant: no _rt_timer_remove
  /\ Step(u, "stop", "clear")
  /\ UNCHANGED <<tick, list, expiry, active, objVars, serving, irq>>

StopRemove(u) ==
  /\ Step(u, "stop", "clear")
  /\ list' = Off(list, arg[u])
  /\ UNCHANGED <<tick, expiry, active, objVars, serving, irq>>

StopClear(u) ==
  /\ Step(u, "clear", "run")
  /\ active' = active \ {arg[u]}
  /\ UNCHANGED <<tick, list, expiry, objVars, serving, irq>>

(* rt_timer_detach, rt_timer_delete: the flag is left as it is *)
Detach(u, t) ==
  /\ irq = "off" /\ pc[u] = "run" /\ Idle(t) /\ t \in Tuned
  /\ list' = Off(list, t) /\ exists' = [exists EXCEPT ![t] = FALSE]
  /\ UNCHANGED <<tick, expiry, active, init, periodic, serving, irq, userVars>>

(* rt_timer_init, rt_timer_create *)
TimerInit(u, t, n, p) ==
  /\ irq = "off" /\ pc[u] = "run" /\ ~exists[t]
  /\ exists' = [exists EXCEPT ![t] = TRUE] /\ init' = [init EXCEPT ![t] = n]
  /\ active' = active \ {t} /\ expiry' = [expiry EXCEPT ![t] = 0]
  /\ periodic' = IF p THEN periodic \cup {t} ELSE periodic \ {t}
  /\ UNCHANGED <<tick, list, serving, irq, userVars>>

(* rt_timer_control, by a thread or by a timeout function *)
Control(t, n, p) ==
  /\ Idle(t) /\ t \in Tuned
  /\ init' = [init EXCEPT ![t] = n]
  /\ periodic' = IF p THEN periodic \cup {t} ELSE periodic \ {t}
  /\ UNCHANGED <<tick, list, expiry, active, exists, serving, irq, userVars>>

(***************************************************************************)
(* The tick interrupt: rt_tick_increase, then rt_timer_check.              *)
(***************************************************************************)
Tick ==
  /\ irq = "off" /\ \A u \in User : delay[u] < MaxDelay
  /\ tick' = (tick + 1) % TickMod /\ irq' = "check"
  /\ delay' = [u \in User |-> IF pc[u] = "insert" THEN delay[u] + 1 ELSE 0]
  /\ UNCHANGED <<list, expiry, active, objVars, serving, pc, arg>>

ExpiredSoon(t) ==   \* mutant: one tick early
  Ahead(tick + 1, expiry[t]) < Half

Expired(t) == Ahead(tick, expiry[t]) < Half

CheckServe ==
  /\ irq = "check" /\ list # <<>> /\ Expired(Head(list))
  /\ serving' = Head(list) /\ list' = Off(list, Head(list)) /\ irq' = "callback"
  /\ UNCHANGED <<tick, expiry, active, objVars, userVars>>

(* What the timeout function may do, any number of times. *)
CallbackStart(t) ==
  /\ irq = "callback" /\ Idle(t)
  /\ StartNow(t)
  /\ UNCHANGED <<tick, objVars, serving, irq, userVars>>

CallbackStop(t) ==
  /\ irq = "callback" /\ Idle(t) /\ t \in active
  /\ list' = Off(list, t) /\ active' = active \ {t}
  /\ UNCHANGED <<tick, expiry, objVars, serving, irq, userVars>>

(* It returns: a periodic timer it has not stopped starts again. *)
CallbackReturn ==
  /\ irq = "callback" /\ irq' = "check" /\ serving' = NoTimer
  /\ IF serving \in periodic \cap active
       THEN StartNow(serving)
       ELSE active' = active \ {serving} /\ UNCHANGED <<list, expiry>>
  /\ UNCHANGED <<tick, objVars, userVars>>

CheckEnd ==
  /\ irq = "check" /\ ~(list # <<>> /\ Expired(Head(list)))
  /\ irq' = "off"
  /\ UNCHANGED <<tick, list, expiry, active, objVars, serving, userVars>>

UserStep(u) ==
  \/ \E t \in Timer :
       \/ Start(u, t) \/ Stop(u, t) \/ Detach(u, t)
       \/ \E n \in Times, p \in BOOLEAN : TimerInit(u, t, n, p)
  \/ StartRead(u) \/ StartInsert(u) \/ StopRemove(u) \/ StopClear(u)

Interrupt ==
  \/ Tick \/ CheckServe \/ CallbackReturn \/ CheckEnd
  \/ \E t \in Timer : CallbackStart(t) \/ CallbackStop(t)

Init ==
  /\ tick = 0 /\ list = <<>> /\ expiry = [t \in Timer |-> 0]
  /\ init = InitTime /\ periodic = Periodic
  /\ active = {} /\ exists = [t \in Timer |-> TRUE]
  /\ serving = NoTimer /\ irq = "off"
  /\ pc = [u \in User |-> "run"] /\ arg = [u \in User |-> NoTimer]
  /\ delay = [u \in User |-> 0]

Next ==
  \/ \E u \in User : UserStep(u)
  \/ Interrupt
  \/ \E t \in Timer, n \in Times, p \in BOOLEAN : Control(t, n, p)

Spec == Init /\ [][Next]_vars

(***************************************************************************)
(* Properties.                                                             *)
(***************************************************************************)

TimerTypeOK ==
  /\ tick \in 0 .. RT_TICK_MAX /\ list \in Seq(Timer)
  /\ expiry \in [Timer -> 0 .. RT_TICK_MAX] /\ init \in [Timer -> Times]
  /\ active \subseteq Timer /\ periodic \subseteq Timer /\ exists \in [Timer -> BOOLEAN]
  /\ serving \in Timer \cup {NoTimer} /\ irq \in {"off", "check", "callback"}
  /\ pc \in [User -> {"run", "start", "insert", "stop", "clear"}]
  /\ arg \in [User -> Timer \cup {NoTimer}] /\ delay \in [User -> 0 .. MaxDelay]

(* The ticks a timer has left, negative when it is overdue. *)
Left(t) == LET d == Ahead(expiry[t], tick) IN IF d < Half THEN d ELSE d - TickMod

(* The list holds each timer once, those that expire first in front.       *)
ListOrdered ==
  /\ IsInjective(list)
  /\ \A i, j \in DOMAIN list : i < j => Left(list[i]) <= Left(list[j])

(* The timer list is sound across the wrap-around of the tick counter.     *)
TimerSound == TimerTypeOK /\ ListOrdered

(* Timers started by threads that are held up, started and stopped in each *)
(* other's timeout functions, periodic and one-shot, ring when their ticks *)
(* have passed, neither earlier nor later, those due first in front,       *)
(* across the wrap-around of rt_tick: the timers implement AlarmClock.     *)
Alarms == INSTANCE AlarmClock WITH
  Delays <- 0 .. MaxDelay, armed <- Range(list), due <- irq # "off", ringing <- serving,
  left <- [t \in Timer |-> IF t \in Range(list) THEN Left(t) ELSE 0]

AlarmsPromise == Alarms!Init /\ [][Alarms!Next]_(Alarms!vars)

(* When rt_timer_stop returns, the timer is not in the list, although the  *)
(* interrupt may have served, restarted or refused it at every step.       *)
StopStops ==
  [][\A u \in User : pc[u] = "clear" /\ pc'[u] = "run" => arg[u] \notin Range(list')]_vars

(* RT_TIMER_FLAG_ACTIVATED, "timer is active": what rt_timer_stop looks at *)
(* before it takes a timer out of the list.                                *)
ListedIsActive ==
  irq = "off" => \A t \in Range(list) : t \in active \/ \E u \in User : arg[u] = t
=============================================================================
