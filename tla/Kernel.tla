------------------------------- MODULE Kernel -------------------------------
(***************************************************************************)
(* The RT-Thread kernel's scheduler and threads: src/scheduler.c,          *)
(* src/thread.c, the tick of src/clock.c and the reclaiming of idle.c.     *)
(*                                                                         *)
(* One processor runs the thread "current".  What a kernel function does   *)
(* with interrupts disabled is one atomic step; between two such steps of  *)
(* a function the interrupts may strike, so a function with several        *)
(* locked sections is several actions joined by pc[t].  The tick           *)
(* interrupt runs to its end: while "due" holds the timers it has found    *)
(* expired, only it moves.                                                 *)
(*                                                                         *)
(* A thread timer is abstracted to the number of ticks it has left, 0 when *)
(* it is stopped.                                                          *)
(***************************************************************************)
EXTENDS Integers, FiniteSets, SequencesExt

CONSTANTS
  Thread,      \* the thread control blocks
  NoThread,    \* RT_NULL
  Idle,        \* the thread of idle.c
  Main,        \* the thread rt_application_init starts
  Static,      \* threads made by rt_thread_init, the others by rt_thread_create
  Obj,         \* wait lists of the IPC objects
  MaxPrio,     \* RT_THREAD_PRIORITY_MAX
  InitPrio,    \* init_priority
  InitTick,    \* init_tick, the time slice
  MaxTime,     \* bound: the longest sleep or timeout, in ticks
  MaxNest,     \* bound: the deepest nesting of rt_enter_critical
  PrioChoices, \* priorities RT_THREAD_CTRL_CHANGE_PRIORITY is called with
  Guarded      \* TRUE: a thread suspends, resumes or deletes another one only
               \* with the scheduler locked and the other's timer stopped

Prio == 0 .. MaxPrio - 1

ASSUME KernelAssumption ==
  /\ Idle \in Thread /\ Main \in Thread /\ NoThread \notin Thread
  /\ Static \subseteq Thread
  /\ MaxPrio \in Nat \ {0}
  /\ InitPrio \in [Thread -> Prio]
  /\ InitPrio[Idle] = MaxPrio - 1 /\ InitPrio[Main] < MaxPrio - 1
  /\ InitTick \in Nat \ {0} /\ MaxTime \in Nat \ {0} /\ MaxNest \in Nat
  /\ PrioChoices \subseteq Prio
  /\ Guarded \in BOOLEAN
  /\ {"none", "sleep", "suspend"} \cap Obj = {}

VARIABLES
  ready,    \* rt_thread_priority_table
  mask,     \* rt_thread_ready_priority_group, the set of its 1 bits
  current,  \* rt_current_thread
  nest,     \* rt_scheduler_lock_nest
  stat,     \* thread->stat; "NONE" when there is no such object
  prio,     \* thread->current_priority (and number_mask)
  err,      \* thread->error
  slice,    \* thread->remaining_tick
  timer,    \* ticks left of thread->thread_timer, 0 when stopped
  due,      \* expired timers rt_timer_check has still to serve
  waitq,    \* suspend_thread list of each IPC object
  defunct,  \* rt_thread_defunct
  pc,       \* where the thread is in a kernel function
  call,     \* the blocking call it is in: "none", "sleep", "suspend" or an Obj
  arg,      \* the thread its kernel function works on
  lag       \* history: a thread was made ready or reordered by a function that
            \* does not call rt_schedule, or not at once, and none came since

queueVars  == <<ready, mask, waitq, defunct>>
threadVars == <<stat, prio, err, slice, timer>>
callVars   == <<pc, call, arg>>
kernelVars == <<queueVars, threadVars, callVars, current, nest, due, lag>>

Stat == {"NONE", "INIT", "READY", "SUSPEND", "CLOSE"}
Pc   == {"run", "sched", "blocked", "suspend", "resume", "start",
         "insert", "startins", "del1", "del2", "del3", "dead",
         "got", "reset", "flush", "flushlock"}   \* the last four: IPC objects

(***************************************************************************)
(* Lists of threads.                                                       *)
(***************************************************************************)

(* rt_list_remove on a list that may hold t. *)
Unlink(q, t) ==
  IF t \in Range(q) THEN RemoveAt(q, CHOOSE i \in DOMAIN q : q[i] = t) ELSE q

UnlinkAll(qs, t) == [l \in DOMAIN qs |-> Unlink(qs[l], t)]

(* rt_list_remove and rt_list_insert_before(&table[p]) of a ready thread. *)
RequeuedFront(t, p) ==   \* mutant: rt_list_insert_after
  [UnlinkAll(ready, t) EXCEPT ![p] = <<t>> \o @]

Requeued(t, p) == [UnlinkAll(ready, t) EXCEPT ![p] = Append(@, t)]

(* rt_schedule_remove_thread: the bit of the thread's priority goes with   *)
(* the last thread of that priority.                                       *)
MaskWithoutAlways(t) == mask \ {prio[t]}   \* mutant: the list is not looked at

MaskWithout(t) ==
  IF Unlink(ready[prio[t]], t) = <<>> THEN mask \ {prio[t]} ELSE mask

RemoveThread(t) ==
  /\ ready' = UnlinkAll(ready, t)
  /\ mask' = MaskWithout(t)

(* rt_schedule_insert_thread: it does not look whether t is on a list. *)
InsertThread(t) ==
  /\ stat' = [stat EXCEPT ![t] = "READY"]
  /\ ready' = [ready EXCEPT ![prio[t]] = Append(@, t)]
  /\ mask' = mask \cup {prio[t]}

MakeReadyStillListed(t) ==   \* mutant: no rt_list_remove
  /\ stat' = [stat EXCEPT ![t] = "READY"]
  /\ ready' = Requeued(t, prio[t])
  /\ mask' = mask \cup {prio[t]} /\ waitq' = waitq

MakeReadyStatKept(t) ==   \* mutant: thread->stat is not set
  /\ ready' = Requeued(t, prio[t]) /\ waitq' = UnlinkAll(waitq, t)
  /\ mask' = mask \cup {prio[t]} /\ stat' = stat

(* rt_list_remove, then rt_schedule_insert_thread, in one locked section. *)
MakeReady(t) ==
  /\ stat' = [stat EXCEPT ![t] = "READY"]
  /\ ready' = Requeued(t, prio[t])
  /\ waitq' = UnlinkAll(waitq, t)
  /\ mask' = mask \cup {prio[t]}

(* rt_ipc_list_suspend's place in a wait list: at the end, or before the   *)
(* first thread of lower priority.                                         *)
WaitInsertFront(q, t, flag) == <<t>> \o q   \* mutant: always in front

WaitInsert(q, t, flag) ==
  LET lower == {i \in DOMAIN q : prio[t] < prio[q[i]]}
  IN IF flag = "PRIO" /\ lower # {} THEN InsertAt(q, Min(lower), t)
                                    ELSE Append(q, t)

(***************************************************************************)
(* rt_schedule: unless the scheduler is locked, run the first thread of    *)
(* the highest priority whose bit is set.                                  *)
(***************************************************************************)
DoSchedule ==
  /\ current' = IF nest = 0 THEN Head(ready'[Min(mask')]) ELSE current
  /\ lag' = (lag /\ nest # 0)

(* rt_thread_resume within a locked section. *)
Wake(t) ==
  /\ MakeReady(t)
  /\ timer' = [timer EXCEPT ![t] = 0]

(* The current thread is between two locked sections.  "reset" is a loop   *)
(* of the IPC objects that runs with interrupts disabled.                  *)
IrqEnabled == due = {} /\ pc[current] # "reset"

Running(t) == due = {} /\ current = t
InUser(t) == Running(t) /\ pc[t] = "run"
At(t, label) == Running(t) /\ pc[t] = label
Goto(t, label) == pc' = [pc EXCEPT ![t] = label]

(* A blocking call is made by a thread that holds no scheduler lock, and   *)
(* never by the idle thread.                                               *)
MayBlock(t) == InUser(t) /\ t # Idle /\ nest = 0

(* The first locked section of a blocking call: suspend the caller, start  *)
(* its timer when n > 0; rt_schedule comes next.                           *)
SuspendFor(t, why, n) ==
  /\ RemoveThread(t)
  /\ stat' = [stat EXCEPT ![t] = "SUSPEND"]
  /\ timer' = [timer EXCEPT ![t] = n]
  /\ Goto(t, "sched")
  /\ call' = [call EXCEPT ![t] = why]
  /\ UNCHANGED <<prio, slice, arg, defunct, current, nest, due, lag>>

(* The same on an IPC object's wait list. *)
Block(t, o, flag, n) ==
  /\ SuspendFor(t, o, n)
  /\ waitq' = [waitq EXCEPT ![o] = WaitInsert(@, t, flag)]
  /\ err' = [err EXCEPT ![t] = "EOK"]

(***************************************************************************)
(* Steps of kernel functions that were entered before.                     *)
(***************************************************************************)

Schedule(t) ==
  /\ At(t, "sched")
  /\ Goto(t, IF stat[t] = "CLOSE" THEN "dead"
             ELSE IF call[t] = "none" THEN "run" ELSE "blocked")
  /\ UNCHANGED <<queueVars, threadVars, call, arg, nest, due>>
  /\ DoSchedule

(* rt_thread_sleep and rt_thread_suspend(self); rt_schedule() return. *)
Return(t) ==
  /\ At(t, "blocked") /\ call[t] \in {"sleep", "suspend"}
  /\ err' = IF call[t] = "sleep" /\ err[t] = "TIMEOUT"
              THEN [err EXCEPT ![t] = "EOK"] ELSE err
  /\ Goto(t, "run")
  /\ call' = [call EXCEPT ![t] = "none"]
  /\ UNCHANGED <<queueVars, stat, prio, slice, timer, arg, current, nest, due, lag>>

(* rt_thread_suspend(other) after its check of stat. *)
SuspendLocked(t) ==
  LET u == arg[t] IN
  /\ At(t, "suspend")
  /\ stat' = [stat EXCEPT ![u] = "SUSPEND"]
  /\ RemoveThread(u)
  /\ waitq' = UnlinkAll(waitq, u)
  /\ timer' = [timer EXCEPT ![u] = 0]
  /\ Goto(t, "run")
  /\ arg' = [arg EXCEPT ![t] = NoThread]
  /\ UNCHANGED <<defunct, prio, err, slice, call, current, nest, due, lag>>

(* rt_thread_resume after its check of stat: off the list it is on, with   *)
(* the timer stopped ...                                                   *)
ResumeLocked(t) ==
  LET u == arg[t] IN
  /\ At(t, "resume") \/ At(t, "start")
  /\ ready' = UnlinkAll(ready, u)
  /\ waitq' = UnlinkAll(waitq, u)
  /\ timer' = [timer EXCEPT ![u] = 0]
  /\ Goto(t, IF pc[t] = "resume" THEN "insert" ELSE "startins")
  /\ UNCHANGED <<mask, defunct, stat, prio, err, slice, call, arg, current, nest, due, lag>>

(* ... and into the ready queue. rt_thread_startup goes on to rt_schedule. *)
ResumeInsert(t) ==
  LET u == arg[t] IN
  /\ At(t, "insert") \/ At(t, "startins")
  /\ InsertThread(u)
  /\ Goto(t, IF pc[t] = "insert" THEN "run" ELSE "sched")
  /\ arg' = [arg EXCEPT ![t] = NoThread]
  /\ lag' = (lag \/ pc[t] = "insert")
  /\ UNCHANGED <<waitq, defunct, prio, err, slice, timer, call, current, nest, due>>

(* rt_thread_delete and rt_thread_detach after rt_schedule_remove_thread:  *)
(* rt_timer_detach, the new stat, the defunct list.                        *)
DeleteTimer(t) ==
  /\ At(t, "del1")
  /\ timer' = [timer EXCEPT ![arg[t]] = 0]
  /\ Goto(t, "del2")
  /\ UNCHANGED <<queueVars, stat, prio, err, slice, call, arg, current, nest, due, lag>>

DeleteCloseStatKept(t) ==   \* mutant: thread->stat is not set
  /\ At(t, "del2")
  /\ Goto(t, "del3")
  /\ UNCHANGED <<queueVars, threadVars, call, arg, current, nest, due, lag>>

DeleteClose(t) ==
  /\ At(t, "del2")
  /\ stat' = [stat EXCEPT ![arg[t]] = "CLOSE"]
  /\ Goto(t, "del3")
  /\ UNCHANGED <<queueVars, prio, err, slice, timer, call, arg, current, nest, due, lag>>

DeleteDefunct(t) ==
  LET u == arg[t] IN
  /\ At(t, "del3")
  /\ defunct' = IF u \in Static THEN defunct ELSE <<u>> \o defunct
  /\ Goto(t, "run")
  /\ arg' = [arg EXCEPT ![t] = NoThread]
  /\ UNCHANGED <<ready, mask, waitq, threadVars, call, current, nest, due, lag>>

InCall(t) ==
  \/ Schedule(t) \/ Return(t) \/ SuspendLocked(t) \/ ResumeLocked(t) \/ ResumeInsert(t)
  \/ DeleteTimer(t) \/ DeleteClose(t) \/ DeleteDefunct(t)

(***************************************************************************)
(* Calls a thread makes.                                                   *)
(***************************************************************************)

(* rt_thread_sleep, rt_thread_delay *)
Sleep(t, n) ==
  /\ MayBlock(t)
  /\ SuspendFor(t, "sleep", n)
  /\ UNCHANGED <<waitq, err>>

(* rt_thread_suspend(rt_thread_self()), which rt_schedule() must follow *)
SuspendSelf(t) ==
  /\ MayBlock(t)
  /\ SuspendFor(t, "suspend", 0)
  /\ UNCHANGED <<waitq, err>>

(* rt_thread_yield with another thread in the same ready queue *)
Yield(t) ==
  /\ InUser(t) /\ stat[t] = "READY" /\ Len(ready[prio[t]]) > 1
  /\ ready' = Requeued(t, prio[t])
  /\ Goto(t, "sched")
  /\ UNCHANGED <<mask, waitq, defunct, threadVars, call, arg, current, nest, due, lag>>

EnterCritical(t) ==
  /\ InUser(t) /\ nest < MaxNest
  /\ nest' = nest + 1
  /\ UNCHANGED <<queueVars, threadVars, callVars, current, due, lag>>

ExitCriticalNoSchedule(t) ==   \* mutant: rt_schedule is left out
  /\ InUser(t) /\ nest > 0
  /\ nest' = nest - 1
  /\ UNCHANGED <<queueVars, threadVars, callVars, current, due, lag>>

ExitCritical(t) ==
  /\ InUser(t) /\ nest > 0
  /\ nest' = nest - 1
  /\ Goto(t, IF nest = 1 THEN "sched" ELSE "run")
  /\ UNCHANGED <<queueVars, threadVars, call, arg, current, due, lag>>

(* What a thread promises when it works on another thread u. *)
MayControl(t, u) ==
  /\ InUser(t) /\ u \notin {t, Idle}
  /\ Guarded => nest > 0 /\ timer[u] = 0 /\ \A v \in Thread : arg[v] # u

Begin(t, label, u) ==
  /\ Goto(t, label)
  /\ arg' = [arg EXCEPT ![t] = u]

(* rt_thread_suspend(u) reads stat with interrupts enabled *)
Suspend(t, u) ==
  /\ MayControl(t, u) /\ stat[u] = "READY"
  /\ Begin(t, "suspend", u)
  /\ UNCHANGED <<queueVars, threadVars, call, current, nest, due, lag>>

(* rt_thread_resume(u) of a thread that is in no IPC call *)
Resume(t, u) ==
  /\ MayControl(t, u) /\ stat[u] = "SUSPEND"
  /\ \A o \in Obj : u \notin Range(waitq[o])
  /\ Begin(t, "resume", u)
  /\ UNCHANGED <<queueVars, threadVars, call, current, nest, due, lag>>

(* rt_thread_delete(u), rt_thread_detach(u): first rt_schedule_remove_thread *)
Delete(t, u) ==
  /\ MayControl(t, u) /\ stat[u] \in {"INIT", "READY", "SUSPEND"}
  /\ RemoveThread(u)
  /\ waitq' = UnlinkAll(waitq, u)
  /\ Begin(t, "del1", u)
  /\ UNCHANGED <<defunct, threadVars, call, current, nest, due, lag>>

(* rt_thread_control(u, RT_THREAD_CTRL_CHANGE_PRIORITY, p): one locked     *)
(* section and no rt_schedule.  A wait list u is in is left as it is.      *)
ChangePriority(t, u, p) ==
  /\ InUser(t) /\ u # Idle /\ stat[u] \in {"INIT", "READY", "SUSPEND"}
  /\ Guarded => \A v \in Thread : arg[v] # u
  /\ prio' = [prio EXCEPT ![u] = p]
  /\ IF stat[u] = "READY"
       THEN ready' = Requeued(u, p) /\ mask' = MaskWithout(u) \cup {p} /\ lag' = TRUE
       ELSE UNCHANGED <<ready, mask, lag>>
  /\ UNCHANGED <<waitq, defunct, stat, err, slice, timer, callVars, current, nest, due>>

(* rt_thread_init, rt_thread_create of an object that does not exist *)
Create(t, u) ==
  /\ InUser(t) /\ nest = 0 /\ \A v \in Thread : arg[v] # u
  /\ stat[u] = IF u \in Static THEN "CLOSE" ELSE "NONE"
  /\ stat' = [stat EXCEPT ![u] = "INIT"]
  /\ prio' = [prio EXCEPT ![u] = InitPrio[u]]
  /\ err' = [err EXCEPT ![u] = "EOK"]
  /\ slice' = [slice EXCEPT ![u] = InitTick]
  /\ timer' = [timer EXCEPT ![u] = 0]
  /\ pc' = [pc EXCEPT ![u] = "run"]
  /\ call' = [call EXCEPT ![u] = "none"]
  /\ arg' = [arg EXCEPT ![u] = NoThread]
  /\ UNCHANGED <<queueVars, current, nest, due, lag>>

(* rt_thread_startup, up to the call of rt_thread_resume *)
Startup(t, u) ==
  /\ InUser(t) /\ stat[u] = "INIT"
  /\ prio' = [prio EXCEPT ![u] = InitPrio[u]]
  /\ stat' = [stat EXCEPT ![u] = "SUSPEND"]
  /\ Begin(t, "start", u)
  /\ UNCHANGED <<queueVars, err, slice, timer, call, current, nest, due, lag>>

(* rt_thread_exit, where the entry function returns to *)
Exit(t) ==
  /\ MayBlock(t)
  /\ RemoveThread(t)
  /\ stat' = [stat EXCEPT ![t] = "CLOSE"]
  /\ timer' = [timer EXCEPT ![t] = 0]
  /\ defunct' = IF t \in Static THEN defunct ELSE <<t>> \o defunct
  /\ Goto(t, "sched")
  /\ UNCHANGED <<waitq, prio, err, slice, call, arg, current, nest, due, lag>>

(* rt_thread_idle_excute reclaims the first defunct thread. *)
IdleExcute ==
  /\ InUser(Idle) /\ defunct # <<>>
  /\ stat' = [stat EXCEPT ![Head(defunct)] = "NONE"]
  /\ defunct' = Tail(defunct)
  /\ UNCHANGED <<ready, mask, waitq, prio, err, slice, timer, callVars,
                 current, nest, due, lag>>

UserCall(t) ==
  \/ \E n \in 1 .. MaxTime : Sleep(t, n)
  \/ SuspendSelf(t) \/ Yield(t) \/ EnterCritical(t) \/ ExitCritical(t) \/ Exit(t)
  \/ \E u \in Thread : \/ Suspend(t, u) \/ Resume(t, u) \/ Delete(t, u)
                       \/ Create(t, u) \/ Startup(t, u)
                       \/ \E p \in PrioChoices : ChangePriority(t, u, p)

(***************************************************************************)
(* The tick interrupt: rt_tick_increase.                                   *)
(***************************************************************************)
NextSliceUnloaded(t) == slice[t] - 1   \* mutant: init_tick is not reloaded

NextSlice(t) == IF slice[t] = 1 THEN InitTick ELSE slice[t] - 1

TimerAfterTickKept(t) ==   \* mutant: an expired timer stays in the timer list
  IF timer[t] > 1 THEN timer[t] - 1 ELSE timer[t]

TimerAfterTick(t) == IF timer[t] > 0 THEN timer[t] - 1 ELSE 0

Tick ==
  LET c == current
      yields == slice[c] = 1 /\ stat[c] = "READY" /\ Len(ready[prio[c]]) > 1
  IN
  /\ IrqEnabled
  /\ slice' = [slice EXCEPT ![c] = NextSlice(c)]
  /\ due' = {t \in Thread : timer[t] = 1}
  /\ timer' = [t \in Thread |-> TimerAfterTick(t)]
  /\ UNCHANGED mask
  /\ IF yields THEN ready' = Requeued(c, prio[c]) /\ DoSchedule
               ELSE UNCHANGED <<ready, current, lag>>
  /\ UNCHANGED <<waitq, defunct, stat, prio, err, callVars, nest>>

(* rt_timer_check serves one expired timer: rt_thread_timeout. *)
Timeout(t) ==
  /\ t \in due
  /\ due' = due \ {t}
  /\ err' = [err EXCEPT ![t] = "TIMEOUT"]
  /\ MakeReady(t)
  /\ DoSchedule
  /\ UNCHANGED <<defunct, prio, slice, timer, callVars, nest>>

KernelInit ==
  /\ ready = [p \in Prio |-> IF p = InitPrio[Main] THEN <<Main>>
                             ELSE IF p = InitPrio[Idle] THEN <<Idle>> ELSE <<>>]
  /\ mask = {InitPrio[Main], InitPrio[Idle]}
  /\ current = Main
  /\ nest = 0
  /\ stat = [t \in Thread |-> IF t \in {Main, Idle} THEN "READY" ELSE "INIT"]
  /\ prio = InitPrio
  /\ err = [t \in Thread |-> "EOK"]
  /\ slice = [t \in Thread |-> InitTick]
  /\ timer = [t \in Thread |-> 0]
  /\ due = {}
  /\ waitq = [o \in Obj |-> <<>>]
  /\ defunct = <<>>
  /\ pc = [t \in Thread |-> "run"]
  /\ call = [t \in Thread |-> "none"]
  /\ arg = [t \in Thread |-> NoThread]
  /\ lag = FALSE

ThreadStep == (\E t \in Thread : InCall(t)) \/ (\E t \in Thread \ {Idle} : UserCall(t))
Interrupt == Tick \/ \E t \in Thread : Timeout(t)

KernelNext == ThreadStep \/ IdleExcute \/ Interrupt

(***************************************************************************)
(* What is fair: interrupts come, a kernel function goes on when its       *)
(* thread runs, and a thread leaves the critical sections it enters.       *)
(***************************************************************************)
KernelFairness ==
  /\ SF_kernelVars(Interrupt)
  /\ \A t \in Thread \ {Idle} : SF_kernelVars(InCall(t)) /\ SF_kernelVars(ExitCritical(t))

KernelSpec == KernelInit /\ [][KernelNext]_kernelVars /\ KernelFairness

(***************************************************************************)
(* Properties.                                                             *)
(***************************************************************************)

KernelTypeOK ==
  /\ ready \in [Prio -> Seq(Thread)] /\ mask \in SUBSET Prio
  /\ waitq \in [Obj -> Seq(Thread)] /\ defunct \in Seq(Thread)
  /\ current \in Thread /\ nest \in 0 .. MaxNest /\ due \in SUBSET Thread
  /\ stat \in [Thread -> Stat] /\ prio \in [Thread -> Prio]
  /\ err \in [Thread -> {"EOK", "TIMEOUT", "ERROR"}]
  /\ slice \in [Thread -> 1 .. InitTick] /\ timer \in [Thread -> 0 .. MaxTime]
  /\ pc \in [Thread -> Pc] /\ arg \in [Thread -> Thread \cup {NoThread}]
  /\ call \in [Thread -> {"none", "sleep", "suspend"} \cup Obj]
  /\ lag \in BOOLEAN

(* u has left its queue for good but rt_thread_delete has not yet said so. *)
Deleting(u) == \E v \in Thread : arg[v] = u /\ pc[v] \in {"del1", "del2"}

(* The ready queues hold exactly the READY threads, each once and at its   *)
(* own priority, and a bit of the priority group is set exactly for the    *)
(* queues that are not empty: what rt_schedule relies on when it takes the *)
(* first thread of the highest level without looking.                      *)
QueuesConsistent ==
  /\ \A p \in Prio : /\ IsInjective(ready[p])
                     /\ \A t \in Range(ready[p]) : stat[t] = "READY" /\ prio[t] = p
                     /\ p \in mask <=> ready[p] # <<>>
  /\ \A t \in Thread : stat[t] = "READY" => t \in Range(ready[prio[t]]) \/ Deleting(t)

(* A thread is on a wait list only while it is suspended in a call on that *)
(* object, once; and on the defunct list only when it is closed, once.     *)
ListsConsistent ==
  /\ \A o \in Obj : /\ IsInjective(waitq[o])
                    /\ \A t \in Range(waitq[o]) : stat[t] = "SUSPEND" /\ call[t] = o
  /\ IsInjective(defunct)
  /\ \A t \in Range(defunct) : stat[t] = "CLOSE"

(* RT_ASSERT(thread->stat == RT_THREAD_SUSPEND) of rt_thread_timeout, and  *)
(* what makes it hold: only a suspended thread's timer is ever running.    *)
TimeoutFindsSuspended ==
  \A t \in Thread : t \in due \/ timer[t] > 0 => stat[t] = "SUSPEND"

(* "The thread object will be removed from thread queue": a deleted thread *)
(* is in no ready queue.  It follows from QueuesConsistent, and the        *)
(* unguarded kernel breaks it: the timer of the thread being deleted       *)
(* expires between rt_schedule_remove_thread and rt_timer_detach.          *)
DeletedLeavesQueue ==
  \A t \in Thread, p \in Prio : stat[t] = "CLOSE" => t \notin Range(ready[p])

(* "remove from suspend list": the thread that rt_thread_resume takes off  *)
(* its list and queues is suspended at that moment.  The function has read *)
(* the state before it disabled the interrupts; without Guarded the timer  *)
(* of the thread, or a wake-up, may have made it ready since, and it is    *)
(* unlinked from the ready queue behind the back of the bitmap.            *)
ResumeFindsSuspended ==
  \A t \in Thread : t = current /\ pc[t] = "resume" => stat[arg[t]] = "SUSPEND"

(* Preemption: a thread that is not inside a kernel function, with the     *)
(* scheduler unlocked, is the first of the highest ready priority, unless  *)
(* a priority change or a bare rt_thread_resume has left rt_schedule out.  *)
HighestRuns ==
  due = {} /\ nest = 0 /\ pc[current] = "run" /\ ~lag =>
    /\ stat[current] = "READY"
    /\ current = Head(ready[prio[current]])
    /\ \A t \in Thread : stat[t] = "READY" /\ ~Deleting(t) => prio[current] <= prio[t]

(* Time slices: a ready thread of the highest priority is not kept from    *)
(* the processor by the others of that priority.                           *)
TopPriorityRuns ==
  \A t \in Thread : stat[t] = "READY" /\ prio[t] = 0
                     ~> current = t \/ stat[t] # "READY" \/ prio[t] # 0

(* A sleep ends: the thread gets ready again, unless it is deleted.        *)
SleepEnds == \A t \in Thread : timer[t] > 0 ~> stat[t] # "SUSPEND"
=============================================================================
