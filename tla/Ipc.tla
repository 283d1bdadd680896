-------------------------------- MODULE Ipc --------------------------------
(***************************************************************************)
(* What the IPC objects of src/ipc.c share: objects come and go, and the   *)
(* threads waiting on one are all woken with an error before it goes.      *)
(***************************************************************************)
EXTENDS Kernel

VARIABLE exists   \* the object is initialised and not detached

(***************************************************************************)
(* rt_ipc_list_resume_all: one waiter is woken with -RT_ERROR.             *)
(***************************************************************************)
WakeWithoutError(o) ==   \* mutant: thread->error is not set
  Wake(Head(waitq[o])) /\ UNCHANGED err

WakeWithError(o) ==
  /\ Wake(Head(waitq[o]))
  /\ err' = [err EXCEPT ![Head(waitq[o])] = "ERROR"]

(***************************************************************************)
(* rt_..._detach, rt_..._delete: the loop looks at the list with           *)
(* interrupts enabled and wakes its first thread with interrupts disabled. *)
(* There is no rt_schedule at the end.  The code asks nothing of its       *)
(* caller; under Guarded the caller has locked the scheduler and no waiter *)
(* has a timer, so that nothing comes between the look and the taking.     *)
(***************************************************************************)
Detach(t, o) ==
  /\ InUser(t) /\ exists[o]
  /\ Guarded => nest > 0 /\ \A u \in Range(waitq[o]) : timer[u] = 0
  /\ Goto(t, "flush")
  /\ call' = [call EXCEPT ![t] = o]
  /\ UNCHANGED <<queueVars, threadVars, arg, current, nest, due, lag, exists>>

FlushCheck(t) ==
  /\ At(t, "flush") /\ waitq[call[t]] # <<>>
  /\ Goto(t, "flushlock")
  /\ UNCHANGED <<queueVars, threadVars, call, arg, current, nest, due, lag, exists>>

FlushWake(t) ==
  /\ At(t, "flushlock")
  /\ WakeWithError(call[t])
  /\ Goto(t, "flush")
  /\ lag' = TRUE
  /\ UNCHANGED <<defunct, prio, slice, call, arg, current, nest, due, exists>>

FlushEnd(t) ==
  /\ At(t, "flush") /\ waitq[call[t]] = <<>>
  /\ exists' = [exists EXCEPT ![call[t]] = FALSE]
  /\ Goto(t, "run")
  /\ call' = [call EXCEPT ![t] = "none"]
  /\ UNCHANGED <<queueVars, threadVars, arg, current, nest, due, lag>>

(* rt_..._init, rt_..._create *)
ObjectInit(t, o) ==
  /\ InUser(t) /\ ~exists[o]
  /\ exists' = [exists EXCEPT ![o] = TRUE]
  /\ waitq' = [waitq EXCEPT ![o] = <<>>]
  /\ UNCHANGED <<ready, mask, defunct, threadVars, callVars, current, nest, due, lag>>

(***************************************************************************)
(* Several waiters are woken within one locked section, in the order of    *)
(* the sequence woken; rt_ipc_list_resume_all called with interrupts       *)
(* disabled wakes all of them with -RT_ERROR.                              *)
(***************************************************************************)
ListsAfter(woken) ==
  LET lists[i \in 0 .. Len(woken)] ==
        IF i = 0 THEN [ready |-> ready, waitq |-> waitq]
        ELSE [ready |-> [lists[i - 1].ready EXCEPT ![prio[woken[i]]] = Append(@, woken[i])],
              waitq |-> UnlinkAll(lists[i - 1].waitq, woken[i])]
  IN lists[Len(woken)]

WakeEach(woken) ==
  LET w == Range(woken) IN
  /\ stat' = [t \in Thread |-> IF t \in w THEN "READY" ELSE stat[t]]
  /\ ready' = ListsAfter(woken).ready /\ waitq' = ListsAfter(woken).waitq
  /\ mask' = mask \cup {prio[t] : t \in w}
  /\ timer' = [t \in Thread |-> IF t \in w THEN 0 ELSE timer[t]]

WakeAllWithError(woken) ==
  /\ WakeEach(woken)
  /\ err' = [t \in Thread |-> IF t \in Range(woken) THEN "ERROR" ELSE err[t]]

(***************************************************************************)
(* The kernel under threads that call IPC objects but do not suspend,      *)
(* delete or reprioritise each other; the first thread starts the others,  *)
(* sleeps to let them run and is the one that locks the scheduler.         *)
(***************************************************************************)
CallerStep ==
  \/ \E t \in Thread : InCall(t) \/ Timeout(t)
  \/ \E n \in 1 .. MaxTime : Sleep(Main, n)
  \/ \E u \in Thread : Startup(Main, u)
  \/ EnterCritical(Main) \/ ExitCritical(Main)

(* An interrupt handler that found threads to wake calls rt_schedule.      *)
IsrSchedule(woken) == IF woken THEN DoSchedule ELSE UNCHANGED <<current, lag>>

(* What rt_ipc_list_resume_all takes for granted when it has found the     *)
(* list not empty with interrupts enabled and then takes its first thread. *)
(* It holds by the guard under Guarded; without it a timeout in between    *)
(* breaks it.                                                              *)
FlushFindsThread ==
  \A t \in Thread : pc[t] = "flushlock" /\ current = t => waitq[call[t]] # <<>>

(* What the kernel keeps must not suffer from the objects threads wait on. *)
KernelSound ==
  KernelTypeOK /\ QueuesConsistent /\ ListsConsistent /\ TimeoutFindsSuspended /\ HighestRuns
=============================================================================
