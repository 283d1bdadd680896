----------------------------- MODULE Semaphore -----------------------------
(***************************************************************************)
(* Semaphores of src/ipc.c on the kernel: taken and released by threads,   *)
(* released by interrupt handlers, reset, detached and initialised again.  *)
(***************************************************************************)
EXTENDS Ipc

CONSTANTS
  SemFlag,    \* "FIFO" or "PRIO" for each semaphore
  InitValue,  \* the value rt_sem_init is called with
  MaxValue,   \* bound on sem->value: no release is made at this value
  ResetTo,    \* values RT_IPC_CMD_RESET is called with
  IsrSem      \* the semaphores interrupt handlers release

Sem == Obj

ASSUME SemAssumption ==
  /\ SemFlag \in [Sem -> {"FIFO", "PRIO"}] /\ InitValue \in [Sem -> Nat]
  /\ MaxValue \in Nat /\ MaxValue < 65536
  /\ \A s \in Sem : InitValue[s] <= MaxValue
  /\ ResetTo \subseteq 0 .. MaxValue /\ IsrSem \subseteq Sem

VARIABLE value   \* sem->value

semVars == <<value, exists>>
vars == <<kernelVars, semVars>>

(***************************************************************************)
(* rt_sem_take.  A call with time 0 on a semaphore without tokens changes  *)
(* nothing; SemWait's n = 0 is RT_WAITING_FOREVER, which starts no timer.  *)
(***************************************************************************)
SemTake(t, s) ==
  /\ InUser(t) /\ exists[s] /\ value[s] > 0
  /\ value' = [value EXCEPT ![s] = @ - 1]
  /\ Goto(t, "got")
  /\ call' = [call EXCEPT ![t] = s]
  /\ UNCHANGED <<queueVars, threadVars, arg, current, nest, due, lag, exists>>

SemWait(t, s, n) ==
  /\ MayBlock(t) /\ exists[s] /\ value[s] = 0
  /\ Block(t, s, SemFlag[s], n)
  /\ UNCHANGED semVars

(* rt_sem_take returns, from the fast path or after rt_schedule. *)
SemReturn(t) ==
  /\ call[t] \in Sem /\ (At(t, "got") \/ At(t, "blocked"))
  /\ Goto(t, "run")
  /\ call' = [call EXCEPT ![t] = "none"]
  /\ UNCHANGED <<queueVars, threadVars, arg, current, nest, due, lag, semVars>>

(***************************************************************************)
(* rt_sem_release: the first waiter gets the token, the value grows only   *)
(* when there is none.                                                     *)
(***************************************************************************)
SemGiveTwice(s) ==   \* mutant: the value grows although a thread is woken
  /\ value[s] < MaxValue
  /\ value' = [value EXCEPT ![s] = @ + 1]
  /\ \/ waitq[s] # <<>> /\ Wake(Head(waitq[s]))
     \/ waitq[s] = <<>> /\ UNCHANGED <<ready, mask, waitq, stat, timer>>

SemGive(s) ==
  \/ /\ waitq[s] # <<>>
     /\ Wake(Head(waitq[s]))
     /\ UNCHANGED value
  \/ /\ waitq[s] = <<>> /\ value[s] < MaxValue
     /\ value' = [value EXCEPT ![s] = @ + 1]
     /\ UNCHANGED <<ready, mask, waitq, stat, timer>>

SemRelease(t, s) ==
  /\ InUser(t) /\ exists[s]
  /\ SemGive(s)
  /\ Goto(t, IF waitq[s] # <<>> THEN "sched" ELSE "run")
  /\ UNCHANGED <<defunct, prio, err, slice, call, arg, current, nest, due, lag, exists>>

IsrSemRelease(s) ==
  /\ IrqEnabled /\ s \in IsrSem /\ exists[s]
  /\ Guarded => \A t \in Thread : pc[t] \in {"flush", "flushlock"} => call[t] # s
  /\ SemGive(s)
  /\ UNCHANGED <<defunct, prio, err, slice, callVars, nest, due, exists>>
  /\ IF waitq[s] # <<>> THEN DoSchedule ELSE UNCHANGED <<current, lag>>

(* rt_sem_control(RT_IPC_CMD_RESET): all of it with interrupts disabled. *)
SemReset(t, s) ==
  /\ InUser(t) /\ exists[s]
  /\ Goto(t, "reset")
  /\ call' = [call EXCEPT ![t] = s]
  /\ UNCHANGED <<queueVars, threadVars, arg, current, nest, due, lag, semVars>>

SemResetWake(t) ==
  LET s == call[t] IN
  /\ At(t, "reset") /\ waitq[s] # <<>>
  /\ WakeWithError(s)
  /\ UNCHANGED <<defunct, prio, slice, callVars, current, nest, due, lag, semVars>>

SemResetEnd(t) ==
  LET s == call[t] IN
  /\ At(t, "reset") /\ waitq[s] = <<>>
  /\ \E v \in ResetTo : value' = [value EXCEPT ![s] = v]
  /\ Goto(t, "sched")
  /\ call' = [call EXCEPT ![t] = "none"]
  /\ UNCHANGED <<queueVars, threadVars, arg, current, nest, due, lag, exists>>

(* rt_sem_detach, rt_sem_delete; Guarded: no interrupt handler releases    *)
(* the semaphore meanwhile.                                                *)
SemDetach(t, s) == Detach(t, s) /\ UNCHANGED value

(* rt_sem_init, rt_sem_create *)
SemInit(t, s) ==
  /\ ObjectInit(t, s)
  /\ value' = [value EXCEPT ![s] = InitValue[s]]

InSemCall(t) ==
  \/ SemReturn(t) \/ SemResetWake(t) \/ SemResetEnd(t)
  \/ UNCHANGED value /\ (FlushCheck(t) \/ FlushWake(t) \/ FlushEnd(t))

SemCall(t) ==
  \E s \in Sem :
    \/ SemTake(t, s) \/ (\E n \in 0 .. MaxTime : SemWait(t, s, n))
    \/ SemRelease(t, s) \/ SemReset(t, s) \/ SemDetach(t, s) \/ SemInit(t, s)

Init ==
  /\ KernelInit
  /\ value = InitValue
  /\ exists = [s \in Sem |-> TRUE]

Next ==
  \/ KernelNext /\ UNCHANGED semVars
  \/ \E t \in Thread : InSemCall(t)
  \/ \E t \in Thread \ {Idle} : SemCall(t)
  \/ \E s \in Sem : IsrSemRelease(s)

Fairness ==
  /\ SF_vars(Interrupt /\ UNCHANGED semVars)
  /\ \A t \in Thread \ {Idle} :
       /\ SF_vars((InCall(t) /\ UNCHANGED semVars) \/ InSemCall(t))
       /\ SF_vars(ExitCritical(t) /\ UNCHANGED semVars)

Spec == Init /\ [][Next]_vars /\ Fairness

(* An interrupt handler that keeps releasing its semaphore. *)
LiveSpec == Spec /\ \A s \in IsrSem : SF_vars(IsrSemRelease(s))

(***************************************************************************)
(* Properties.                                                             *)
(***************************************************************************)

(* Waiting, releasing and flushing leave the kernel consistent.            *)
SemSound ==
  /\ KernelSound
  /\ value \in [Sem -> 0 .. MaxValue] /\ exists \in [Sem -> BOOLEAN]

(* No lost wake-up: a thread waits only while the semaphore has no token.  *)
NobodyWaitsForAToken == \A s \in Sem : value[s] > 0 => waitq[s] = <<>>

(* Each semaphore keeps the promise of CountingSemaphore: the threads that *)
(* hold a token their rt_sem_take has still to return with are those that  *)
(* left the wait list without an error.                                    *)
Granted(s) ==
  {t \in Thread : /\ call[t] = s /\ stat[t] \in {"READY", "SUSPEND"} /\ ~Deleting(t)
                 /\ \/ pc[t] = "got"
                    \/ /\ pc[t] \in {"sched", "blocked"} /\ err[t] = "EOK"
                       /\ t \notin Range(waitq[s])}

Open(s) ==
  exists[s] /\ \A t \in Thread : pc[t] \in {"reset", "flush", "flushlock"} => call[t] # s

Counting(s) == INSTANCE CountingSemaphore WITH
  Client <- Thread, InitTokens <- InitValue[s], ResetTokens <- ResetTo \cup {InitValue[s]},
  avail <- value[s], waiting <- Range(waitq[s]), granted <- Granted(s), open <- Open(s)

(* In a FIFO semaphore that is released again and again nobody starves.    *)
FifoServesAll ==
  \A s \in Sem, t \in Thread : t \in Range(waitq[s]) ~> t \notin Range(waitq[s])
=============================================================================
