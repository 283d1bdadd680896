----------------------------- MODULE Completion -----------------------------
(***************************************************************************)
(* Completions of components/drivers/src/completion.c on the kernel: one   *)
(* thread waits until another, or an interrupt handler, is done.           *)
(***************************************************************************)
EXTENDS Ipc

CONSTANTS
  Cp,     \* the completions
  Waiter  \* the thread that waits: "only one thread can suspend on complete"

ASSUME CompletionAssumption == Cp \subseteq Obj /\ Waiter \in [Cp -> Thread]

VARIABLE flag   \* completion->flag, TRUE for RT_COMPLETED

(***************************************************************************)
(* rt_completion_wait: a call that finds the flag set returns at once and  *)
(* leaves it set.                                                          *)
(***************************************************************************)
CpWaitUnchecked(t, c, n) ==   \* mutant: the flag is not looked at
  /\ MayBlock(t) /\ t = Waiter[c] /\ exists[c]
  /\ Block(t, c, "FIFO", n)
  /\ UNCHANGED <<flag, exists>>

CpWait(t, c, n) ==
  /\ MayBlock(t) /\ t = Waiter[c] /\ exists[c] /\ ~flag[c]
  /\ Block(t, c, "FIFO", n)
  /\ UNCHANGED <<flag, exists>>

(* A woken thread, whether it was done or timed out, clears the flag.      *)
CpReturn(t) ==
  /\ At(t, "blocked") /\ call[t] \in Cp
  /\ flag' = [flag EXCEPT ![call[t]] = FALSE]
  /\ Goto(t, "run")
  /\ call' = [call EXCEPT ![t] = "none"]
  /\ UNCHANGED <<queueVars, threadVars, arg, current, nest, due, lag, exists>>

(***************************************************************************)
(* rt_completion_done: nothing to do when the flag is set already; it is   *)
(* read before the interrupts are disabled.                                *)
(***************************************************************************)
CpDoneTest(t, c) ==
  /\ InUser(t) /\ exists[c] /\ ~flag[c]
  /\ Goto(t, "got")
  /\ call' = [call EXCEPT ![t] = c]
  /\ UNCHANGED <<queueVars, threadVars, arg, current, nest, due, lag, exists, flag>>

Complete(c) ==
  /\ flag' = [flag EXCEPT ![c] = TRUE]
  /\ \/ waitq[c] # <<>> /\ Wake(Head(waitq[c]))
     \/ waitq[c] = <<>> /\ UNCHANGED <<ready, mask, waitq, stat, timer>>

CpDone(t) ==
  LET c == call[t] IN
  /\ At(t, "got") /\ c \in Cp
  /\ Complete(c)
  /\ Goto(t, IF waitq[c] # <<>> THEN "sched" ELSE "run")
  /\ call' = [call EXCEPT ![t] = "none"]
  /\ UNCHANGED <<defunct, prio, err, slice, arg, current, nest, due, lag, exists>>

IsrCpDone(c) ==
  /\ IrqEnabled /\ exists[c] /\ ~flag[c]
  /\ Complete(c)
  /\ UNCHANGED <<defunct, prio, err, slice, callVars, nest, due, exists>>
  /\ IsrSchedule(waitq[c] # <<>>)

(* rt_completion_init *)
CpInit(t, c) ==
  /\ c \in Cp /\ ObjectInit(t, c)
  /\ flag' = [flag EXCEPT ![c] = FALSE]

CompletionInit == flag = [c \in Cp |-> FALSE]

CompletionNext ==
  \/ \E t \in Thread \ {Idle} : \/ CpReturn(t) \/ CpDone(t)
                                \/ \E c \in Cp : \/ CpDoneTest(t, c)
                                                 \/ \E n \in 0 .. MaxTime : CpWait(t, c, n)
  \/ \E c \in Cp : CpInit(Main, c) \/ IsrCpDone(c)

(* No lost wake-up: the thread does not wait for what is done.             *)
NobodyWaitsCompleted == \A c \in Cp : flag[c] => waitq[c] = <<>>
=============================================================================
