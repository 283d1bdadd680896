------------------------------ MODULE IpcCall ------------------------------
(***************************************************************************)
(* The calls of src/ipc.c that loop: a woken thread tests the queue again  *)
(* and waits again, for what is left of its timeout, when another thread   *)
(* was quicker.                                                            *)
(***************************************************************************)
EXTENDS Ipc

CONSTANTS
  Message,   \* what is sent
  Nothing,   \* no message
  Sends,     \* the messages each thread sends
  IsrSends,  \* the messages interrupt handlers send
  Timeouts,  \* the timeouts calls that wait are made with
  Restarting \* the wait lists on which a woken thread that has to wait again
             \* waits for its whole timeout again

Forever == -1   \* RT_WAITING_FOREVER

ASSUME CallAssumption ==
  /\ IsFiniteSet(Thread) /\ Nothing \notin Message
  /\ Sends \in [Thread -> SUBSET Message] /\ IsrSends \subseteq Message
  /\ Restarting \subseteq Obj
  /\ Timeouts \subseteq {Forever} \cup 1 .. MaxTime

VARIABLES
  left,  \* timeout, less the ticks that have passed since the call
  val,   \* the message the thread's call sends or has received
  job    \* what the thread has still to do between two locked sections

ipcCallVars == <<left, val, job>>

(* The time a call has left when it looks at its timeout again.            *)
CountDown(n) == IF n > 0 THEN n - 1 ELSE n

TickCalls ==
  /\ Tick
  /\ left' = [t \in Thread |->
                IF call[t] \in Restarting THEN left[t] ELSE CountDown(left[t])]
  /\ UNCHANGED <<exists, val, job>>

(* The call of t suspends on o for n more ticks. *)
WaitFor(t, o, flag, n) ==
  /\ Block(t, o, flag, IF n = Forever THEN 0 ELSE n)
  /\ left' = [left EXCEPT ![t] = n]

(* A woken thread is back at the loop's test.                              *)
Retrying(t, o) == At(t, "blocked") /\ call[t] = o /\ err[t] = "EOK"

(* The call is over but for a call of rt_schedule. *)
EndCall(t, schedules) ==
  /\ Goto(t, IF schedules THEN "sched" ELSE "run")
  /\ call' = [call EXCEPT ![t] = "none"]
  /\ left' = [left EXCEPT ![t] = 0]
  /\ val' = [val EXCEPT ![t] = Nothing]
  /\ job' = [job EXCEPT ![t] = "none"]

(* The thread waited on o and was woken by its timer, a reset or a detach. *)
CallFails(t, o) ==
  /\ At(t, "blocked") /\ call[t] = o /\ err[t] # "EOK"
  /\ EndCall(t, FALSE)
  /\ UNCHANGED <<queueVars, threadVars, arg, current, nest, due, lag, exists>>

(* The first waiter of o, if there is one, is woken. *)
WakeOne(o) ==
  \/ waitq[o] # <<>> /\ Wake(Head(waitq[o]))
  \/ waitq[o] = <<>> /\ UNCHANGED <<ready, mask, waitq, stat, timer>>

(* Threads that were woken to look at the queue again and have not yet.    *)
OnTheWay(o) ==
  {t \in Thread : /\ call[t] = o /\ pc[t] \in {"sched", "blocked"} /\ err[t] = "EOK"
                 /\ t \notin Range(waitq[o])}

(* Nobody is between the locked sections of a call on o, and no thread     *)
(* waits there with a timer: what detaching asks of the threads.           *)
Quiet(o) ==
  /\ \A t \in Range(waitq[o]) : timer[t] = 0
  /\ \A t \in Thread : call[t] = o => t \in Range(waitq[o])

(* Steps that are the same for every object.                               *)
IpcCallStep ==
  \/ CallerStep /\ UNCHANGED <<exists, ipcCallVars>>
  \/ TickCalls
  \/ (\E t \in Thread : FlushCheck(t) \/ FlushWake(t)) /\ UNCHANGED ipcCallVars

IpcCallInit ==
  /\ KernelInit
  /\ exists = [o \in Obj |-> FALSE]
  /\ left = [t \in Thread |-> 0]
  /\ val = [t \in Thread |-> Nothing]
  /\ job = [t \in Thread |-> "none"]

IpcCallTypeOK ==
  /\ exists \in [Obj -> BOOLEAN]
  /\ left \in [Thread -> Forever .. MaxTime]
=============================================================================
