----------------------------- MODULE DataQueue -----------------------------
(***************************************************************************)
(* Data queues of components/drivers/src/dataqueue.c on the kernel: a ring *)
(* of pointers; a thread that finds it full waits until the queue is down  *)
(* to its low water mark, a thread that finds it empty until a push.       *)
(* Interrupt handlers pop without waiting.                                 *)
(***************************************************************************)
EXTENDS IpcCall

CONSTANTS
  Dq,           \* the data queues; as an Obj, suspended_pop_list
  PushList,     \* the Obj that is a data queue's suspended_push_list
  DqSize, Lwm,  \* queue->size, a power of 2, and queue->lwm
  Pusher,       \* the threads that push
  PushTimeouts, \* the timeouts pushes are made with
  MaxPuts       \* bound: the pushes after an rt_data_queue_init; below 65536,
                \* where put_index wraps to 0 and the queue looks empty or full

ASSUME DataQueueAssumption ==
  /\ Dq \subseteq Obj /\ PushList \in [Dq -> Obj \ Dq] /\ Pusher \subseteq Thread
  /\ DqSize \in Nat \ {0} /\ Lwm \in 0 .. DqSize - 1
  /\ PushTimeouts \subseteq {Forever} \cup 0 .. MaxTime
  /\ MaxPuts \in Nat /\ MaxPuts < 65536

VARIABLES put_index, get_index, items, waiting_lwm

dqVars == <<put_index, get_index, items, waiting_lwm>>

Length(q) == put_index[q] - get_index[q]

Pushing(t, q) == t \in Pusher /\ (InUser(t) \/ Retrying(t, PushList[q]))

(***************************************************************************)
(* rt_data_queue_push.                                                     *)
(***************************************************************************)
DqPushShifted(t, q, m) ==   \* mutant: put_index is incremented first
  /\ exists[q] /\ Length(q) # DqSize /\ put_index[q] < MaxPuts
  /\ Pushing(t, q) /\ (call[t] = PushList[q] => m = val[t])
  /\ items' = [items EXCEPT ![q][(put_index[q] + 1) % DqSize] = m]
  /\ put_index' = [put_index EXCEPT ![q] = @ + 1]
  /\ WakeOne(q)
  /\ EndCall(t, waitq[q] # <<>>)
  /\ UNCHANGED <<defunct, prio, err, slice, arg, current, nest, due, lag, exists,
                 get_index, waiting_lwm>>

DqPush(t, q, m) ==
  /\ exists[q] /\ Length(q) # DqSize /\ put_index[q] < MaxPuts
  /\ Pushing(t, q) /\ (call[t] = PushList[q] => m = val[t])
  /\ items' = [items EXCEPT ![q][put_index[q] % DqSize] = m]
  /\ put_index' = [put_index EXCEPT ![q] = @ + 1]
  /\ WakeOne(q)
  /\ EndCall(t, waitq[q] # <<>>)
  /\ UNCHANGED <<defunct, prio, err, slice, arg, current, nest, due, lag, exists,
                 get_index, waiting_lwm>>

DqPushWaitUnmarked(t, q, m, n) ==   \* mutant: waiting_lwm is not set
  /\ exists[q] /\ Length(q) = DqSize /\ n # 0 /\ t \in Pusher
  /\ MayBlock(t) \/ (Retrying(t, PushList[q]) /\ m = val[t] /\ n = left[t])
  /\ WaitFor(t, PushList[q], "FIFO", n)
  /\ val' = [val EXCEPT ![t] = m]
  /\ UNCHANGED <<job, exists, dqVars>>

DqPushWait(t, q, m, n) ==
  /\ exists[q] /\ Length(q) = DqSize /\ n # 0 /\ t \in Pusher
  /\ MayBlock(t) \/ (Retrying(t, PushList[q]) /\ m = val[t] /\ n = left[t])
  /\ waiting_lwm' = [waiting_lwm EXCEPT ![q] = TRUE]
  /\ WaitFor(t, PushList[q], "FIFO", n)
  /\ val' = [val EXCEPT ![t] = m]
  /\ UNCHANGED <<job, exists, put_index, get_index, items>>

(* A push with time 0 that finds the queue full.                           *)
DqPushFull(t, q) ==
  /\ exists[q] /\ Length(q) = DqSize /\ 0 \in PushTimeouts
  /\ InUser(t) /\ t \in Pusher
  /\ waiting_lwm' = [waiting_lwm EXCEPT ![q] = TRUE]
  /\ UNCHANGED <<kernelVars, ipcCallVars, exists, put_index, get_index, items>>

(***************************************************************************)
(* rt_data_queue_pop: at the low water mark one thread that waits to push  *)
(* is woken.  If none waits the code returns with interrupts disabled; the *)
(* model goes on, and LwmMeansWaiter fails in the state before.            *)
(***************************************************************************)
AtMark(q) == waiting_lwm[q] /\ Length(q) - 1 <= Lwm

TakeItem(q) ==
  /\ items' = [items EXCEPT ![q][get_index[q] % DqSize] = Nothing]   \* not read again
  /\ get_index' = [get_index EXCEPT ![q] = @ + 1]
  /\ waiting_lwm' = [waiting_lwm EXCEPT ![q] = @ /\ ~AtMark(q)]
  /\ IF AtMark(q) THEN WakeOne(PushList[q])
                  ELSE UNCHANGED <<ready, mask, waitq, stat, timer>>
  /\ UNCHANGED put_index

WakesPusher(q) == AtMark(q) /\ waitq[PushList[q]] # <<>>

DqPop(t, q) ==
  /\ exists[q] /\ Length(q) # 0
  /\ InUser(t) \/ Retrying(t, q)
  /\ val' = [val EXCEPT ![t] = items[q][get_index[q] % DqSize]]
  /\ TakeItem(q)
  /\ Goto(t, "got")
  /\ call' = [call EXCEPT ![t] = q]
  /\ job' = [job EXCEPT ![t] = IF WakesPusher(q) THEN "sched" ELSE "none"]
  /\ left' = [left EXCEPT ![t] = 0]
  /\ lag' = (lag \/ WakesPusher(q))
  /\ UNCHANGED <<defunct, prio, err, slice, arg, current, nest, due, exists>>

DqPopWait(t, q, n) ==
  /\ exists[q] /\ Length(q) = 0 /\ n # 0
  /\ MayBlock(t) \/ (Retrying(t, q) /\ n = left[t])
  /\ WaitFor(t, q, "FIFO", n)
  /\ UNCHANGED <<val, job, exists, dqVars>>

DqPopReturn(t) ==
  /\ At(t, "got") /\ call[t] \in Dq
  /\ EndCall(t, job[t] = "sched")
  /\ UNCHANGED <<queueVars, threadVars, arg, current, nest, due, lag, exists, dqVars>>

IsrDqPopSilent(q) ==   \* mutant: no rt_schedule when a pusher was woken
  /\ IrqEnabled /\ exists[q] /\ Length(q) # 0
  /\ TakeItem(q)
  /\ UNCHANGED <<defunct, prio, err, slice, callVars, current, nest, due, lag, exists, ipcCallVars>>

IsrDqPop(q) ==
  /\ IrqEnabled /\ exists[q] /\ Length(q) # 0
  /\ Guarded => \A t \in Thread : pc[t] \in {"flush", "flushlock"} => call[t] # q
  /\ TakeItem(q)
  /\ UNCHANGED <<defunct, prio, err, slice, callVars, nest, due, exists, ipcCallVars>>
  /\ IsrSchedule(WakesPusher(q))

(***************************************************************************)
(* rt_data_queue_reset: the waiting threads are woken with -RT_ERROR, with *)
(* the scheduler locked; the items stay.  Guarded: none waits to push.     *)
(***************************************************************************)
DqReset(t, q) ==
  /\ InUser(t) /\ exists[q] /\ nest < MaxNest
  /\ Guarded => waitq[PushList[q]] = <<>> /\ \A u \in Range(waitq[q]) : timer[u] = 0
  /\ nest' = nest + 1
  /\ Goto(t, "flush")
  /\ call' = [call EXCEPT ![t] = q]
  /\ UNCHANGED <<queueVars, threadVars, arg, current, due, lag, exists, ipcCallVars, dqVars>>

DqFlushPushers(t, q) ==
  /\ At(t, "flush") /\ call[t] = q /\ waitq[q] = <<>>
  /\ call' = [call EXCEPT ![t] = PushList[q]]
  /\ UNCHANGED <<queueVars, threadVars, pc, arg, current, nest, due, lag, exists,
                 ipcCallVars, dqVars>>

DqResetEnd(t, q) ==
  /\ At(t, "flush") /\ call[t] = PushList[q] /\ waitq[PushList[q]] = <<>>
  /\ nest' = nest - 1
  /\ Goto(t, "sched")
  /\ call' = [call EXCEPT ![t] = "none"]
  /\ UNCHANGED <<queueVars, threadVars, arg, current, due, lag, exists, ipcCallVars, dqVars>>

(* rt_data_queue_init *)
DqInit(t, q) ==
  /\ q \in Dq /\ ObjectInit(t, q)
  /\ put_index' = [put_index EXCEPT ![q] = 0]
  /\ get_index' = [get_index EXCEPT ![q] = 0]
  /\ items' = [items EXCEPT ![q] = [i \in 0 .. DqSize - 1 |-> Nothing]]
  /\ waiting_lwm' = [waiting_lwm EXCEPT ![q] = FALSE]
  /\ UNCHANGED ipcCallVars

DqCall(t) ==
  \E q \in Dq :
    \/ \E m \in Sends[t] : \/ DqPush(t, q, m)
                           \/ \E n \in PushTimeouts \cup {left[t]} : DqPushWait(t, q, m, n)
    \/ DqPushFull(t, q)
    \/ DqPop(t, q) \/ (\E n \in Timeouts \cup {left[t]} : DqPopWait(t, q, n))
    \/ DqReset(t, q)

DataQueueInit ==
  /\ put_index = [q \in Dq |-> 0] /\ get_index = [q \in Dq |-> 0]
  /\ items = [q \in Dq |-> [i \in 0 .. DqSize - 1 |-> Nothing]]
  /\ waiting_lwm = [q \in Dq |-> FALSE]

DataQueueNext ==
  \/ \E t \in Thread \ {Idle} : DqCall(t)
  \/ \E t \in Thread : DqPopReturn(t) \/ \E q \in Dq : DqFlushPushers(t, q) \/ DqResetEnd(t, q)
  \/ \E t \in Thread, q \in Dq : /\ CallFails(t, q) \/ CallFails(t, PushList[q])
                                 /\ UNCHANGED dqVars
  \/ \E q \in Dq : DqInit(Main, q) \/ IsrDqPop(q)

(***************************************************************************)
(* Properties.                                                             *)
(***************************************************************************)

DqTypeOK ==
  \A q \in Dq : /\ put_index[q] \in 0 .. MaxPuts /\ get_index[q] \in 0 .. MaxPuts
                /\ \A i \in 0 .. DqSize - 1 : items[q][i] \in Message \cup {Nothing}
                /\ waiting_lwm[q] \in BOOLEAN

(* "there is at least one thread in suspended list and less than low water *)
(* mark": what rt_data_queue_pop takes for granted when it has cleared     *)
(* waiting_lwm.  Without such a thread it returns with the interrupts      *)
(* disabled.                                                               *)
LwmMeansWaiter ==
  \A q \in Dq : waiting_lwm[q] /\ Length(q) <= Lwm + 1 => waitq[PushList[q]] # <<>>

(* No lost wake-up: a thread goes on waiting to push only while the pop    *)
(* that reaches the mark is still to come, a thread that waits to pop only *)
(* while each item has a woken thread on its way to take it.               *)
DqNobodyForgotten ==
  \A q \in Dq :
    /\ waitq[PushList[q]] # <<>> => waiting_lwm[q] /\ Length(q) > Lwm
    /\ waitq[q] # <<>> => Length(q) <= Cardinality(OnTheWay(q))

(* Each data queue keeps the promise of BoundedFifo.                       *)
DqSends(q) == [t \in Thread \ {Idle} |->
  IF call[t] = PushList[q] /\ (t \in Range(waitq[PushList[q]]) \/ t \in OnTheWay(PushList[q]))
    THEN val[t] ELSE Nothing]

DqGot(q) == [t \in Thread \ {Idle} |->
  IF call[t] = q /\ pc[t] = "got" THEN val[t] ELSE Nothing]

DqFifo(q) == INSTANCE BoundedFifo WITH
  Client <- Thread \ {Idle}, IsrGets <- TRUE, Capacity <- DqSize,
  buf <- [i \in 1 .. Length(q) |-> items[q][(get_index[q] + i - 1) % DqSize]],
  sends <- DqSends(q), urgent <- {}, got <- DqGot(q), open <- exists[q]
=============================================================================
