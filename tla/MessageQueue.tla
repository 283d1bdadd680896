---------------------------- MODULE MessageQueue ----------------------------
(***************************************************************************)
(* Message queues of src/ipc.c on the kernel: a pool of messages linked    *)
(* into a queue and a free list.  A message that is being written or read  *)
(* is on neither: its thread copies the data with interrupts enabled.      *)
(***************************************************************************)
EXTENDS IpcCall

CONSTANTS
  Mq,       \* the message queues
  MqFlag,   \* "FIFO" or "PRIO" for each queue
  Slot,     \* the messages of a queue's pool, 1 .. mq->max_msgs
  NoSlot    \* RT_NULL

ASSUME MessageQueueAssumption ==
  /\ Mq \subseteq Obj /\ MqFlag \in [Mq -> {"FIFO", "PRIO"}]
  /\ IsFiniteSet(Slot) /\ Slot # {} /\ Slot = 1 .. Cardinality(Slot) /\ NoSlot \notin Slot

VARIABLES
  head,     \* mq->msg_queue_head
  tail,     \* mq->msg_queue_tail
  free,     \* mq->msg_queue_free
  count,    \* mq->entry
  next,     \* msg->next
  content,  \* what follows the header of a message
  slot      \* the message a thread's call holds

mqVars == <<head, tail, free, count, next, content, slot>>

(* The messages linked from s on. *)
Chain(s, q) ==
  LET after(c) == IF c = <<>> THEN s ELSE next[q][Last(c)]
      links[n \in 0 .. Cardinality(Slot)] ==
        IF n = 0 THEN <<>>
        ELSE IF after(links[n - 1]) = NoSlot THEN links[n - 1]
        ELSE Append(links[n - 1], after(links[n - 1]))
  IN links[Cardinality(Slot)]

(***************************************************************************)
(* rt_mq_send and rt_mq_urgent: take a free message; without one they      *)
(* return -RT_EFULL.                                                       *)
(***************************************************************************)
MqAlloc(t, q, m, how) ==
  /\ InUser(t) /\ exists[q] /\ free[q] # NoSlot
  /\ slot' = [slot EXCEPT ![t] = free[q]]
  /\ free' = [free EXCEPT ![q] = next[q][@]]
  /\ Goto(t, "got")
  /\ call' = [call EXCEPT ![t] = q]
  /\ val' = [val EXCEPT ![t] = m]
  /\ job' = [job EXCEPT ![t] = how]
  /\ UNCHANGED <<queueVars, threadVars, arg, current, nest, due, lag, exists,
                 left, head, tail, count, next, content>>

(* Copy the data, then link the message s at the end or, an urgent one, at *)
(* the head of the queue.                                                  *)
LinkFront(q, s, m, how) ==   \* mutant: every message is linked as an urgent one
  /\ content' = [content EXCEPT ![q][s] = m]
  /\ next' = [next EXCEPT ![q][s] = head[q]]
  /\ head' = [head EXCEPT ![q] = s]
  /\ tail' = [tail EXCEPT ![q] = IF @ = NoSlot THEN s ELSE @]
  /\ count' = [count EXCEPT ![q] = @ + 1]

Link(q, s, m, how) ==
  /\ content' = [content EXCEPT ![q][s] = m]
  /\ IF how = "urgent"
       THEN /\ next' = [next EXCEPT ![q][s] = head[q]]
            /\ head' = [head EXCEPT ![q] = s]
            /\ tail' = [tail EXCEPT ![q] = IF @ = NoSlot THEN s ELSE @]
       ELSE /\ next' = [next EXCEPT ![q] = [i \in Slot |->
                          IF i = s THEN NoSlot ELSE IF i = tail[q] THEN s ELSE @[i]]]
            /\ tail' = [tail EXCEPT ![q] = s]
            /\ head' = [head EXCEPT ![q] = IF @ = NoSlot THEN s ELSE @]
  /\ count' = [count EXCEPT ![q] = @ + 1]

MqLink(t, q) ==
  /\ At(t, "got") /\ call[t] = q /\ job[t] \in {"send", "urgent"}
  /\ Link(q, slot[t], val[t], job[t])
  /\ slot' = [slot EXCEPT ![t] = NoSlot]
  /\ WakeOne(q)
  /\ EndCall(t, waitq[q] # <<>>)
  /\ UNCHANGED <<defunct, prio, err, slice, arg, current, nest, due, lag, exists, free>>

(* An interrupt handler's rt_mq_send runs from its start to its end.       *)
IsrMqSend(q, m) ==
  /\ IrqEnabled /\ exists[q] /\ free[q] # NoSlot
  /\ Guarded => \A t \in Thread : pc[t] \in {"flush", "flushlock"} => call[t] # q
  /\ Link(q, free[q], m, "send")
  /\ free' = [free EXCEPT ![q] = next[q][@]]
  /\ WakeOne(q)
  /\ UNCHANGED <<defunct, prio, err, slice, callVars, nest, due, exists, ipcCallVars, slot>>
  /\ IsrSchedule(waitq[q] # <<>>)

(***************************************************************************)
(* rt_mq_recv: unlink the first message, copy it, put it on the free list. *)
(***************************************************************************)
MqUnlinkTailKept(t, q) ==   \* mutant: the tail still points to the message
  /\ exists[q] /\ count[q] > 0
  /\ InUser(t) \/ Retrying(t, q)
  /\ slot' = [slot EXCEPT ![t] = head[q]]
  /\ head' = [head EXCEPT ![q] = next[q][@]]
  /\ count' = [count EXCEPT ![q] = @ - 1]
  /\ Goto(t, "got")
  /\ call' = [call EXCEPT ![t] = q]
  /\ job' = [job EXCEPT ![t] = "free"]
  /\ left' = [left EXCEPT ![t] = 0]
  /\ UNCHANGED <<queueVars, threadVars, arg, current, nest, due, lag, exists,
                 val, tail, free, next, content>>

MqUnlink(t, q) ==
  /\ exists[q] /\ count[q] > 0
  /\ InUser(t) \/ Retrying(t, q)
  /\ slot' = [slot EXCEPT ![t] = head[q]]
  /\ head' = [head EXCEPT ![q] = next[q][@]]
  /\ tail' = [tail EXCEPT ![q] = IF @ = head[q] THEN NoSlot ELSE @]
  /\ count' = [count EXCEPT ![q] = @ - 1]
  /\ Goto(t, "got")
  /\ call' = [call EXCEPT ![t] = q]
  /\ job' = [job EXCEPT ![t] = "free"]
  /\ left' = [left EXCEPT ![t] = 0]
  /\ UNCHANGED <<queueVars, threadVars, arg, current, nest, due, lag, exists,
                 val, free, next, content>>

MqFree(t, q) ==
  /\ At(t, "got") /\ call[t] = q /\ job[t] = "free"
  /\ next' = [next EXCEPT ![q][slot[t]] = free[q]]
  /\ free' = [free EXCEPT ![q] = slot[t]]
  /\ content' = [content EXCEPT ![q][slot[t]] = Nothing]   \* not read again
  /\ slot' = [slot EXCEPT ![t] = NoSlot]
  /\ EndCall(t, FALSE)
  /\ UNCHANGED <<queueVars, threadVars, arg, current, nest, due, lag, exists, head, tail, count>>

MqRecvWait(t, q, n) ==
  /\ exists[q] /\ count[q] = 0 /\ n # 0
  /\ MayBlock(t) \/ (Retrying(t, q) /\ n = left[t])
  /\ WaitFor(t, q, MqFlag[q], n)
  /\ UNCHANGED <<val, job, exists, mqVars>>

MqTimeIsUp(t, q) ==
  /\ left[t] = 0 /\ Retrying(t, q) /\ count[q] = 0
  /\ EndCall(t, FALSE)
  /\ UNCHANGED <<queueVars, threadVars, arg, current, nest, due, lag, exists, mqVars>>

(***************************************************************************)
(* rt_mq_control(RT_IPC_CMD_RESET): the queue goes, message by message, to *)
(* the free list; the messages that calls hold are left alone.             *)
(***************************************************************************)
MqReset(t, q) ==
  LET dropped == Chain(head[q], q)
  IN
  /\ InUser(t) /\ exists[q]
  /\ WakeAllWithError(waitq[q])
  /\ head' = [head EXCEPT ![q] = NoSlot]
  /\ tail' = [tail EXCEPT ![q] = IF @ \in Range(dropped) THEN NoSlot ELSE @]
  /\ free' = [free EXCEPT ![q] = IF dropped = <<>> THEN @ ELSE Last(dropped)]
  /\ next' = [next EXCEPT ![q] = [s \in Slot |->
                IF s \notin Range(dropped) THEN @[s]
                ELSE IF s = dropped[1] THEN free[q]
                ELSE dropped[(CHOOSE i \in DOMAIN dropped : dropped[i] = s) - 1]]]
  /\ content' = [content EXCEPT ![q] = [s \in Slot |->
                   IF s \in Range(dropped) THEN Nothing ELSE @[s]]]
  /\ count' = [count EXCEPT ![q] = 0]
  /\ Goto(t, "sched")
  /\ UNCHANGED <<defunct, prio, slice, call, arg, current, nest, due, lag, exists,
                 ipcCallVars, slot>>

(* rt_mq_detach, rt_mq_delete *)
MqDetach(t, q) ==
  /\ q \in Mq /\ Detach(t, q)
  /\ Guarded => Quiet(q)
  /\ UNCHANGED <<ipcCallVars, mqVars>>

(* rt_mq_init, rt_mq_create: the last message of the pool is the first of  *)
(* the free list.                                                          *)
Fresh(q) ==
  /\ head' = [head EXCEPT ![q] = NoSlot] /\ tail' = [tail EXCEPT ![q] = NoSlot]
  /\ free' = [free EXCEPT ![q] = Cardinality(Slot)]
  /\ next' = [next EXCEPT ![q] = [s \in Slot |-> IF s = 1 THEN NoSlot ELSE s - 1]]
  /\ count' = [count EXCEPT ![q] = 0]
  /\ content' = [content EXCEPT ![q] = [s \in Slot |-> Nothing]]

MqFlushEnd(t, q) ==
  /\ call[t] = q /\ FlushEnd(t)
  /\ Fresh(q)   \* what is left in it is not looked at again
  /\ UNCHANGED <<ipcCallVars, slot>>

MqInit(t, q) ==
  /\ q \in Mq /\ ObjectInit(t, q)
  /\ Fresh(q)
  /\ UNCHANGED <<ipcCallVars, slot>>

MqCall(t) ==
  \E q \in Mq :
    \/ \E m \in Sends[t], how \in {"send", "urgent"} : MqAlloc(t, q, m, how)
    \/ MqUnlink(t, q) \/ (\E n \in Timeouts \cup {left[t]} : MqRecvWait(t, q, n))
    \/ MqReset(t, q)

MessageQueueInit ==
  /\ head = [q \in Mq |-> NoSlot] /\ tail = [q \in Mq |-> NoSlot]
  /\ free = [q \in Mq |-> Cardinality(Slot)] /\ count = [q \in Mq |-> 0]
  /\ next = [q \in Mq |-> [s \in Slot |-> IF s = 1 THEN NoSlot ELSE s - 1]]
  /\ content = [q \in Mq |-> [s \in Slot |-> Nothing]]
  /\ slot = [t \in Thread |-> NoSlot]

MessageQueueNext ==
  \/ \E t \in Thread \ {Idle} : MqCall(t)
  \/ \E t \in Thread, q \in Mq : MqLink(t, q) \/ MqFree(t, q) \/ MqTimeIsUp(t, q) \/ MqFlushEnd(t, q)
  \/ (\E t \in Thread, q \in Mq : CallFails(t, q)) /\ UNCHANGED mqVars
  \/ \E q \in Mq : MqInit(Main, q) \/ MqDetach(Main, q) \/ \E m \in IsrSends : IsrMqSend(q, m)

(***************************************************************************)
(* Properties.                                                             *)
(***************************************************************************)

(* Every message of the pool is in the queue, on the free list, or held by *)
(* one call, and nowhere twice; the tail is the last message of the queue  *)
(* and mq->entry its length.                                               *)
SlotsAccounted ==
  \A q \in Mq :
    LET queued == Chain(head[q], q)
        spare  == Chain(free[q], q)
        holders == {t \in Thread : call[t] = q /\ slot[t] # NoSlot}
    IN
    /\ IsInjective(queued) /\ IsInjective(spare)
    /\ Range(queued) \cap Range(spare) = {}
    /\ \A t \in holders : slot[t] \notin Range(queued) \cup Range(spare)
    /\ \A t, u \in holders : slot[t] = slot[u] => t = u
    /\ Len(queued) + Len(spare) + Cardinality(holders) = Cardinality(Slot)
    /\ count[q] = Len(queued)
    /\ tail[q] = IF queued = <<>> THEN NoSlot ELSE Last(queued)

(* No lost wake-up: a receiver goes on waiting only when each message of   *)
(* the queue has a woken thread on its way to take it.                     *)
MqNobodyForgotten ==
  \A q \in Mq : waitq[q] # <<>> => count[q] <= Cardinality(OnTheWay(q))

(* Each message queue keeps the promise of BoundedFifo.                    *)
MqOpen(q) == exists[q] /\ \A t \in Thread : pc[t] \in {"flush", "flushlock"} => call[t] # q

MqContent(q) == LET c == Chain(head[q], q) IN [i \in DOMAIN c |-> content[q][c[i]]]

MqHeld(q, jobs, m) == [t \in Thread \ {Idle} |->
  IF call[t] = q /\ job[t] \in jobs THEN m[t] ELSE Nothing]

MqFifo(q) == INSTANCE BoundedFifo WITH
  Client <- Thread \ {Idle}, IsrGets <- FALSE, Capacity <- Cardinality(Slot),
  buf <- IF MqOpen(q) THEN MqContent(q) ELSE <<>>,
  sends <- MqHeld(q, {"send", "urgent"}, val),
  urgent <- {t \in Thread \ {Idle} : call[t] = q /\ job[t] = "urgent"},
  got <- MqHeld(q, {"free"}, [t \in Thread |-> content[q][slot[t]]]),
  open <- MqOpen(q)
=============================================================================
