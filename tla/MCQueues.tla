------------------------------ MODULE MCQueues ------------------------------
(* Three application threads of two priorities, interrupts, and a mailbox  *)
(* and a message queue of two places, one of which each behaviour uses.    *)
EXTENDS Objects

CONSTANTS t1, t2, t3, idle, mb1, tx1, mq1, x, y

MCThread == {t1, t2, t3, idle}
MCInitPrio == (t1 :> 0) @@ (t2 :> 1) @@ (t3 :> 1) @@ (idle :> 2)
MCMbFlag == mb1 :> "PRIO"
MCTx == mb1 :> tx1
MCMqFlag == mq1 :> "PRIO"
MCTimeouts == {Forever, 1}
MCNone == <<>>   \* what the objects are like that there are none of

MCSends == (t1 :> {x}) @@ (t2 :> {y}) @@ (t3 :> {y}) @@ (idle :> {})

(* t2 and t3 differ in nothing. *)
MCSymmetry == Permutations({t2, t3})

VARIABLE used   \* bound: the one object that is initialised in this behaviour

vars == <<used, objectsVars>>

Init == used \in {mb1, mq1} /\ ObjectsInit

Next == ObjectsNext /\ (\A o \in Obj \ {used} : ~exists'[o]) /\ UNCHANGED used

Spec == Init /\ [][Next]_vars

MbStep == UNCHANGED MbFifo(mb1)!vars \/ MbFifo(mb1)!Next   \* the usual case first
MqStep == UNCHANGED MqFifo(mq1)!vars \/ MqFifo(mq1)!Next

(* rt_mb_send_wait, rt_mb_recv, timeouts, retries, resets and detached     *)
(* mailboxes together implement the abstract bounded queue.                *)
MailboxPromise == MbFifo(mb1)!Init /\ [][MbStep]_(MbFifo(mb1)!vars)

(* So do rt_mq_send, rt_mq_urgent and rt_mq_recv: what a receiver copies   *)
(* from its message is what the sender put there.                          *)
MessageQueuePromise == MqFifo(mq1)!Init /\ [][MqStep]_(MqFifo(mq1)!vars)
=============================================================================
