------------------------------ MODULE Objects ------------------------------
(***************************************************************************)
(* Events, mailboxes, message queues, data queues and completions beside   *)
(* each other on one kernel: threads and interrupt handlers call whichever *)
(* they like.                                                              *)
(***************************************************************************)
EXTENDS Event, Mailbox, MessageQueue, DataQueue, Completion

(* Each object, and each of the two lists of a mailbox or a data queue, is *)
(* one Obj.                                                                *)
ASSUME ObjectsAssumption ==
  /\ Ev \cap Cp = {} /\ Ev \cap Dq = {} /\ Cp \cap Dq = {}
  /\ Mb \cap (Ev \cup Mq \cup Dq \cup Cp) = {} /\ Mq \cap (Ev \cup Dq \cup Cp) = {}
  /\ \A q \in Dq : /\ PushList[q] \notin Ev \cup Mb \cup Mq \cup Cp
                   /\ \A r \in Dq : PushList[q] = PushList[r] => q = r
  /\ \A mb \in Mb : /\ Tx[mb] \notin Ev \cup Mq \cup Dq \cup Cp
                    /\ \A q \in Dq : Tx[mb] # PushList[q]
                    /\ \A b \in Mb : Tx[mb] = Tx[b] => mb = b

objectsVars == <<kernelVars, exists, ipcCallVars, eventVars, mbVars, mqVars, dqVars, flag>>

ObjectsInit ==
  /\ IpcCallInit
  /\ EventsInit /\ MailboxInit /\ MessageQueueInit /\ DataQueueInit /\ CompletionInit

ObjectsNext ==
  \/ IpcCallStep /\ UNCHANGED <<eventVars, mbVars, mqVars, dqVars, flag>>
  \/ EventsNext /\ UNCHANGED <<ipcCallVars, mbVars, mqVars, dqVars, flag>>
  \/ MailboxNext /\ UNCHANGED <<eventVars, mqVars, dqVars, flag>>
  \/ MessageQueueNext /\ UNCHANGED <<eventVars, mbVars, dqVars, flag>>
  \/ DataQueueNext /\ UNCHANGED <<eventVars, mbVars, mqVars, flag>>
  \/ CompletionNext /\ UNCHANGED <<ipcCallVars, eventVars, mbVars, mqVars, dqVars>>

ObjectsSpec == ObjectsInit /\ [][ObjectsNext]_objectsVars

(* The kernel stays consistent whatever the objects do to its lists.       *)
ObjectsSound ==
  /\ KernelSound /\ IpcCallTypeOK /\ EventTypeOK /\ DqTypeOK
  /\ flag \in [Cp -> BOOLEAN]

(* After any sequence of calls, timeouts and resets the messages of the    *)
(* pool are accounted for, and every offset and link is inside its pool.   *)
QueuesSound == KernelSound /\ IpcCallTypeOK /\ MbTypeOK /\ SlotsAccounted

(* No sender and no receiver of a mailbox or a message queue misses its    *)
(* wake-up.                                                                *)
NobodyForgotten == MbNobodyForgotten /\ MqNobodyForgotten
=============================================================================
