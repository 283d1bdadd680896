------------------------------ MODULE Mailbox ------------------------------
(***************************************************************************)
(* Mailboxes of src/ipc.c on the kernel: a ring of messages, threads that  *)
(* wait for a message and threads that wait for room, each on a list of    *)
(* their own, and interrupt handlers that send without waiting.            *)
(***************************************************************************)
EXTENDS IpcCall

CONSTANTS
  Mb,      \* the mailboxes; as an Obj, the list of the threads that receive
  Tx,      \* the Obj that is a mailbox's suspend_sender_thread list
  MbFlag,  \* "FIFO" or "PRIO" for each mailbox
  Size     \* mb->size

ASSUME MailboxAssumption ==
  /\ Mb \subseteq Obj /\ Tx \in [Mb -> Obj \ Mb]
  /\ MbFlag \in [Mb -> {"FIFO", "PRIO"}] /\ Size \in Nat \ {0}

VARIABLES
  msg_pool,    \* [Mb -> [0 .. Size - 1 -> Message]]; Nothing once it is read
  entry,       \* mb->entry
  in_offset,
  out_offset

mbVars == <<msg_pool, entry, in_offset, out_offset>>

Advance(i) == IF i + 1 >= Size THEN 0 ELSE i + 1

StoreFront(mb, m) ==   \* mutant: the message goes before those that are there
  LET place == IF out_offset[mb] = 0 THEN Size - 1 ELSE out_offset[mb] - 1 IN
  /\ msg_pool' = [msg_pool EXCEPT ![mb][place] = m]
  /\ out_offset' = [out_offset EXCEPT ![mb] = place]
  /\ entry' = [entry EXCEPT ![mb] = @ + 1]
  /\ UNCHANGED in_offset

Store(mb, m) ==
  /\ msg_pool' = [msg_pool EXCEPT ![mb][in_offset[mb]] = m]
  /\ in_offset' = [in_offset EXCEPT ![mb] = Advance(@)]
  /\ entry' = [entry EXCEPT ![mb] = @ + 1]
  /\ UNCHANGED out_offset

(***************************************************************************)
(* rt_mb_send_wait, rt_mb_send.  A first call with time 0 that finds the   *)
(* mailbox full changes nothing.                                           *)
(***************************************************************************)
MbSend(t, mb, m) ==
  /\ exists[mb] /\ entry[mb] < Size
  /\ InUser(t) \/ (Retrying(t, Tx[mb]) /\ m = val[t])
  /\ Store(mb, m)
  /\ WakeOne(mb)
  /\ EndCall(t, waitq[mb] # <<>>)
  /\ UNCHANGED <<defunct, prio, err, slice, arg, current, nest, due, lag, exists>>

MbSendWait(t, mb, m, n) ==
  /\ exists[mb] /\ entry[mb] = Size /\ n # 0
  /\ MayBlock(t) \/ (Retrying(t, Tx[mb]) /\ m = val[t] /\ n = left[t])
  /\ WaitFor(t, Tx[mb], MbFlag[mb], n)
  /\ val' = [val EXCEPT ![t] = m]
  /\ UNCHANGED <<job, exists, mbVars>>

(* The time is used up and there is again no room, or no message.          *)
MbTimeIsUp(t, mb) ==
  /\ left[t] = 0
  /\ \/ Retrying(t, Tx[mb]) /\ entry[mb] = Size
     \/ Retrying(t, mb) /\ entry[mb] = 0
  /\ EndCall(t, FALSE)
  /\ UNCHANGED <<queueVars, threadVars, arg, current, nest, due, lag, exists, mbVars>>

IsrMbSend(mb, m) ==
  /\ IrqEnabled /\ exists[mb] /\ entry[mb] < Size
  /\ Guarded => \A t \in Thread : pc[t] \in {"flush", "flushlock"} => call[t] \notin {mb, Tx[mb]}
  /\ Store(mb, m)
  /\ WakeOne(mb)
  /\ UNCHANGED <<defunct, prio, err, slice, callVars, nest, due, exists, ipcCallVars>>
  /\ IsrSchedule(waitq[mb] # <<>>)

(***************************************************************************)
(* rt_mb_recv.  The message is in *value when the locked section ends.     *)
(***************************************************************************)
MbRecvNoWake(t, mb) ==   \* mutant: the list of the senders is not looked at
  /\ exists[mb] /\ entry[mb] > 0
  /\ InUser(t) \/ Retrying(t, mb)
  /\ msg_pool' = [msg_pool EXCEPT ![mb][out_offset[mb]] = Nothing]
  /\ out_offset' = [out_offset EXCEPT ![mb] = Advance(@)]
  /\ entry' = [entry EXCEPT ![mb] = @ - 1]
  /\ Goto(t, "got")
  /\ call' = [call EXCEPT ![t] = mb]
  /\ val' = [val EXCEPT ![t] = msg_pool[mb][out_offset[mb]]]
  /\ UNCHANGED <<queueVars, threadVars, arg, current, nest, due, lag, exists, in_offset, job, left>>

MbRecv(t, mb) ==
  /\ exists[mb] /\ entry[mb] > 0
  /\ InUser(t) \/ Retrying(t, mb)
  /\ val' = [val EXCEPT ![t] = msg_pool[mb][out_offset[mb]]]
  /\ msg_pool' = [msg_pool EXCEPT ![mb][out_offset[mb]] = Nothing]
  /\ out_offset' = [out_offset EXCEPT ![mb] = Advance(@)]
  /\ entry' = [entry EXCEPT ![mb] = @ - 1]
  /\ WakeOne(Tx[mb])
  /\ Goto(t, "got")
  /\ call' = [call EXCEPT ![t] = mb]
  /\ job' = [job EXCEPT ![t] = IF waitq[Tx[mb]] # <<>> THEN "sched" ELSE "none"]
  /\ left' = [left EXCEPT ![t] = 0]
  /\ lag' = (lag \/ waitq[Tx[mb]] # <<>>)
  /\ UNCHANGED <<defunct, prio, err, slice, arg, current, nest, due, exists, in_offset>>

MbRecvWait(t, mb, n) ==
  /\ exists[mb] /\ entry[mb] = 0 /\ n # 0
  /\ MayBlock(t) \/ (Retrying(t, mb) /\ n = left[t])
  /\ WaitFor(t, mb, MbFlag[mb], n)
  /\ UNCHANGED <<val, job, exists, mbVars>>

(* ... and rt_schedule follows when a sender was woken.                    *)
MbRecvReturn(t) ==
  /\ At(t, "got") /\ call[t] \in Mb
  /\ EndCall(t, job[t] = "sched")
  /\ UNCHANGED <<queueVars, threadVars, arg, current, nest, due, lag, exists, mbVars>>

Emptied(mb) ==
  /\ msg_pool' = [msg_pool EXCEPT ![mb] = [i \in 0 .. Size - 1 |-> Nothing]]
  /\ entry' = [entry EXCEPT ![mb] = 0]
  /\ in_offset' = [in_offset EXCEPT ![mb] = 0]
  /\ out_offset' = [out_offset EXCEPT ![mb] = 0]

(* rt_mb_control(RT_IPC_CMD_RESET): one locked section, then rt_schedule   *)
MbReset(t, mb) ==
  /\ InUser(t) /\ exists[mb]
  /\ WakeAllWithError(waitq[mb] \o waitq[Tx[mb]])
  /\ Emptied(mb)
  /\ Goto(t, "sched")
  /\ UNCHANGED <<defunct, prio, slice, call, arg, current, nest, due, lag, exists, ipcCallVars>>

(***************************************************************************)
(* rt_mb_detach, rt_mb_delete: the receivers are woken, then the senders.  *)
(***************************************************************************)
MbDetach(t, mb) ==
  /\ mb \in Mb /\ Detach(t, mb)
  /\ Guarded => Quiet(mb) /\ Quiet(Tx[mb])
  /\ UNCHANGED <<ipcCallVars, mbVars>>

MbFlushSenders(t, mb) ==
  /\ At(t, "flush") /\ call[t] = mb /\ waitq[mb] = <<>>
  /\ call' = [call EXCEPT ![t] = Tx[mb]]
  /\ UNCHANGED <<queueVars, threadVars, pc, arg, current, nest, due, lag, exists, ipcCallVars, mbVars>>

MbFlushEnd(t, mb) ==
  /\ At(t, "flush") /\ call[t] = Tx[mb] /\ waitq[Tx[mb]] = <<>>
  /\ exists' = [exists EXCEPT ![mb] = FALSE]
  /\ Goto(t, "run")
  /\ call' = [call EXCEPT ![t] = "none"]
  /\ Emptied(mb)   \* what is left in it is not looked at again
  /\ UNCHANGED <<queueVars, threadVars, arg, current, nest, due, lag, ipcCallVars>>

(* rt_mb_init, rt_mb_create *)
MbInit(t, mb) ==
  /\ mb \in Mb /\ ObjectInit(t, mb)
  /\ Emptied(mb)
  /\ UNCHANGED ipcCallVars

InMbCall(t) ==
  \/ MbRecvReturn(t)
  \/ \E mb \in Mb : (CallFails(t, mb) \/ CallFails(t, Tx[mb])) /\ UNCHANGED mbVars
  \/ \E mb \in Mb : MbTimeIsUp(t, mb) \/ MbFlushSenders(t, mb) \/ MbFlushEnd(t, mb)

MbCall(t) ==
  \E mb \in Mb :
    \/ \E m \in Sends[t] : \/ MbSend(t, mb, m)
                           \/ \E n \in Timeouts \cup {left[t]} : MbSendWait(t, mb, m, n)
    \/ MbRecv(t, mb) \/ (\E n \in Timeouts \cup {left[t]} : MbRecvWait(t, mb, n))
    \/ MbReset(t, mb)

MailboxInit ==
  /\ msg_pool = [mb \in Mb |-> [i \in 0 .. Size - 1 |-> Nothing]]
  /\ entry = [mb \in Mb |-> 0]
  /\ in_offset = [mb \in Mb |-> 0] /\ out_offset = [mb \in Mb |-> 0]

MailboxNext ==
  \/ \E t \in Thread : InMbCall(t)
  \/ \E t \in Thread \ {Idle} : MbCall(t)
  \/ \E mb \in Mb : MbInit(Main, mb) \/ MbDetach(Main, mb) \/ \E m \in IsrSends : IsrMbSend(mb, m)

(***************************************************************************)
(* Properties.                                                             *)
(***************************************************************************)

MbTypeOK ==
  /\ \A mb \in Mb : /\ \A i \in 0 .. Size - 1 : msg_pool[mb][i] \in Message \cup {Nothing}
                    /\ entry[mb] \in 0 .. Size
                    /\ in_offset[mb] \in 0 .. Size - 1 /\ out_offset[mb] \in 0 .. Size - 1

(* No lost wake-up: a receiver goes on waiting only when each message in   *)
(* the mailbox has a woken thread on its way to take it; a sender, only    *)
(* when each free place has a woken sender on its way to fill it.          *)
MbNobodyForgotten ==
  \A mb \in Mb :
    /\ waitq[mb] # <<>> => entry[mb] <= Cardinality(OnTheWay(mb))
    /\ waitq[Tx[mb]] # <<>> => Size - entry[mb] <= Cardinality(OnTheWay(Tx[mb]))

(* Each mailbox keeps the promise of BoundedFifo.                          *)
MbOpen(mb) ==
  exists[mb] /\ \A t \in Thread : pc[t] \in {"flush", "flushlock"} => call[t] \notin {mb, Tx[mb]}

MbContent(mb) == [i \in 1 .. entry[mb] |-> msg_pool[mb][(out_offset[mb] + i - 1) % Size]]

MbSends(mb) == [t \in Thread \ {Idle} |->
  IF call[t] = Tx[mb] /\ (t \in Range(waitq[Tx[mb]]) \/ t \in OnTheWay(Tx[mb]))
    THEN val[t] ELSE Nothing]

MbGot(mb) == [t \in Thread \ {Idle} |->
  IF call[t] = mb /\ pc[t] = "got" THEN val[t] ELSE Nothing]

MbFifo(mb) == INSTANCE BoundedFifo WITH
  Client <- Thread \ {Idle}, IsrGets <- FALSE, Capacity <- Size,
  buf <- IF MbOpen(mb) THEN MbContent(mb) ELSE <<>>,
  sends <- MbSends(mb), urgent <- {}, got <- MbGot(mb), open <- MbOpen(mb)
=============================================================================
