------------------------------- MODULE Event -------------------------------
(***************************************************************************)
(* Events of src/ipc.c on the kernel: threads wait for all or for any of a *)
(* set of flags, threads and interrupt handlers set flags, and one send    *)
(* may wake several threads.                                               *)
(***************************************************************************)
EXTENDS Ipc

CONSTANTS
  Ev,         \* the events
  EventFlag,  \* "FIFO" or "PRIO" for each event
  Bit,        \* the flags of an event's 32 that are used
  Request,    \* pairs [set, option] rt_event_recv is called with
  IsrEv       \* the events interrupt handlers send to

ASSUME EventAssumption ==
  /\ Ev \subseteq Obj /\ EventFlag \in [Ev -> {"FIFO", "PRIO"}] /\ IsrEv \subseteq Ev
  /\ \A r \in Request : /\ r.set \in (SUBSET Bit) \ {{}}
                        /\ r.option \subseteq {"AND", "OR", "CLEAR"}
                        /\ r.option \cap {"AND", "OR"} # {}

VARIABLES
  set,         \* event->set
  event_set,   \* thread->event_set while the thread waits; once its call has
               \* succeeded, what the call returns in *recved
  event_info   \* thread->event_info while the thread waits

eventVars == <<set, event_set, event_info>>

Satisfied(want, option, flags) ==
  IF "AND" \in option THEN want \subseteq flags ELSE want \cap flags # {}

(***************************************************************************)
(* rt_event_send: one walk over the wait list.  A woken thread's flags are *)
(* cleared before the next thread is looked at.                            *)
(***************************************************************************)
ServeClearAll(w, t) ==   \* mutant: the flags are not cleared until the next send
  IF ~Satisfied(event_set[t], event_info[t], w.flags) THEN w
  ELSE [w EXCEPT !.given[t] = event_set[t] \cap w.flags, !.woken = Append(@, t)]

Serve(w, t) ==
  IF ~Satisfied(event_set[t], event_info[t], w.flags) THEN w
  ELSE LET got == event_set[t] \cap w.flags IN
       [flags |-> IF "CLEAR" \in event_info[t] THEN w.flags \ got ELSE w.flags,
        given |-> [w.given EXCEPT ![t] = got],
        woken |-> Append(w.woken, t)]

WalkOne(e, s) ==   \* mutant: the walk ends with the first thread it wakes
  LET q == waitq[e]
      w[i \in 0 .. Len(q)] ==
        IF i = 0 THEN [flags |-> set[e] \cup s, given |-> event_set, woken |-> <<>>]
        ELSE IF w[i - 1].woken # <<>> THEN w[i - 1] ELSE Serve(w[i - 1], q[i])
  IN w[Len(q)]

Walk(e, s) ==
  LET q == waitq[e]
      w[i \in 0 .. Len(q)] ==
        IF i = 0 THEN [flags |-> set[e] \cup s, given |-> event_set, woken |-> <<>>]
        ELSE Serve(w[i - 1], q[i])
  IN w[Len(q)]

SendSet(e, s) ==
  LET w == Walk(e, s) IN
  /\ exists[e]
  /\ set' = [set EXCEPT ![e] = w.flags]
  /\ event_set' = w.given
  /\ event_info' = [t \in Thread |-> IF t \in Range(w.woken) THEN {} ELSE event_info[t]]
  /\ WakeEach(w.woken)
  /\ UNCHANGED exists

EventSend(t, e, s) ==
  /\ InUser(t)
  /\ SendSet(e, s)
  /\ Goto(t, IF Walk(e, s).woken # <<>> THEN "sched" ELSE "run")
  /\ UNCHANGED <<defunct, prio, err, slice, call, arg, current, nest, due, lag>>

IsrEventSend(e, s) ==
  /\ IrqEnabled /\ e \in IsrEv
  /\ Guarded => \A t \in Thread : pc[t] \in {"flush", "flushlock"} => call[t] # e
  /\ SendSet(e, s)
  /\ UNCHANGED <<defunct, prio, err, slice, callVars, nest, due>>
  /\ IsrSchedule(Walk(e, s).woken # <<>>)

(***************************************************************************)
(* rt_event_recv.  A call with time 0 that finds the flags missing changes *)
(* nothing; EventWait's n = 0 is RT_WAITING_FOREVER.                       *)
(***************************************************************************)
EventRecv(t, e, r) ==
  /\ InUser(t) /\ exists[e]
  /\ Satisfied(r.set, r.option, set[e])
  /\ event_set' = [event_set EXCEPT ![t] = r.set \cap set[e]]
  /\ set' = [set EXCEPT ![e] = IF "CLEAR" \in r.option THEN @ \ r.set ELSE @]
  /\ Goto(t, "got")
  /\ call' = [call EXCEPT ![t] = e]
  /\ UNCHANGED <<queueVars, threadVars, arg, current, nest, due, lag, event_info, exists>>

EventWait(t, e, r, n) ==
  /\ MayBlock(t) /\ exists[e]
  /\ ~Satisfied(r.set, r.option, set[e])
  /\ event_set' = [event_set EXCEPT ![t] = r.set]
  /\ event_info' = [event_info EXCEPT ![t] = r.option]
  /\ Block(t, e, EventFlag[e], n)
  /\ UNCHANGED <<set, exists>>

(* The call returns with what event_set holds, or with thread->error.      *)
EventReturn(t) ==
  /\ call[t] \in Ev /\ (At(t, "got") \/ At(t, "blocked"))
  /\ Goto(t, "run")
  /\ call' = [call EXCEPT ![t] = "none"]
  /\ event_set' = [event_set EXCEPT ![t] = {}]
  /\ event_info' = [event_info EXCEPT ![t] = {}]
  /\ UNCHANGED <<queueVars, threadVars, arg, current, nest, due, lag, set, exists>>

(* rt_event_control(RT_IPC_CMD_RESET): one locked section, then rt_schedule *)
EventReset(t, e) ==
  /\ InUser(t) /\ exists[e]
  /\ WakeAllWithError(waitq[e])
  /\ set' = [set EXCEPT ![e] = {}]
  /\ Goto(t, "sched")
  /\ UNCHANGED <<defunct, prio, slice, call, arg, current, nest, due, lag,
                 event_set, event_info, exists>>

(* rt_event_detach, rt_event_delete; rt_event_init, rt_event_create *)
EventDetach(t, e) == e \in Ev /\ Detach(t, e) /\ UNCHANGED eventVars

EventInit(t, e) ==
  /\ e \in Ev /\ ObjectInit(t, e)
  /\ set' = [set EXCEPT ![e] = {}]
  /\ UNCHANGED <<event_set, event_info>>

InEventCall(t) ==
  \/ EventReturn(t)
  \/ call[t] \in Ev /\ FlushEnd(t) /\ UNCHANGED eventVars

EventCall(t) ==
  \E e \in Ev :
    \/ \E r \in Request : \/ EventRecv(t, e, r)
                          \/ \E n \in 0 .. MaxTime : EventWait(t, e, r, n)
    \/ \E b \in Bit : EventSend(t, e, {b})
    \/ EventReset(t, e)

EventsInit ==
  /\ set = [e \in Ev |-> {}]
  /\ event_set = [t \in Thread |-> {}] /\ event_info = [t \in Thread |-> {}]

EventsNext ==
  \/ \E t \in Thread : InEventCall(t)
  \/ \E t \in Thread \ {Idle} : EventCall(t)
  \/ \E e \in Ev : EventInit(Main, e) \/ EventDetach(Main, e)
  \/ \E e \in Ev, b \in Bit : IsrEventSend(e, {b})

(***************************************************************************)
(* Properties.                                                             *)
(***************************************************************************)

EventTypeOK ==
  /\ set \in [Ev -> SUBSET Bit]
  /\ event_set \in [Thread -> SUBSET Bit]
  /\ event_info \in [Thread -> SUBSET {"AND", "OR", "CLEAR"}]

(* No lost wake-up: no thread waits for flags that are all there.          *)
NobodyMissesFlags ==
  \A e \in Ev : \A t \in Range(waitq[e]) :
    ~Satisfied(event_set[t], event_info[t], set[e])

(* Each event keeps the promise of EventGroup.                             *)
Asked(e) == [t \in Thread \ {Idle} |->
  IF t \in Range(waitq[e])
    THEN [set |-> event_set[t], all |-> "AND" \in event_info[t],
          consume |-> "CLEAR" \in event_info[t]]
    ELSE [set |-> {}, all |-> FALSE, consume |-> FALSE]]

Granted(e) == [t \in Thread \ {Idle} |->
  IF call[t] = e /\ t \notin Range(waitq[e]) /\ (pc[t] = "got" \/ err[t] = "EOK")
    THEN event_set[t] ELSE {}]

Open(e) == exists[e] /\ \A t \in Thread : pc[t] \in {"flush", "flushlock"} => call[t] # e

Group(e) == INSTANCE EventGroup WITH
  Client <- Thread \ {Idle}, flags <- IF Open(e) THEN set[e] ELSE {},
  asked <- Asked(e), granted <- Granted(e), open <- Open(e)
=============================================================================
