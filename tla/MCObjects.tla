----------------------------- MODULE MCObjects -----------------------------
(* Three application threads of two priorities, interrupts, and an event   *)
(* of two flags, a data queue of two places with its low water mark at one *)
(* and a completion, one of which each behaviour uses.                     *)
EXTENDS Objects

CONSTANTS t1, t2, t3, idle, e1, dq1, push1, c1, f, g, x, y

MCThread == {t1, t2, t3, idle}
MCInitPrio == (t1 :> 0) @@ (t2 :> 1) @@ (t3 :> 1) @@ (idle :> 2)
MCEventFlag == e1 :> "PRIO"
MCPushList == dq1 :> push1
MCWaiter == c1 :> t1
MCSends == (t1 :> {x, y}) @@ (t2 :> {}) @@ (t3 :> {}) @@ (idle :> {})
MCTimeouts == {Forever, 1}
MCPushTimeouts == {Forever, 0, 1}
MCSerialTimeouts == {1}
MCNone == <<>>   \* what the objects are like that there are none of

(* Both flags together, any of them, and one of them without clearing it.  *)
MCRequest == {[set |-> {f, g}, option |-> {"AND", "CLEAR"}],
              [set |-> {f, g}, option |-> {"OR", "CLEAR"}],
              [set |-> {f},    option |-> {"OR"}]}

(* t2 and t3 differ in nothing, nor do the messages. *)
MCSymmetry == Permutations({t2, t3}) \cup Permutations({x, y})

VARIABLE used   \* bound: the one object that is initialised in this behaviour

vars == <<used, objectsVars>>

Init == used \in {e1, dq1, c1} /\ ObjectsInit

Next == ObjectsNext /\ (\A o \in Obj \ {used} : ~exists'[o]) /\ UNCHANGED used

Spec == Init /\ [][Next]_vars

EventStep == UNCHANGED Group(e1)!vars \/ Group(e1)!Next   \* the usual case first
DqStep == UNCHANGED DqFifo(dq1)!vars \/ DqFifo(dq1)!Next

(* rt_event_send, rt_event_recv, timeouts, resets and detached events      *)
(* together implement the abstract event group.                            *)
EventPromise == Group(e1)!Init /\ [][EventStep]_(Group(e1)!vars)

(* rt_data_queue_push and rt_data_queue_pop implement the abstract bounded *)
(* queue.                                                                  *)
DataQueuePromise == DqFifo(dq1)!Init /\ [][DqStep]_(DqFifo(dq1)!vars)
=============================================================================
