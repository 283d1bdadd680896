------------------------------- MODULE MCTimer -------------------------------
(* Three timers that a thread and the timeout functions work on, with a    *)
(* tick counter of four bits: one that is changed and detached, a one-shot *)
(* and a periodic one.                                                     *)
EXTENDS Timer, TLC

CONSTANTS a, b, c, u1

MCInitTime == (a :> 1) @@ (b :> 5) @@ (c :> 1)

(* timeout_tick is read only of a timer that is in the list or about to be *)
(* put there: states that differ in another one are not told apart.        *)
MCRead(t) == t \in Range(list) \/ \E u \in User : arg[u] = t /\ pc[u] = "insert"
MCView == <<tick, list, [t \in Timer |-> IF MCRead(t) THEN expiry[t] ELSE 0],
            active, objVars, serving, irq, userVars>>
=============================================================================
