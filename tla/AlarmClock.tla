------------------------------ MODULE AlarmClock ------------------------------
(***************************************************************************)
(* What the timers promise: an armed timer rings when its ticks have       *)
(* passed, at that very tick, not before, and before any that is due       *)
(* later.  One that is armed too late, because its owner was held up for   *)
(* some ticks, rings at the next tick.                                     *)
(***************************************************************************)
EXTENDS Integers

CONSTANTS
  Timer, NoTimer,
  Times,   \* the times a timer may be armed with
  Delays   \* the ticks that may pass while a timer is being armed

VARIABLES
  armed,   \* the timers that are running
  left,    \* the ticks an armed timer has left
  due,     \* a tick has come, and the timers that are due ring
  ringing  \* the timer that rings, whose owner may arm and disarm timers

vars == <<armed, left, due, ringing>>

Init == armed = {} /\ left = [t \in Timer |-> 0] /\ due = FALSE /\ ringing = NoTimer

(* Nobody arms or disarms a timer between two that ring at the same tick.  *)
MayWork == due => ringing # NoTimer

Arm(t) ==
  /\ MayWork
  /\ armed' = armed \cup {t}
  /\ \E n \in Times, d \in IF due THEN {0} ELSE Delays : left' = [left EXCEPT ![t] = n - d]
  /\ UNCHANGED <<due, ringing>>

Disarm(t) ==
  /\ MayWork /\ t \in armed
  /\ armed' = armed \ {t} /\ left' = [left EXCEPT ![t] = 0]
  /\ UNCHANGED <<due, ringing>>

Tick ==
  /\ ~due /\ due' = TRUE
  /\ left' = [t \in Timer |-> IF t \in armed THEN left[t] - 1 ELSE 0]
  /\ UNCHANGED <<armed, ringing>>

Ring(t) ==
  /\ due /\ ringing = NoTimer
  /\ t \in armed /\ left[t] <= 0 /\ \A u \in armed : left[t] <= left[u]
  /\ ringing' = t
  /\ armed' = armed \ {t} /\ left' = [left EXCEPT ![t] = 0]
  /\ UNCHANGED due

(* A periodic timer is armed again when it has rung.                       *)
Rung ==
  /\ ringing # NoTimer /\ ringing' = NoTimer
  /\ \/ UNCHANGED <<armed, left>>
     \/ /\ armed' = armed \cup {ringing}
        /\ \E n \in Times : left' = [left EXCEPT ![ringing] = n]
  /\ UNCHANGED due

Silence ==
  /\ due /\ ringing = NoTimer /\ \A t \in armed : left[t] > 0
  /\ due' = FALSE
  /\ UNCHANGED <<armed, left, ringing>>

Next ==
  \/ Tick \/ Rung \/ Silence
  \/ \E t \in Timer : Arm(t) \/ Disarm(t) \/ Ring(t)

Spec == Init /\ [][Next]_vars
=============================================================================
