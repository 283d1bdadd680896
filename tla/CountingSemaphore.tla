-------------------------- MODULE CountingSemaphore --------------------------
(***************************************************************************)
(* What a semaphore promises: a token is handed to one client at a time,   *)
(* none is lost or made up, nobody waits while tokens are available, and   *)
(* a client that is waiting when the semaphore is closed gets no token.    *)
(***************************************************************************)
EXTENDS Naturals

CONSTANTS Client, InitTokens, ResetTokens

VARIABLES
  avail,    \* tokens nobody has
  waiting,  \* clients waiting for a token
  granted,  \* clients that have a token their call has not yet returned with
  open      \* it serves its clients; it does not while it is reset or detached

vars == <<avail, waiting, granted, open>>

Init == avail = InitTokens /\ waiting = {} /\ granted = {} /\ open = TRUE

Take(c) ==
  /\ open /\ avail > 0 /\ c \notin granted
  /\ avail' = avail - 1 /\ granted' = granted \cup {c}
  /\ UNCHANGED <<waiting, open>>

Wait(c) ==
  /\ open /\ avail = 0 /\ c \notin granted
  /\ waiting' = waiting \cup {c}
  /\ UNCHANGED <<avail, granted, open>>

Post ==
  /\ open
  /\ \/ waiting = {} /\ avail' = avail + 1 /\ UNCHANGED <<waiting, granted>>
     \/ \E c \in waiting : /\ waiting' = waiting \ {c}
                           /\ granted' = granted \cup {c}
                           /\ UNCHANGED avail
  /\ UNCHANGED open

(* The call returns with the token, or its thread is deleted. *)
Leave(c) ==
  /\ c \in granted /\ granted' = granted \ {c}
  /\ UNCHANGED <<avail, waiting, open>>

(* The call gives up: timed out, reset, or its thread is deleted. *)
GiveUp(c) ==
  /\ c \in waiting /\ waiting' = waiting \ {c}
  /\ UNCHANGED <<avail, granted, open>>

Close == open /\ open' = FALSE /\ UNCHANGED <<avail, waiting, granted>>

Reopen ==
  /\ ~open /\ waiting = {}
  /\ avail' \in ResetTokens /\ open' = TRUE
  /\ UNCHANGED <<waiting, granted>>

Next ==
  \/ \E c \in Client : Take(c) \/ Wait(c) \/ Leave(c) \/ GiveUp(c)
  \/ Post \/ Close \/ Reopen

Spec == Init /\ [][Next]_vars
=============================================================================
