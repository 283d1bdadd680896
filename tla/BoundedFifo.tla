---------------------------- MODULE BoundedFifo ----------------------------
(***************************************************************************)
(* What a bounded queue promises: every message put into it is got once,   *)
(* in the order in which they were put, except that an urgent one goes     *)
(* first; and the message that is put is the one its client brought.       *)
(***************************************************************************)
EXTENDS Naturals, Sequences

CONSTANTS
  Client, Message, Capacity, Nothing,
  IsrGets   \* TRUE: interrupt handlers get messages too

VARIABLES
  buf,    \* the messages in the queue
  sends,  \* the message a client that has to wait wants to put, or Nothing
  urgent, \* the clients whose message is urgent
  got,    \* the message a client got and has not yet returned with, or Nothing
  open    \* not so while the queue is detached

vars == <<buf, sends, urgent, got, open>>

Init ==
  /\ buf = <<>> /\ open = FALSE /\ urgent = {}
  /\ sends = [c \in Client |-> Nothing] /\ got = [c \in Client |-> Nothing]

(* A client that finds no room waits with its message. *)
Ask(c, m) ==
  /\ open /\ sends[c] = Nothing /\ got[c] = Nothing
  /\ sends' = [sends EXCEPT ![c] = m] /\ urgent' \in {urgent, urgent \cup {c}}
  /\ UNCHANGED <<buf, got, open>>

HasRoom == open /\ Len(buf) < Capacity

(* The waiting client's message goes to the end, an urgent one to the      *)
(* front.                                                                  *)
Put(c) ==
  /\ HasRoom /\ sends[c] # Nothing
  /\ buf' = IF c \in urgent THEN <<sends[c]>> \o buf ELSE Append(buf, sends[c])
  /\ sends' = [sends EXCEPT ![c] = Nothing] /\ urgent' = urgent \ {c}
  /\ UNCHANGED <<got, open>>

(* Somebody need not wait. *)
PutNow(m) ==
  /\ HasRoom /\ buf' = Append(buf, m)
  /\ UNCHANGED <<sends, urgent, got, open>>

Get(c) ==
  /\ open /\ buf # <<>> /\ sends[c] = Nothing /\ got[c] = Nothing
  /\ got' = [got EXCEPT ![c] = Head(buf)] /\ buf' = Tail(buf)
  /\ UNCHANGED <<sends, urgent, open>>

GetNow ==
  /\ IsrGets /\ open /\ buf # <<>> /\ buf' = Tail(buf)
  /\ UNCHANGED <<sends, urgent, got, open>>

Return(c) ==
  /\ got[c] # Nothing /\ got' = [got EXCEPT ![c] = Nothing]
  /\ UNCHANGED <<buf, sends, urgent, open>>

GiveUp(c) ==
  /\ sends[c] # Nothing /\ sends' = [sends EXCEPT ![c] = Nothing]
  /\ urgent' = urgent \ {c}
  /\ UNCHANGED <<buf, got, open>>

(* A reset drops the messages and turns away clients that wait. *)
Clear ==
  /\ open /\ buf' = <<>>
  /\ \A c \in Client : sends'[c] \in {sends[c], Nothing}
  /\ DOMAIN sends' = Client /\ urgent' = {c \in urgent : sends'[c] # Nothing}
  /\ UNCHANGED <<got, open>>

Close == open /\ open' = FALSE /\ buf' = <<>> /\ UNCHANGED <<sends, urgent, got>>

Open ==
  /\ ~open /\ open' = TRUE /\ buf' = <<>>
  /\ \A c \in Client : sends[c] = Nothing /\ got[c] = Nothing
  /\ UNCHANGED <<sends, urgent, got>>

Next ==
  \/ \E c \in Client : Put(c) \/ Get(c) \/ Return(c) \/ GiveUp(c) \/ \E m \in Message : Ask(c, m)
  \/ (\E m \in Message : PutNow(m)) \/ GetNow
  \/ Clear \/ Close \/ Open

Spec == Init /\ [][Next]_vars
=============================================================================
