----------------------------- MODULE EventGroup -----------------------------
(***************************************************************************)
(* What an event promises: a client gets the flags it asked for as soon as *)
(* they are set, all of them or, if it asks for any, those that are;       *)
(* flags it consumes are given to nobody else, and nobody waits for flags  *)
(* that are set.                                                           *)
(***************************************************************************)
EXTENDS FiniteSets

CONSTANTS Client, Bit

VARIABLES
  flags,    \* the flags that are set
  asked,    \* what each client waits for: [set, all, consume], or NoAsk
  granted,  \* flags each client was given and its call has not returned with
  open

vars == <<flags, asked, granted, open>>

NoAsk == [set |-> {}, all |-> FALSE, consume |-> FALSE]

Ask == [set : (SUBSET Bit) \ {{}}, all : BOOLEAN, consume : BOOLEAN]

Fulfilled(a, f) == IF a.all THEN a.set \subseteq f ELSE a.set \cap f # {}

Waiting == {c \in Client : asked[c] # NoAsk}

Init ==
  /\ flags = {} /\ open = FALSE
  /\ asked = [c \in Client |-> NoAsk] /\ granted = [c \in Client |-> {}]

(* The flags are there. *)
Take(c) ==
  /\ open /\ asked[c] = NoAsk /\ granted[c] = {} /\ granted'[c] # {}
  /\ \E a \in Ask :
       /\ Fulfilled(a, flags)
       /\ granted' = [granted EXCEPT ![c] = a.set \cap flags]
       /\ flags' = IF a.consume THEN flags \ a.set ELSE flags
  /\ UNCHANGED <<asked, open>>

Wait(c) ==
  /\ open /\ asked[c] = NoAsk /\ granted[c] = {} /\ asked'[c] # NoAsk
  /\ \E a \in Ask : ~Fulfilled(a, flags) /\ asked' = [asked EXCEPT ![c] = a]
  /\ UNCHANGED <<flags, granted, open>>

(* Flags are set: the clients in served get what they waited for.          *)
Send(s) ==
  LET all == flags \cup s
      served == {c \in Waiting : granted'[c] # {}}
      consumers == {c \in served : asked[c].consume}
  IN
  /\ open
  /\ asked' = [c \in Client |-> IF c \in served THEN NoAsk ELSE asked[c]]
  /\ \A c \in Client \ served : granted'[c] = granted[c]
  /\ DOMAIN granted' = Client
  /\ \A c \in served :
       /\ granted'[c] \subseteq asked[c].set \cap all
       /\ asked[c].all => granted'[c] = asked[c].set
  /\ \A c, d \in consumers : c # d => granted'[c] \cap granted'[d] = {}
  /\ flags' = all \ UNION {granted'[c] : c \in consumers}
  /\ \A c \in Waiting \ served : ~Fulfilled(asked[c], flags')
  /\ UNCHANGED open

Return(c) ==
  /\ granted[c] # {} /\ granted' = [granted EXCEPT ![c] = {}]
  /\ UNCHANGED <<flags, asked, open>>

(* Timed out or, once the event is closed, turned away.                    *)
GiveUp(c) ==
  /\ asked[c] # NoAsk /\ asked' = [asked EXCEPT ![c] = NoAsk]
  /\ UNCHANGED <<flags, granted, open>>

(* A reset turns all clients away and clears the flags.                    *)
Clear ==
  /\ open /\ flags' = {} /\ asked' = [c \in Client |-> NoAsk]
  /\ UNCHANGED <<granted, open>>

Close == open /\ open' = FALSE /\ flags' = {} /\ UNCHANGED <<asked, granted>>

Open == ~open /\ Waiting = {} /\ open' = TRUE /\ flags' = {} /\ UNCHANGED <<asked, granted>>

Next ==
  \/ \E c \in Client : Return(c) \/ GiveUp(c) \/ Take(c) \/ Wait(c)
  \/ \E s \in (SUBSET Bit) \ {{}} : Send(s)
  \/ Clear \/ Close \/ Open

Spec == Init /\ [][Next]_vars
=============================================================================
