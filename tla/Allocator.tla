----------------------------- MODULE Allocator -----------------------------
(***************************************************************************)
(* What a dynamic memory allocator promises its callers: a region it       *)
(* grants lies in the arena and shares no memory with a region in use, and *)
(* nobody loses a region but by giving it back; a region that changes its  *)
(* size in place stays clear of the others.                                *)
(***************************************************************************)
EXTENDS Integers

CONSTANT Arena   \* the addresses that may be handed out

VARIABLE held    \* the regions in use: [at |-> an address, len |-> a size]

Cells(r) == r.at .. (r.at + r.len - 1)

Fits(r, R) ==
  Cells(r) \subseteq Arena /\ \A q \in R : Cells(q) \cap Cells(r) = {}

Init == held = {}

Grant   == \E r \in held' \ held : Fits(r, held) /\ held' = held \cup {r}
Release == \E r \in held : held' = held \ {r}
Resize  ==
  \E r \in held : \E q \in held' :
    q.at = r.at /\ Fits(q, held \ {r}) /\ held' = (held \ {r}) \cup {q}

Next == Grant \/ Release \/ Resize
Spec == Init /\ [][Next]_held
=============================================================================
