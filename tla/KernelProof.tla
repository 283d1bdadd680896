---------------------------- MODULE KernelProof ----------------------------
(***************************************************************************)
(* Theorems about the kernel for any number of threads, priorities, IPC    *)
(* objects and ticks; and, in the second part, what the IPC objects may    *)
(* rely on: their steps, taken one by one, keep the kernel's inductive     *)
(* invariant, the kernel's own steps take threads off the wait lists but   *)
(* never put one on; and what both do to the threads inside a call.        *)
(***************************************************************************)
EXTENDS Ipc, SequenceTheorems, WellFoundedInduction, TLAPS

(***************************************************************************)
(* The inductive invariant.  The properties of Kernel.tla are not          *)
(* inductive: they need what a thread in the middle of a kernel function   *)
(* knows of the thread it works on, and that the thread that runs is ready *)
(* unless it is about to call rt_schedule.                                 *)
(***************************************************************************)

OpPc == {"suspend", "resume", "start", "insert", "startins", "del1", "del2", "del3"}

(* u is on no list of the kernel and its timer is stopped. *)
Detached(u) ==
  /\ \A p \in Prio : u \notin Range(ready[p])
  /\ \A o \in Obj : u \notin Range(waitq[o])
  /\ timer[u] = 0 /\ u \notin due

(* What a thread v inside a kernel function knows of arg[v]. *)
Control(v) ==
  /\ arg[v] = NoThread <=> pc[v] \notin OpPc
  /\ arg[v] \notin {v, Idle}
  /\ \A w \in Thread : arg[v] = arg[w] /\ arg[v] # NoThread => v = w
  /\ pc[v] \in OpPc \ {"start", "startins"} => nest > 0 /\ current = v
  /\ pc[v] = "suspend" => stat[arg[v]] = "READY"
  /\ pc[v] \in {"resume", "start", "insert", "startins"} =>
       stat[arg[v]] = "SUSPEND" /\ Detached(arg[v])
  /\ pc[v] \in {"del1", "del2"} =>
       stat[arg[v]] \in {"INIT", "READY", "SUSPEND"} /\ Detached(arg[v])
  /\ pc[v] = "del3" =>
       stat[arg[v]] = "CLOSE" /\ arg[v] \notin Range(defunct)

ControlOK == \A v \in Thread : Control(v)

CurrentOK ==
  \/ stat[current] = "READY"
  \/ stat[current] \in {"SUSPEND", "CLOSE"} /\ pc[current] = "sched" /\ nest = 0

IdleOK ==
  stat[Idle] = "READY" /\ prio[Idle] = MaxPrio - 1 /\ pc[Idle] = "run"

DueOK == \A t \in due : timer[t] = 0

DefunctOK == \A t \in Range(defunct) : t \notin Static

(* rt_schedule has nothing to do. *)
HeadRuns ==
  nest = 0 /\ ~lag /\ pc[current] \notin {"sched", "reset"} => current = Head(ready[Min(mask)])

KernelInv ==
  /\ KernelTypeOK /\ QueuesConsistent /\ ListsConsistent /\ TimeoutFindsSuspended
  /\ ControlOK /\ CurrentOK /\ IdleOK /\ DueOK /\ DefunctOK /\ HeadRuns

(***************************************************************************)
(* Lists.                                                                  *)
(***************************************************************************)

(* RemoveAt leaves the other elements in their order. *)
LEMMA RemoveAtIndex ==
  ASSUME NEW S, NEW q \in Seq(S), NEW i \in 1 .. Len(q)
  PROVE  /\ RemoveAt(q, i) \in Seq(S)
         /\ Len(RemoveAt(q, i)) = Len(q) - 1
         /\ \A j \in 1 .. Len(q) - 1 :
              RemoveAt(q, i)[j] = IF j < i THEN q[j] ELSE q[j + 1]
<1> DEFINE a == SubSeq(q, 1, i - 1)  b == SubSeq(q, i + 1, Len(q))
<1>1. Len(q) \in Nat /\ i \in Nat \ {0}
  OBVIOUS
<1>2. \A j \in 1 .. Len(q) : q[j] \in S
  BY ElementOfSeq
<1>3. /\ a \in Seq(S) /\ Len(a) = i - 1
      /\ \A j \in 1 .. i - 1 : a[j] = q[j]
  BY <1>1, <1>2, SubSeqProperties
<1>4. /\ b \in Seq(S) /\ Len(b) = Len(q) - i
      /\ \A j \in 1 .. Len(q) - i : b[j] = q[i + j]
  BY <1>1, <1>2, SubSeqProperties
<1>r. RemoveAt(q, i) = a \o b
  BY DEF RemoveAt
<1> HIDE DEF a, b
<1>5. /\ a \o b \in Seq(S)
      /\ Len(a \o b) = Len(a) + Len(b)
      /\ \A j \in 1 .. Len(a) + Len(b) :
           (a \o b)[j] = IF j <= Len(a) THEN a[j] ELSE b[j - Len(a)]
  BY <1>3, <1>4, ConcatProperties
<1>6. ASSUME NEW j \in 1 .. Len(q) - 1
      PROVE  (a \o b)[j] = IF j < i THEN q[j] ELSE q[j + 1]
  <2>1. CASE j < i
    BY <1>1, <1>3, <1>4, <1>5, <2>1
  <2>2. CASE ~(j < i)
    <3>1. j - (i - 1) \in 1 .. Len(q) - i /\ i + (j - (i - 1)) = j + 1
      BY <1>1, <2>2
    <3>2. (a \o b)[j] = b[j - (i - 1)]
      BY <1>1, <1>3, <1>4, <1>5, <2>2
    <3> QED BY <1>4, <2>2, <3>1, <3>2
  <2> QED BY <2>1, <2>2
<1> QED BY <1>r, <1>1, <1>3, <1>4, <1>5, <1>6

(* rt_list_remove: the list keeps all its threads but t, each once. *)
LEMMA UnlinkProperties ==
  ASSUME NEW S, NEW q \in Seq(S), IsInjective(q), NEW t
  PROVE  /\ Unlink(q, t) \in Seq(S)
         /\ IsInjective(Unlink(q, t))
         /\ Range(Unlink(q, t)) = Range(q) \ {t}
<1>1. CASE t \notin Range(q)
  BY <1>1 DEF Unlink
<1>2. CASE t \in Range(q)
  <2> DEFINE k == CHOOSE i \in DOMAIN q : q[i] = t
             r == RemoveAt(q, k)
  <2>1. DOMAIN q = 1 .. Len(q) /\ Len(q) \in Nat
    BY LenProperties
  <2>2. k \in 1 .. Len(q) /\ q[k] = t
    BY <1>2, <2>1 DEF Range
  <2>3. /\ r \in Seq(S) /\ Len(r) = Len(q) - 1 /\ DOMAIN r = 1 .. Len(q) - 1
        /\ \A j \in 1 .. Len(q) - 1 : r[j] = IF j < k THEN q[j] ELSE q[j + 1]
    <3> HIDE DEF k
    <3> QED BY SMTT(60), <2>2, RemoveAtIndex, LenProperties
  <2> HIDE DEF k, r
  <2>4. \A i, j \in 1 .. Len(q) : q[i] = q[j] => i = j
    BY <2>1 DEF IsInjective
  <2>5. IsInjective(r)
    <3> DEFINE old(j) == IF j < k THEN j ELSE j + 1
    <3>1. \A j \in 1 .. Len(q) - 1 : old(j) \in 1 .. Len(q) /\ r[j] = q[old(j)]
      BY <2>1, <2>2, <2>3
    <3>2. \A i, j \in 1 .. Len(q) - 1 : old(i) = old(j) => i = j
      BY <2>1, <2>2
    <3> HIDE DEF old
    <3> QED BY SMTT(60), <2>3, <2>4, <3>1, <3>2 DEF IsInjective
  <2>6. ASSUME NEW j \in 1 .. Len(q) - 1 PROVE r[j] \in Range(q) \ {t}
    <3>1. CASE j < k
      <4>1. r[j] = q[j] /\ j \in 1 .. Len(q) /\ j # k
        BY <2>1, <2>2, <2>3, <3>1
      <4> QED BY <2>1, <2>2, <2>4, <4>1 DEF Range
    <3>2. CASE ~(j < k)
      <4>1. r[j] = q[j + 1] /\ j + 1 \in 1 .. Len(q) /\ j + 1 # k
        BY <2>1, <2>2, <2>3, <3>2
      <4> QED BY <2>1, <2>2, <2>4, <4>1 DEF Range
    <3> QED BY <3>1, <3>2
  <2>7. ASSUME NEW x \in Range(q) \ {t} PROVE x \in Range(r)
    <3>1. PICK i \in 1 .. Len(q) : q[i] = x
      BY <2>1 DEF Range
    <3>2. i # k
      BY <2>2, <3>1
    <3>3. CASE i < k
      BY SMTT(30), <2>1, <2>2, <2>3, <3>1, <3>3 DEF Range
    <3>4. CASE i > k
      <4>1. i - 1 \in 1 .. Len(q) - 1 /\ ~(i - 1 < k) /\ r[i - 1] = q[i]
        BY <2>1, <2>2, <2>3, <3>1, <3>4
      <4> QED BY <2>3, <3>1, <4>1 DEF Range
    <3> QED BY <2>1, <2>2, <3>1, <3>2, <3>3, <3>4
  <2>8. Unlink(q, t) = r
    BY <1>2 DEF Unlink, r, k
  <2>9. Range(r) \subseteq Range(q) \ {t}
    BY <2>3, <2>6 DEF Range
  <2> QED BY <2>3, <2>5, <2>7, <2>8, <2>9
<1> QED BY <1>1, <1>2

(* Append adds its element at the end. *)
LEMMA AppendRange ==
  ASSUME NEW S, NEW q \in Seq(S), IsInjective(q), NEW t \in S, t \notin Range(q)
  PROVE  /\ Append(q, t) \in Seq(S)
         /\ IsInjective(Append(q, t))
         /\ Range(Append(q, t)) = Range(q) \cup {t}
         /\ Append(q, t) # <<>>
<1>1. /\ Append(q, t) \in Seq(S) /\ Append(q, t) # <<>>
      /\ Len(Append(q, t)) = Len(q) + 1
      /\ \A i \in 1 .. Len(q) : Append(q, t)[i] = q[i]
      /\ Append(q, t)[Len(q) + 1] = t
  BY AppendProperties
<1>2. /\ DOMAIN q = 1 .. Len(q) /\ Len(q) \in Nat
      /\ DOMAIN Append(q, t) = 1 .. Len(q) + 1
  BY <1>1, LenProperties
<1>3. \A i \in 1 .. Len(q) : q[i] # t
  BY <1>2 DEF Range
<1>4. IsInjective(Append(q, t))
  BY <1>1, <1>2, <1>3 DEF IsInjective
<1>5. Range(Append(q, t)) = Range(q) \cup {t}
  BY <1>1, <1>2 DEF Range
<1> QED BY <1>1, <1>4, <1>5

(* A list with a thread on it is not empty and has a first thread. *)
LEMMA HeadRange ==
  ASSUME NEW S, NEW q \in Seq(S)
  PROVE  /\ q = <<>> <=> Range(q) = {}
         /\ q # <<>> => Head(q) \in Range(q) /\ Head(q) \in S
         /\ Range(q) \subseteq S
<1>1. DOMAIN q = 1 .. Len(q) /\ Len(q) \in Nat /\ \A i \in 1 .. Len(q) : q[i] \in S
  BY LenProperties
<1>2. CASE q = <<>>
  <2>1. Len(q) = 0
    BY <1>2, EmptySeq
  <2> QED BY <1>1, <1>2, <2>1 DEF Range
<1>3. CASE q # <<>>
  <2>1. Len(q) \in Nat \ {0}
    BY <1>3, EmptySeq
  <2>2. 1 \in 1 .. Len(q)
    BY <2>1
  <2>3. Head(q) = q[1]
    BY <1>3
  <2> QED BY <1>1, <1>3, <2>2, <2>3 DEF Range
<1> QED BY <1>2, <1>3

(* Tail takes the first thread off a list. *)
LEMMA TailRange ==
  ASSUME NEW S, NEW q \in Seq(S), IsInjective(q), q # <<>>
  PROVE  /\ Tail(q) \in Seq(S) /\ IsInjective(Tail(q))
         /\ Range(Tail(q)) \subseteq Range(q) \ {Head(q)}
<1>1. /\ Tail(q) \in Seq(S) /\ Len(Tail(q)) = Len(q) - 1
      /\ \A i \in 1 .. Len(Tail(q)) : Tail(q)[i] = q[i + 1]
  BY HeadTailProperties
<1>2. /\ DOMAIN q = 1 .. Len(q) /\ Len(q) \in Nat
      /\ DOMAIN Tail(q) = 1 .. Len(q) - 1
  BY <1>1, LenProperties
<1>3. \A i \in 1 .. Len(q) - 1 : i + 1 \in 1 .. Len(q) /\ Tail(q)[i] = q[i + 1]
  BY <1>1, <1>2
<1>4. IsInjective(Tail(q))
  BY <1>2, <1>3 DEF IsInjective
<1>5. \A i \in 1 .. Len(q) - 1 : Tail(q)[i] \in Range(q) /\ Tail(q)[i] # Head(q)
  <2> SUFFICES ASSUME NEW i \in 1 .. Len(q) - 1
               PROVE  q[i + 1] \in Range(q) /\ q[i + 1] # Head(q)
    BY <1>3
  <2>1. i + 1 \in 1 .. Len(q) /\ 1 \in 1 .. Len(q) /\ i + 1 # 1
    BY <1>2
  <2>2. q[i + 1] # q[1]
    BY <1>2, <2>1 DEF IsInjective
  <2> QED BY <1>2, <2>1, <2>2 DEF Range
<1>6. Range(Tail(q)) \subseteq Range(q) \ {Head(q)}
  BY <1>2, <1>5 DEF Range
<1> QED BY <1>1, <1>4, <1>6

(* rt_list_insert_after on the head of a list that does not hold t. *)
LEMMA PrependRange ==
  ASSUME NEW S, NEW q \in Seq(S), IsInjective(q), NEW t \in S, t \notin Range(q)
  PROVE  /\ <<t>> \o q \in Seq(S) /\ IsInjective(<<t>> \o q)
         /\ Range(<<t>> \o q) = Range(q) \cup {t}
<1>1. <<t>> \in Seq(S) /\ Len(<<t>>) = 1 /\ <<t>>[1] = t
  OBVIOUS
<1>2. /\ <<t>> \o q \in Seq(S)
      /\ Len(<<t>> \o q) = 1 + Len(q)
      /\ \A j \in 1 .. 1 + Len(q) :
           (<<t>> \o q)[j] = IF j <= 1 THEN <<t>>[j] ELSE q[j - 1]
  BY <1>1, ConcatProperties
<1> DEFINE r == <<t>> \o q
<1>3. /\ DOMAIN q = 1 .. Len(q) /\ Len(q) \in Nat
      /\ DOMAIN r = 1 .. 1 + Len(q)
  BY <1>2, LenProperties
<1>4. r[1] = t /\ \A j \in 2 .. 1 + Len(q) : j - 1 \in 1 .. Len(q) /\ r[j] = q[j - 1]
  BY <1>1, <1>2, <1>3
<1> HIDE DEF r
<1>5. \A i \in 1 .. Len(q) : q[i] # t
  BY <1>3 DEF Range
<1>6. \A i \in 1 .. Len(q) : i + 1 \in 1 .. 1 + Len(q) /\ r[i + 1] = q[i]
  BY <1>3, <1>4
<1>7. IsInjective(r)
  <2> SUFFICES ASSUME NEW i \in 1 .. 1 + Len(q), NEW j \in 1 .. 1 + Len(q), r[i] = r[j]
               PROVE  i = j
    BY <1>3 DEF IsInjective
  <2>1. CASE i = 1 /\ j = 1
    BY <2>1
  <2>2. CASE i # 1 /\ j = 1
    BY <1>3, <1>4, <1>5, <2>2
  <2>3. CASE i = 1 /\ j # 1
    BY <1>3, <1>4, <1>5, <2>3
  <2>4. CASE i # 1 /\ j # 1
    <3>1. i - 1 \in 1 .. Len(q) /\ j - 1 \in 1 .. Len(q) /\ q[i - 1] = q[j - 1]
      BY <1>3, <1>4, <2>4
    <3>2. i - 1 = j - 1
      BY <1>3, <3>1 DEF IsInjective
    <3> QED BY <1>3, <3>2
  <2> QED BY <2>1, <2>2, <2>3, <2>4
<1>8. \A x \in Range(r) : x = t \/ x \in Range(q)
  <2> SUFFICES ASSUME NEW i \in 1 .. 1 + Len(q) PROVE r[i] = t \/ r[i] \in Range(q)
    BY <1>3 DEF Range
  <2> QED BY <1>3, <1>4 DEF Range
<1>9. t \in Range(r) /\ \A x \in Range(q) : x \in Range(r)
  <2>1. 1 \in 1 .. 1 + Len(q)
    BY <1>3
  <2> QED BY SMTT(30), <1>3, <1>4, <1>6, <2>1 DEF Range
<1> QED BY <1>2, <1>7, <1>8, <1>9 DEF r

(* A set of priorities with a member has a least one. *)
LEMMA MinProperties ==
  ASSUME NEW S, S \subseteq Nat, S # {}
  PROVE  Min(S) \in S /\ \A x \in S : Min(S) <= x
<1>1. IsWellFoundedOn(OpToRel(<, Nat), Nat)
  BY NatLessThanWellFounded
<1>2. PICK x \in S : \A y \in S : ~(<<y, x>> \in OpToRel(<, Nat))
  BY <1>1, WFMin
<1>3. \A y \in S : ~(y < x)
  BY <1>2 DEF OpToRel
<1>4. \A y \in S : x <= y
  BY <1>3
<1> QED BY <1>2, <1>4 DEF Min

(***************************************************************************)
(* The ready queues and the priority group.                                *)
(***************************************************************************)

(* The part of QueuesConsistent that does not speak of threads' stat. *)
QOK(r, m) ==
  /\ r \in [Prio -> Seq(Thread)] /\ m \in SUBSET Prio
  /\ \A p \in Prio : IsInjective(r[p]) /\ (p \in m <=> r[p] # <<>>)

(* t is in no ready queue but that of its priority. *)
OwnQueueOnly(t) == \A p \in Prio : t \in Range(ready[p]) => p = prio[t]

WOK(w) == w \in [Obj -> Seq(Thread)] /\ \A o \in Obj : IsInjective(w[o])

(* v is the family of lists w without t. *)
Unlinked(D, v, w, t) ==
  /\ v \in [D -> Seq(Thread)]
  /\ \A d \in D : /\ IsInjective(v[d])
                  /\ v[d] = Unlink(w[d], t)
                  /\ Range(v[d]) = Range(w[d]) \ {t}
                  /\ t \notin Range(w[d]) => v[d] = w[d]

(* rt_list_remove of a thread from whatever list it is on. *)
LEMMA UnlinkAllProperties ==
  ASSUME NEW D, NEW w \in [D -> Seq(Thread)], \A d \in D : IsInjective(w[d]), NEW t
  PROVE  Unlinked(D, UnlinkAll(w, t), w, t)
<1>1. ASSUME NEW d \in D
      PROVE  /\ Unlink(w[d], t) \in Seq(Thread) /\ IsInjective(Unlink(w[d], t))
             /\ Range(Unlink(w[d], t)) = Range(w[d]) \ {t}
             /\ t \notin Range(w[d]) => Unlink(w[d], t) = w[d]
  <2>1. w[d] \in Seq(Thread) /\ IsInjective(w[d])
    OBVIOUS
  <2>2. t \notin Range(w[d]) => Unlink(w[d], t) = w[d]
    BY DEF Unlink
  <2> QED BY <2>1, <2>2, UnlinkProperties
<1> QED BY <1>1 DEF UnlinkAll, Unlinked

(* rt_schedule_remove_thread keeps the priority group in step with the     *)
(* queues: the bit it clears is that of the thread's own queue, so it must *)
(* not be called for a thread queued at another priority.                  *)
LEMMA RemoveThreadProperties ==
  ASSUME QOK(ready, mask), prio \in [Thread -> Prio],
         NEW t \in Thread, OwnQueueOnly(t), RemoveThread(t)
  PROVE  /\ QOK(ready', mask')
         /\ \A p \in Prio : Range(ready'[p]) = Range(ready[p]) \ {t}
<1>1. /\ ready' \in [Prio -> Seq(Thread)]
      /\ \A p \in Prio : /\ IsInjective(ready'[p])
                         /\ ready'[p] = Unlink(ready[p], t)
                         /\ Range(ready'[p]) = Range(ready[p]) \ {t}
                         /\ t \notin Range(ready[p]) => ready'[p] = ready[p]
  <2>1. ready \in [Prio -> Seq(Thread)] /\ \A d \in Prio : IsInjective(ready[d])
    BY DEF QOK
  <2>2. ready' = UnlinkAll(ready, t)
    BY DEF RemoveThread
  <2>3. Unlinked(Prio, UnlinkAll(ready, t), ready, t)
    BY <2>1, UnlinkAllProperties
  <2> QED BY <2>2, <2>3 DEF Unlinked
<1>2. ASSUME NEW p \in Prio PROVE p \in mask' <=> ready'[p] # <<>>
  <2>1. CASE p = prio[t]
    <3>1. ready[p] = <<>> => ready'[p] = <<>>
      <4>1. ready[p] \in Seq(Thread)
        BY DEF QOK
      <4>2. ready[p] = <<>> <=> Range(ready[p]) = {}
        BY <4>1, HeadRange
      <4> QED BY <1>1, <4>2
    <3> QED BY <1>1, <2>1, <3>1 DEF QOK, RemoveThread, MaskWithout
  <2>2. CASE p # prio[t]
    <3>1. ready'[p] = ready[p]
      BY <1>1, <2>2 DEF OwnQueueOnly
    <3>2. p \in mask' <=> p \in mask
      BY <2>2 DEF RemoveThread, MaskWithout
    <3> QED BY <3>1, <3>2 DEF QOK
  <2> QED BY <2>1, <2>2
<1>3. mask' \in SUBSET Prio
  BY DEF QOK, RemoveThread, MaskWithout
<1> QED BY <1>1, <1>2, <1>3 DEF QOK

(* A thread moved to the end of the queue of priority p. *)
LEMMA RequeuedProperties ==
  ASSUME QOK(ready, mask), prio \in [Thread -> Prio],
         NEW t \in Thread, OwnQueueOnly(t), NEW p \in Prio
  PROVE  /\ QOK(Requeued(t, p), MaskWithout(t) \cup {p})
         /\ \A q \in Prio : Range(Requeued(t, p)[q]) =
                IF q = p THEN Range(ready[q]) \cup {t} ELSE Range(ready[q]) \ {t}
<1> DEFINE u == UnlinkAll(ready, t)  r == Requeued(t, p)  m == MaskWithout(t) \cup {p}
<1>1. /\ u \in [Prio -> Seq(Thread)]
      /\ \A q \in Prio : /\ IsInjective(u[q])
                         /\ u[q] = Unlink(ready[q], t)
                         /\ Range(u[q]) = Range(ready[q]) \ {t}
                         /\ t \notin Range(ready[q]) => u[q] = ready[q]
  <2>1. ready \in [Prio -> Seq(Thread)] /\ \A d \in Prio : IsInjective(ready[d])
    BY DEF QOK
  <2>2. Unlinked(Prio, UnlinkAll(ready, t), ready, t)
    BY <2>1, UnlinkAllProperties
  <2> QED BY <2>2 DEF Unlinked
<1>2. r = [u EXCEPT ![p] = Append(u[p], t)]
  BY DEF Requeued
<1>3. m = MaskWithout(t) \cup {p}
  OBVIOUS
<1> HIDE DEF u, r, m
<1>4. /\ Append(u[p], t) \in Seq(Thread) /\ IsInjective(Append(u[p], t))
      /\ Range(Append(u[p], t)) = Range(ready[p]) \cup {t} /\ Append(u[p], t) # <<>>
  <2>1. u[p] \in Seq(Thread) /\ IsInjective(u[p]) /\ t \notin Range(u[p])
    BY <1>1
  <2>2. Range(u[p]) \cup {t} = Range(ready[p]) \cup {t}
    BY <1>1
  <2> QED BY <2>1, <2>2, AppendRange
<1>5. /\ r \in [Prio -> Seq(Thread)] /\ r[p] = Append(u[p], t)
      /\ \A q \in Prio : q # p => r[q] = u[q]
  BY <1>1, <1>2, <1>4
<1>6. ASSUME NEW q \in Prio PROVE q \in m <=> r[q] # <<>>
  <2>1. CASE q = p
    BY <1>3, <1>4, <1>5, <2>1
  <2>2. CASE q # p /\ q = prio[t]
    <3>1. ready[q] = <<>> => u[q] = <<>>
      <4>1. ready[q] \in Seq(Thread)
        BY DEF QOK
      <4>2. ready[q] = <<>> <=> Range(ready[q]) = {}
        BY <4>1, HeadRange
      <4> QED BY <1>1, <4>2
    <3>2. r[q] = Unlink(ready[q], t)
      BY <1>1, <1>5, <2>2
    <3> QED BY <1>1, <1>3, <2>2, <3>1, <3>2 DEF QOK, MaskWithout
  <2>3. CASE q # p /\ q # prio[t]
    <3>1. r[q] = ready[q]
      BY <1>1, <1>5, <2>3 DEF OwnQueueOnly
    <3>2. q \in m <=> q \in mask
      BY <1>3, <2>3 DEF MaskWithout
    <3> QED BY <3>1, <3>2 DEF QOK
  <2> QED BY <2>1, <2>2, <2>3
<1>7. m \in SUBSET Prio
  BY <1>3 DEF QOK, MaskWithout
<1>8. QOK(r, m)
  BY <1>1, <1>4, <1>5, <1>6, <1>7 DEF QOK
<1>9. \A q \in Prio : Range(r[q]) =
        IF q = p THEN Range(ready[q]) \cup {t} ELSE Range(ready[q]) \ {t}
  BY <1>1, <1>4, <1>5
<1> QED BY <1>8, <1>9 DEF r, m

(* A thread put back into the queue of its own priority: the bit is set    *)
(* whether it was there before or not.                                     *)
LEMMA MakeReadyQueues ==
  ASSUME QOK(ready, mask), prio \in [Thread -> Prio],
         NEW t \in Thread, OwnQueueOnly(t)
  PROVE  /\ QOK(Requeued(t, prio[t]), mask \cup {prio[t]})
         /\ \A q \in Prio : Range(Requeued(t, prio[t])[q]) =
              IF q = prio[t] THEN Range(ready[q]) \cup {t} ELSE Range(ready[q])
<1>1. prio[t] \in Prio
  OBVIOUS
<1>2. mask \cup {prio[t]} = MaskWithout(t) \cup {prio[t]}
  BY DEF MaskWithout
<1>3. \A q \in Prio : q # prio[t] => Range(ready[q]) \ {t} = Range(ready[q])
  BY DEF OwnQueueOnly
<1>4. /\ QOK(Requeued(t, prio[t]), MaskWithout(t) \cup {prio[t]})
      /\ \A q \in Prio : Range(Requeued(t, prio[t])[q]) =
           IF q = prio[t] THEN Range(ready[q]) \cup {t} ELSE Range(ready[q]) \ {t}
  BY <1>1, RequeuedProperties
<1> QED BY <1>2, <1>3, <1>4

(* rt_schedule_insert_thread of a thread that is in no ready queue. *)
LEMMA InsertThreadProperties ==
  ASSUME QOK(ready, mask), prio \in [Thread -> Prio],
         NEW t \in Thread, \A p \in Prio : t \notin Range(ready[p]), InsertThread(t)
  PROVE  /\ QOK(ready', mask')
         /\ \A q \in Prio : Range(ready'[q]) =
              IF q = prio[t] THEN Range(ready[q]) \cup {t} ELSE Range(ready[q])
<1> DEFINE p == prio[t]  a == Append(ready[p], t)
<1>1. p \in Prio /\ ready[p] \in Seq(Thread) /\ IsInjective(ready[p]) /\ t \notin Range(ready[p])
  BY DEF QOK
<1>2. a \in Seq(Thread) /\ IsInjective(a) /\ Range(a) = Range(ready[p]) \cup {t} /\ a # <<>>
  BY <1>1, AppendRange
<1>3. ready' = [ready EXCEPT ![p] = a] /\ mask' = mask \cup {p}
  BY DEF InsertThread
<1> HIDE DEF p, a
<1>4. /\ ready' \in [Prio -> Seq(Thread)] /\ ready'[p] = a
      /\ \A q \in Prio : q # p => ready'[q] = ready[q]
  BY <1>1, <1>2, <1>3 DEF QOK
<1>5. QOK(ready', mask')
  BY <1>1, <1>2, <1>3, <1>4 DEF QOK
<1>6. \A q \in Prio : Range(ready'[q]) = IF q = p THEN Range(ready[q]) \cup {t} ELSE Range(ready[q])
  BY <1>2, <1>4
<1> QED BY <1>5, <1>6 DEF p

(* rt_schedule: the level it finds is that of a queue with a thread on it, *)
(* and no thread of a higher priority is ready.                            *)
LEMMA ScheduleProperties ==
  ASSUME NEW r, NEW m, QOK(r, m), MaxPrio \in Nat, NEW p \in Prio, r[p] # <<>>
  PROVE  /\ Min(m) \in Prio /\ Min(m) \in m /\ \A q \in m : Min(m) <= q
         /\ Head(r[Min(m)]) \in Range(r[Min(m)]) /\ Head(r[Min(m)]) \in Thread
<1>1. m \subseteq Nat /\ m # {}
  BY DEF QOK, Prio
<1>2. Min(m) \in m /\ \A q \in m : Min(m) <= q
  BY <1>1, MinProperties
<1>3. Min(m) \in Prio /\ r[Min(m)] \in Seq(Thread) /\ r[Min(m)] # <<>>
  BY <1>2 DEF QOK
<1> QED BY <1>2, <1>3, HeadRange

(***************************************************************************)
(* Every step preserves the invariant.                                     *)
(***************************************************************************)

(* The part of the invariant the queue lemmas are stated for. *)
LEMMA InvQueues ==
  ASSUME KernelInv
  PROVE  /\ QOK(ready, mask) /\ WOK(waitq)
         /\ \A t \in Thread : OwnQueueOnly(t)
         /\ \A p \in Prio : Range(ready[p]) \subseteq Thread
         /\ \A o \in Obj : Range(waitq[o]) \subseteq Thread
         /\ Range(defunct) \subseteq Thread
<1>1. /\ QOK(ready, mask) /\ WOK(waitq)
      /\ \A t \in Thread : OwnQueueOnly(t)
  BY DEF KernelInv, KernelTypeOK, QueuesConsistent, ListsConsistent, QOK, WOK, OwnQueueOnly
<1>2. \A p \in Prio : ready[p] \in Seq(Thread)
  BY DEF KernelInv, KernelTypeOK
<1>3. \A o \in Obj : waitq[o] \in Seq(Thread)
  BY DEF KernelInv, KernelTypeOK
<1>4. defunct \in Seq(Thread)
  BY DEF KernelInv, KernelTypeOK
<1> QED BY <1>1, <1>2, <1>3, <1>4, HeadRange

(* A thread that is neither ready nor suspended is on no list of the kernel. *)
LEMMA ClosedIsDetached ==
  ASSUME KernelInv, NEW u \in Thread, stat[u] \notin {"READY", "SUSPEND"}
  PROVE  Detached(u)
<1>1. (\A p \in Prio : u \notin Range(ready[p])) /\ (\A o \in Obj : u \notin Range(waitq[o]))
  BY DEF KernelInv, QueuesConsistent, ListsConsistent
<1>2. u \notin due /\ ~(timer[u] > 0)
  BY DEF KernelInv, TimeoutFindsSuspended
<1>3. timer[u] \in 0 .. MaxTime
  BY DEF KernelInv, KernelTypeOK
<1>4. timer[u] = 0
  BY <1>2, <1>3, KernelAssumption
<1> QED BY <1>1, <1>2, <1>4 DEF Detached

(* rt_enter_critical. *)
LEMMA EnterCriticalStep ==
  ASSUME KernelInv, NEW t \in Thread, EnterCritical(t)
  PROVE  KernelInv'
<1> USE KernelAssumption DEF KernelInv, EnterCritical, InUser, Running, kernelVars, queueVars, threadVars, callVars
<1>1. KernelTypeOK'
  BY SMTT(30) DEF KernelTypeOK
<1>2. QueuesConsistent'
  BY DEF QueuesConsistent, Deleting
<1>3. ListsConsistent' /\ TimeoutFindsSuspended' /\ IdleOK' /\ DueOK' /\ DefunctOK'
  BY DEF ListsConsistent, TimeoutFindsSuspended, IdleOK, DueOK, DefunctOK
<1>4. ControlOK'
  BY ZenonT(30) DEF KernelTypeOK, ControlOK, Control, Detached, OpPc
<1>5. CurrentOK' /\ HeadRuns'
  BY DEF KernelTypeOK, CurrentOK, HeadRuns
<1> QED BY <1>1, <1>2, <1>3, <1>4, <1>5

(* rt_thread_delete stops the timer of the thread it deletes. *)
LEMMA DeleteTimerStep ==
  ASSUME KernelInv, NEW t \in Thread, DeleteTimer(t)
  PROVE  KernelInv'
<1> USE KernelAssumption DEF KernelInv, DeleteTimer, At, Running, Goto, kernelVars, queueVars, threadVars, callVars
<1>1. KernelTypeOK'
  <2>1. 0 \in 0 .. MaxTime /\ "del2" \in Pc
    BY DEF Pc
  <2> QED BY <2>1 DEF KernelTypeOK
<1>2. QueuesConsistent'
  BY SMTT(60) DEF QueuesConsistent, Deleting, KernelTypeOK
<1>3. ListsConsistent' /\ TimeoutFindsSuspended' /\ IdleOK' /\ DueOK' /\ DefunctOK'
  BY SMTT(60) DEF ListsConsistent, TimeoutFindsSuspended, IdleOK, DueOK, DefunctOK, KernelTypeOK
<1>4. ControlOK'
  <2>1. /\ timer' = [timer EXCEPT ![arg[t]] = 0] /\ pc' = [pc EXCEPT ![t] = "del2"]
        /\ UNCHANGED <<arg, stat, nest, current, ready, waitq, due, defunct>>
        /\ pc[t] = "del1"
        /\ pc \in [Thread -> Pc] /\ timer \in [Thread -> 0 .. MaxTime]
    BY DEF KernelTypeOK
  <2>2. SUFFICES ASSUME NEW v \in Thread PROVE Control(v)'
    BY DEF ControlOK
  <2>3. Control(v) /\ Control(t)
    BY DEF ControlOK
  <2>4. CASE v = t
    BY <2>1, <2>3, <2>4 DEF Control, Detached, OpPc
  <2>5. CASE v # t
    BY <2>1, <2>3, <2>5 DEF Control, Detached, OpPc
  <2> QED BY <2>4, <2>5
<1>5. CurrentOK' /\ HeadRuns'
  BY DEF KernelTypeOK, CurrentOK, HeadRuns
<1> QED BY <1>1, <1>2, <1>3, <1>4, <1>5

(* rt_thread_sleep or rt_thread_suspend returns. *)
LEMMA ReturnStep ==
  ASSUME KernelInv, NEW t \in Thread, Return(t)
  PROVE  KernelInv'
<1> USE KernelAssumption DEF KernelInv, Return, At, Running, Goto, queueVars, threadVars, callVars
<1>1. KernelTypeOK'
  BY DEF KernelTypeOK, Pc, Stat
<1>2. QueuesConsistent'
  <2>1. \A x \in Thread : Deleting(x) => Deleting(x)'
    BY DEF Deleting, KernelTypeOK
  <2> QED BY <2>1 DEF QueuesConsistent, KernelTypeOK
<1>3. ListsConsistent' /\ TimeoutFindsSuspended' /\ IdleOK' /\ DueOK' /\ DefunctOK'
  BY SMTT(30) DEF ListsConsistent, TimeoutFindsSuspended, IdleOK, DueOK, DefunctOK, KernelTypeOK
<1>4. ControlOK'
  <2> SUFFICES ASSUME NEW v \in Thread PROVE Control(v)'
    BY DEF ControlOK
  <2>1. Control(v) /\ Control(t)
    BY DEF ControlOK
  <2>2. CASE v = t
    BY <2>1, <2>2 DEF KernelTypeOK, Control, Detached, OpPc
  <2>3. CASE v # t
    BY <2>1, <2>3 DEF KernelTypeOK, Control, Detached, OpPc
  <2> QED BY <2>2, <2>3
<1>5. CurrentOK' /\ HeadRuns'
  BY DEF KernelTypeOK, CurrentOK, HeadRuns
<1> QED BY <1>1, <1>2, <1>3, <1>4, <1>5

(* The thread being deleted is closed. *)
LEMMA DeleteCloseStep ==
  ASSUME KernelInv, NEW t \in Thread, DeleteClose(t)
  PROVE  KernelInv'
<1> USE KernelAssumption DEF KernelInv, DeleteClose, At, Running, Goto, queueVars, threadVars, callVars
<1>a. /\ arg[t] \in Thread \ {t, Idle} /\ Detached(arg[t]) /\ Control(t)
      /\ stat[arg[t]] \in {"INIT", "READY", "SUSPEND"} /\ arg[t] # current /\ t # Idle
  BY ZenonT(30) DEF ControlOK, Control, OpPc, KernelTypeOK, IdleOK
<1>1. KernelTypeOK'
  BY DEF KernelTypeOK, Pc, Stat
<1>2. QueuesConsistent'
  <2>1. \A x \in Thread \ {arg[t]} : Deleting(x) => Deleting(x)'
    BY DEF Deleting, KernelTypeOK
  <2>2. \A x \in Thread \ {arg[t]} : stat'[x] = stat[x]
    BY DEF KernelTypeOK
  <2>3. \A p \in Prio : Range(ready[p]) \subseteq Thread \ {arg[t]}
    BY <1>a, InvQueues DEF Detached
  <2>4. stat'[arg[t]] = "CLOSE"
    BY <1>a DEF KernelTypeOK
  <2> QED BY <2>1, <2>2, <2>3, <2>4 DEF QueuesConsistent
<1>3. ListsConsistent' /\ TimeoutFindsSuspended' /\ IdleOK' /\ DueOK' /\ DefunctOK'
  <2>2. \A x \in Thread \ {arg[t]} : stat'[x] = stat[x]
    BY DEF KernelTypeOK
  <2>3. \A o \in Obj : Range(waitq[o]) \subseteq Thread \ {arg[t]}
    BY <1>a, InvQueues DEF Detached
  <2>4. stat'[arg[t]] = "CLOSE" /\ Range(defunct) \subseteq Thread
    BY <1>a, InvQueues DEF KernelTypeOK
  <2>5. ListsConsistent'
    BY <2>2, <2>3, <2>4 DEF ListsConsistent
  <2>6. TimeoutFindsSuspended'
    BY <1>a, <2>2 DEF TimeoutFindsSuspended, Detached
  <2> QED BY <1>a, <2>2, <2>5, <2>6 DEF IdleOK, DueOK, DefunctOK, KernelTypeOK
<1>4. ControlOK'
  <2> SUFFICES ASSUME NEW v \in Thread PROVE Control(v)'
    BY DEF ControlOK
  <2>1. Control(v) /\ Control(t)
    BY DEF ControlOK
  <2>2. CASE v = t
    <3>1. arg[t] \notin Range(defunct)
      BY <1>a DEF ListsConsistent
    <3> QED BY <1>a, <2>1, <2>2, <3>1 DEF KernelTypeOK, Control, OpPc
  <2>3. CASE v # t
    <3>1. arg[v] # arg[t] /\ pc'[v] = pc[v] /\ stat'[arg[v]] = stat[arg[v]]
      BY <1>a, <2>1, <2>3 DEF KernelTypeOK, Control
    <3> QED BY <2>1, <2>3, <3>1 DEF KernelTypeOK, Control, Detached, OpPc
  <2> QED BY <2>2, <2>3
<1>5. CurrentOK' /\ HeadRuns'
  BY <1>a DEF KernelTypeOK, CurrentOK, HeadRuns
<1> QED BY <1>1, <1>2, <1>3, <1>4, <1>5

(* The thread being deleted goes on the defunct list. *)
LEMMA DeleteDefunctStep ==
  ASSUME KernelInv, NEW t \in Thread, DeleteDefunct(t)
  PROVE  KernelInv'
<1> USE KernelAssumption DEF KernelInv, DeleteDefunct, At, Running, Goto, queueVars, threadVars, callVars
<1>a. /\ arg[t] \in Thread \ {t, Idle} /\ Control(t) /\ t # Idle
      /\ stat[arg[t]] = "CLOSE" /\ arg[t] \notin Range(defunct)
  BY ZenonT(30) DEF ControlOK, Control, OpPc, KernelTypeOK, IdleOK
<1>b. /\ defunct' \in Seq(Thread) /\ IsInjective(defunct')
      /\ Range(defunct') \subseteq Range(defunct) \cup {arg[t]}
      /\ arg[t] \in Static => Range(defunct') = Range(defunct)
  <2>1. defunct \in Seq(Thread) /\ IsInjective(defunct)
    BY DEF KernelTypeOK, ListsConsistent
  <2>2. /\ <<arg[t]>> \o defunct \in Seq(Thread) /\ IsInjective(<<arg[t]>> \o defunct)
        /\ Range(<<arg[t]>> \o defunct) = Range(defunct) \cup {arg[t]}
    BY <1>a, <2>1, PrependRange
  <2> QED BY <2>1, <2>2
<1>1. KernelTypeOK'
  BY <1>b DEF KernelTypeOK, Pc, Stat
<1>2. QueuesConsistent'
  <2>1. \A x \in Thread : Deleting(x) => Deleting(x)'
    BY ZenonT(60) DEF Deleting, KernelTypeOK
  <2> QED BY <2>1 DEF QueuesConsistent, KernelTypeOK
<1>3. ListsConsistent' /\ TimeoutFindsSuspended' /\ IdleOK' /\ DueOK' /\ DefunctOK'
  <2>1. ListsConsistent'
    BY <1>a, <1>b DEF ListsConsistent
  <2>2. DefunctOK'
    BY <1>a, <1>b DEF DefunctOK
  <2> QED BY <1>a, <2>1, <2>2 DEF TimeoutFindsSuspended, IdleOK, DueOK, KernelTypeOK
<1>4. ControlOK'
  <2> SUFFICES ASSUME NEW v \in Thread PROVE Control(v)'
    BY DEF ControlOK
  <2>1. Control(v) /\ Control(t)
    BY DEF ControlOK
  <2>2. CASE v = t
    BY ZenonT(60), <1>a, <2>1, <2>2 DEF KernelTypeOK, Control, OpPc
  <2>3. CASE v # t
    BY ZenonT(60), <1>a, <1>b, <2>1, <2>3 DEF KernelTypeOK, Control, Detached, OpPc
  <2> QED BY <2>2, <2>3
<1>5. CurrentOK' /\ HeadRuns'
  BY DEF KernelTypeOK, CurrentOK, HeadRuns
<1> QED BY <1>1, <1>2, <1>3, <1>4, <1>5

(* rt_exit_critical. *)
LEMMA ExitCriticalStep ==
  ASSUME KernelInv, NEW t \in Thread \ {Idle}, ExitCritical(t)
  PROVE  KernelInv'
<1> USE KernelAssumption DEF KernelInv, ExitCritical, InUser, Running, Goto, queueVars, threadVars, callVars
<1>1. KernelTypeOK'
  BY SMTT(30) DEF KernelTypeOK, Pc, Stat
<1>2. QueuesConsistent'
  <2>1. \A x \in Thread : Deleting(x) => Deleting(x)'
    BY DEF Deleting, KernelTypeOK
  <2> QED BY <2>1 DEF QueuesConsistent, KernelTypeOK
<1>3. ListsConsistent' /\ TimeoutFindsSuspended' /\ IdleOK' /\ DueOK' /\ DefunctOK'
  BY SMTT(60) DEF ListsConsistent, TimeoutFindsSuspended, IdleOK, DueOK, DefunctOK, KernelTypeOK
<1>4. ControlOK'
  <2> SUFFICES ASSUME NEW v \in Thread PROVE Control(v)'
    BY DEF ControlOK
  <2>1. Control(v) /\ Control(t)
    BY DEF ControlOK
  <2>2. CASE v = t
    BY <2>1, <2>2 DEF KernelTypeOK, Control, Detached, OpPc
  <2>3. CASE v # t
    BY <2>1, <2>3 DEF KernelTypeOK, Control, Detached, OpPc
  <2> QED BY <2>2, <2>3
<1>5. CurrentOK' /\ HeadRuns'
  BY DEF KernelTypeOK, CurrentOK, HeadRuns
<1> QED BY <1>1, <1>2, <1>3, <1>4, <1>5

(* rt_thread_suspend finds the thread ready. *)
LEMMA SuspendStep ==
  ASSUME KernelInv, Guarded, NEW t \in Thread \ {Idle}, NEW u \in Thread, Suspend(t, u)
  PROVE  KernelInv'
<1> USE KernelAssumption DEF KernelInv, Suspend, MayControl, Begin, InUser, Running, Goto, queueVars, threadVars, callVars
<1>1. KernelTypeOK'
  BY DEF KernelTypeOK, Pc, Stat
<1>2. QueuesConsistent'
  <2>1. \A x \in Thread : Deleting(x) => Deleting(x)'
    BY DEF Deleting, KernelTypeOK, ControlOK, Control, OpPc
  <2> QED BY ZenonT(60), <2>1 DEF QueuesConsistent, KernelTypeOK
<1>3. ListsConsistent' /\ TimeoutFindsSuspended' /\ IdleOK' /\ DueOK' /\ DefunctOK'
  BY SMTT(30) DEF ListsConsistent, TimeoutFindsSuspended, IdleOK, DueOK, DefunctOK, KernelTypeOK
<1>4. ControlOK'
  <2> SUFFICES ASSUME NEW v \in Thread PROVE Control(v)'
    BY DEF ControlOK
  <2>1. Control(v) /\ Control(t)
    BY DEF ControlOK
  <2>2. CASE v = t
    BY <2>1, <2>2 DEF KernelTypeOK, Control, Detached, OpPc
  <2>3. CASE v # t
    BY <2>1, <2>3 DEF KernelTypeOK, Control, Detached, OpPc
  <2> QED BY <2>2, <2>3
<1>5. CurrentOK' /\ HeadRuns'
  BY DEF KernelTypeOK, CurrentOK, HeadRuns
<1> QED BY <1>1, <1>2, <1>3, <1>4, <1>5

(* rt_thread_resume finds the thread suspended. *)
LEMMA ResumeStep ==
  ASSUME KernelInv, Guarded, NEW t \in Thread \ {Idle}, NEW u \in Thread, Resume(t, u)
  PROVE  KernelInv'
<1> USE KernelAssumption DEF KernelInv, Resume, MayControl, Begin, InUser, Running, Goto, queueVars, threadVars, callVars
<1>a. Detached(u)
  BY DEF Detached, QueuesConsistent
<1>1. KernelTypeOK'
  BY DEF KernelTypeOK, Pc, Stat
<1>2. QueuesConsistent'
  <2>1. \A x \in Thread : Deleting(x) => Deleting(x)'
    BY DEF Deleting, KernelTypeOK, ControlOK, Control, OpPc
  <2> QED BY ZenonT(60), <2>1 DEF QueuesConsistent, KernelTypeOK
<1>3. ListsConsistent' /\ TimeoutFindsSuspended' /\ IdleOK' /\ DueOK' /\ DefunctOK'
  BY SMTT(30) DEF ListsConsistent, TimeoutFindsSuspended, IdleOK, DueOK, DefunctOK, KernelTypeOK
<1>4. ControlOK'
  <2> SUFFICES ASSUME NEW v \in Thread PROVE Control(v)'
    BY DEF ControlOK
  <2>1. Control(v) /\ Control(t)
    BY DEF ControlOK
  <2>2. CASE v = t
    BY <1>a, <2>1, <2>2 DEF KernelTypeOK, Control, Detached, OpPc
  <2>3. CASE v # t
    BY <1>a, <2>1, <2>3 DEF KernelTypeOK, Control, Detached, OpPc
  <2> QED BY <2>2, <2>3
<1>5. CurrentOK' /\ HeadRuns'
  BY DEF KernelTypeOK, CurrentOK, HeadRuns
<1> QED BY <1>1, <1>2, <1>3, <1>4, <1>5

(* rt_thread_startup. *)
LEMMA StartupStep ==
  ASSUME KernelInv, NEW t \in Thread \ {Idle}, NEW u \in Thread, Startup(t, u)
  PROVE  KernelInv'
<1> USE KernelAssumption DEF KernelInv, Startup, Begin, InUser, Running, Goto, queueVars, threadVars, callVars
<1>a. /\ Detached(u) /\ u \notin {t, Idle} /\ u \notin Range(defunct) /\ stat[t] = "READY"
      /\ \A v \in Thread : arg[v] # u
  <2>1. Detached(u) /\ u \notin Range(defunct)
    BY ClosedIsDetached DEF ListsConsistent
  <2>2. u \notin {t, Idle} /\ stat[t] = "READY"
    BY DEF CurrentOK, IdleOK
  <2>3. \A v \in Thread : arg[v] # u
    <3> SUFFICES ASSUME NEW v \in Thread, arg[v] = u PROVE FALSE
      OBVIOUS
    <3>1. Control(v) /\ u # NoThread
      BY DEF ControlOK
    <3> QED BY <3>1 DEF Control, OpPc
  <2> QED BY <2>1, <2>2, <2>3
<1>1. KernelTypeOK'
  BY DEF KernelTypeOK, Pc, Stat
<1>2. QueuesConsistent'
  <2>1. \A x \in Thread : Deleting(x) => Deleting(x)'
    BY <1>a DEF Deleting, KernelTypeOK
  <2> QED BY SMTT(30), <1>a, <2>1 DEF QueuesConsistent, KernelTypeOK, Detached
<1>3. ListsConsistent' /\ TimeoutFindsSuspended' /\ IdleOK' /\ DueOK' /\ DefunctOK'
  BY SMTT(30), <1>a DEF ListsConsistent, TimeoutFindsSuspended, IdleOK, DueOK, DefunctOK, KernelTypeOK, Detached
<1>4. ControlOK'
  <2> SUFFICES ASSUME NEW v \in Thread PROVE Control(v)'
    BY DEF ControlOK
  <2>1. Control(v) /\ Control(t)
    BY DEF ControlOK
  <2>2. CASE v = t
    BY <1>a, <2>1, <2>2 DEF KernelTypeOK, Control, Detached, OpPc
  <2>3. CASE v # t
    BY ZenonT(60), <1>a, <2>1, <2>3 DEF KernelTypeOK, Control, Detached, OpPc
  <2> QED BY <2>2, <2>3
<1>5. CurrentOK' /\ HeadRuns'
  BY DEF KernelTypeOK, CurrentOK, HeadRuns
<1> QED BY <1>1, <1>2, <1>3, <1>4, <1>5

(* rt_thread_init or rt_thread_create. *)
LEMMA CreateStep ==
  ASSUME KernelInv, NEW t \in Thread \ {Idle}, NEW u \in Thread, Create(t, u)
  PROVE  KernelInv'
<1> USE KernelAssumption DEF KernelInv, Create, InUser, Running, Goto, queueVars, threadVars, callVars
<1>a. /\ Detached(u) /\ u \notin {t, Idle} /\ u \notin Range(defunct)
      /\ pc[u] \notin OpPc \ {"start", "startins"}
  <2>1. Detached(u)
    BY ClosedIsDetached
  <2>2. u \notin Range(defunct)
    BY DEF ListsConsistent, DefunctOK
  <2>3. u \notin {t, Idle}
    BY DEF CurrentOK, IdleOK
  <2>4. pc[u] \notin OpPc \ {"start", "startins"}
    BY <2>3 DEF ControlOK, Control
  <2> QED BY <2>1, <2>2, <2>3, <2>4
<1>1. KernelTypeOK'
  <2>1. InitTick \in 1 .. InitTick /\ 0 \in 0 .. MaxTime /\ InitPrio[u] \in Prio
    OBVIOUS
  <2> QED BY <2>1 DEF KernelTypeOK, Pc, Stat
<1>2. QueuesConsistent'
  <2>1. \A x \in Thread : Deleting(x) => Deleting(x)'
    BY <1>a DEF Deleting, KernelTypeOK, OpPc
  <2> QED BY SMTT(30), <1>a, <2>1 DEF QueuesConsistent, KernelTypeOK, Detached
<1>3. ListsConsistent' /\ TimeoutFindsSuspended' /\ IdleOK' /\ DueOK' /\ DefunctOK'
  BY SMTT(30), <1>a DEF ListsConsistent, TimeoutFindsSuspended, IdleOK, DueOK, DefunctOK, KernelTypeOK, Detached
<1>4. ControlOK'
  <2> SUFFICES ASSUME NEW v \in Thread PROVE Control(v)'
    BY DEF ControlOK
  <2>1. Control(v) /\ Control(t)
    BY DEF ControlOK
  <2>2. CASE v = t
    BY <2>1, <2>2 DEF KernelTypeOK, Control, Detached, OpPc
  <2>3. CASE v # t
    BY ZenonT(60), <2>1, <2>3 DEF KernelTypeOK, Control, Detached, OpPc
  <2> QED BY <2>2, <2>3
<1>5. CurrentOK' /\ HeadRuns'
  BY DEF KernelTypeOK, CurrentOK, HeadRuns
<1> QED BY <1>1, <1>2, <1>3, <1>4, <1>5

(* What is known of a ready thread that has the processor. *)
LEMMA RunningThread ==
  ASSUME KernelInv, NEW t \in Thread, current = t, stat[t] = "READY"
  PROVE  /\ \A v \in Thread : arg[v] # t
         /\ t \in Range(ready[prio[t]]) /\ \A o \in Obj : t \notin Range(waitq[o])
         /\ timer[t] = 0 /\ t \notin due /\ t \notin Range(defunct)
<1>1. \A v \in Thread : arg[v] # t
  <2> SUFFICES ASSUME NEW v \in Thread, arg[v] = t PROVE FALSE
    OBVIOUS
  <2>1. Control(v) /\ t # NoThread
    BY KernelAssumption DEF KernelInv, ControlOK
  <2> QED BY <2>1 DEF Control, OpPc
<1>2. t \in Range(ready[prio[t]])
  BY <1>1 DEF KernelInv, QueuesConsistent, Deleting
<1>3. t \notin Range(defunct) /\ \A o \in Obj : t \notin Range(waitq[o])
  BY DEF KernelInv, ListsConsistent
<1>4. timer[t] \in 0 .. MaxTime /\ t \notin due /\ ~(timer[t] > 0)
  BY DEF KernelInv, KernelTypeOK, TimeoutFindsSuspended
<1>5. timer[t] = 0
  BY <1>4, KernelAssumption
<1> QED BY <1>1, <1>2, <1>3, <1>4, <1>5

(* A thread that leaves the ready queues leaves them consistent, provided  *)
(* it does not stay READY.                                                 *)
LEMMA RemovedQueues ==
  ASSUME KernelInv, NEW u \in Thread, RemoveThread(u), UNCHANGED prio,
         \A x \in Thread \ {u} : stat'[x] = stat[x] /\ (Deleting(x) => Deleting(x)'),
         stat'[u] = "READY" => Deleting(u)'
  PROVE  /\ QueuesConsistent' /\ QOK(ready', mask')
         /\ \A p \in Prio : Range(ready'[p]) = Range(ready[p]) \ {u}
<1>1. /\ QOK(ready', mask')
      /\ \A p \in Prio : Range(ready'[p]) = Range(ready[p]) \ {u}
  BY InvQueues, RemoveThreadProperties DEF KernelInv, KernelTypeOK
<1>2. \A p \in Prio : Range(ready[p]) \subseteq Thread
  BY InvQueues
<1>3. \A p \in Prio : \A x \in Range(ready'[p]) : stat'[x] = "READY" /\ prio'[x] = p
  BY <1>1, <1>2 DEF KernelInv, QueuesConsistent
<1>4. ASSUME NEW x \in Thread, stat'[x] = "READY"
      PROVE  x \in Range(ready'[prio'[x]]) \/ Deleting(x)'
  <2>1. prio[x] \in Prio
    BY DEF KernelInv, KernelTypeOK
  <2> QED BY <1>1, <1>4, <2>1 DEF KernelInv, QueuesConsistent
<1> QED BY <1>1, <1>3, <1>4 DEF QueuesConsistent, QOK

(* So does a thread that is READY at the end of the queue it is put on. *)
LEMMA ReadiedQueues ==
  ASSUME KernelInv, NEW u \in Thread, UNCHANGED prio, QOK(ready', mask'),
         \A p \in Prio : Range(ready'[p]) =
           IF p = prio[u] THEN Range(ready[p]) \cup {u} ELSE Range(ready[p]),
         \A x \in Thread \ {u} : stat'[x] = stat[x] /\ (Deleting(x) => Deleting(x)'),
         stat'[u] = "READY"
  PROVE  QueuesConsistent'
<1>1. \A p \in Prio : Range(ready[p]) \subseteq Thread
  BY InvQueues
<1>2. \A p \in Prio : \A x \in Range(ready'[p]) : stat'[x] = "READY" /\ prio'[x] = p
  <2> SUFFICES ASSUME NEW p \in Prio, NEW x \in Range(ready'[p])
               PROVE  stat'[x] = "READY" /\ prio'[x] = p
    OBVIOUS
  <2>1. x \in Range(ready[p]) => prio[x] = p /\ stat[x] = "READY" /\ x \in Thread
    BY <1>1 DEF KernelInv, QueuesConsistent
  <2>2. CASE p = prio[u]
    <3>1. x \in Range(ready[p]) \cup {u}
      BY <2>2
    <3> QED BY <2>1, <2>2, <3>1
  <2>3. CASE p # prio[u]
    <3>1. x \in Range(ready[p])
      BY <2>3
    <3> QED BY <2>1, <2>3, <3>1 DEF KernelInv, QueuesConsistent
  <2> QED BY <2>2, <2>3
<1>3. ASSUME NEW x \in Thread, stat'[x] = "READY"
      PROVE  x \in Range(ready'[prio'[x]]) \/ Deleting(x)'
  <2>1. prio[x] \in Prio
    BY DEF KernelInv, KernelTypeOK
  <2> QED BY <1>3, <2>1 DEF KernelInv, QueuesConsistent
<1> QED BY <1>2, <1>3 DEF QueuesConsistent, QOK

(* The idle thread reclaims a deleted thread. *)
LEMMA IdleExcuteStep ==
  ASSUME KernelInv, IdleExcute
  PROVE  KernelInv'
<1> USE KernelAssumption DEF KernelInv, IdleExcute, InUser, Running, Goto, queueVars, threadVars, callVars
<1>a. /\ Head(defunct) \in Thread \ {Idle} /\ stat[Head(defunct)] = "CLOSE"
      /\ Head(defunct) \in Range(defunct)
      /\ Tail(defunct) \in Seq(Thread) /\ IsInjective(Tail(defunct))
      /\ Range(Tail(defunct)) \subseteq Range(defunct) \ {Head(defunct)}
  <2>1. defunct \in Seq(Thread) /\ IsInjective(defunct) /\ defunct # <<>>
    BY DEF KernelTypeOK, ListsConsistent
  <2>2. Head(defunct) \in Range(defunct) /\ Head(defunct) \in Thread
    BY <2>1, HeadRange
  <2>3. stat[Head(defunct)] = "CLOSE"
    BY <2>2 DEF ListsConsistent
  <2> QED BY <2>1, <2>2, <2>3, TailRange DEF IdleOK
<1>b. \A x \in Thread \ {Head(defunct)} : stat'[x] = stat[x]
  BY DEF KernelTypeOK
<1>c. Detached(Head(defunct))
  BY <1>a, ClosedIsDetached
<1>d. /\ \A p \in Prio : Range(ready[p]) \subseteq Thread
      /\ \A o \in Obj : Range(waitq[o]) \subseteq Thread
      /\ Range(defunct) \subseteq Thread
  BY InvQueues
<1>1. KernelTypeOK'
  BY <1>a DEF KernelTypeOK, Stat
<1>2. QueuesConsistent'
  <2>1. \A x \in Thread : Deleting(x) => Deleting(x)'
    BY DEF Deleting
  <2>2. stat'[Head(defunct)] = "NONE"
    BY <1>a DEF KernelTypeOK
  <2> QED BY <1>a, <1>b, <1>c, <1>d, <2>1, <2>2 DEF QueuesConsistent, Detached
<1>3. ListsConsistent' /\ TimeoutFindsSuspended' /\ IdleOK' /\ DueOK' /\ DefunctOK'
  <2>1. ListsConsistent'
    BY <1>a, <1>b, <1>c, <1>d DEF ListsConsistent, Detached
  <2>2. TimeoutFindsSuspended'
    BY <1>b, <1>c DEF TimeoutFindsSuspended, Detached
  <2> QED BY <1>a, <1>b, <2>1, <2>2 DEF IdleOK, DueOK, DefunctOK
<1>4. ControlOK'
  <2> SUFFICES ASSUME NEW v \in Thread PROVE Control(v)'
    BY DEF ControlOK
  <2>1. Control(v)
    BY DEF ControlOK
  <2>2. pc[v] \in OpPc => arg[v] \in Thread /\ arg[v] # Head(defunct)
    BY <1>a, <2>1 DEF Control, KernelTypeOK, OpPc
  <2> QED BY <1>a, <1>b, <2>1, <2>2 DEF Control, Detached, OpPc
<1>5. CurrentOK' /\ HeadRuns'
  BY <1>a, <1>b DEF KernelTypeOK, CurrentOK, HeadRuns, IdleOK
<1> QED BY <1>1, <1>2, <1>3, <1>4, <1>5

(* A blocking call takes its caller out of the ready queue.                *)
LEMMA SuspendForStep ==
  ASSUME KernelInv, NEW t \in Thread, NEW why \in {"sleep", "suspend"}, NEW n \in 0 .. MaxTime,
         MayBlock(t), SuspendFor(t, why, n), UNCHANGED <<waitq, err>>
  PROVE  KernelInv'
<1> USE KernelAssumption DEF KernelInv, SuspendFor, MayBlock, InUser, Running, Goto, queueVars, threadVars, callVars
<1>a. /\ stat[t] = "READY" /\ t # Idle
      /\ \A v \in Thread : arg[v] # t
      /\ \A o \in Obj : t \notin Range(waitq[o])
      /\ timer[t] = 0 /\ t \notin due /\ t \notin Range(defunct)
  <2>1. stat[t] = "READY"
    BY DEF CurrentOK
  <2> QED BY <2>1, RunningThread
<1>b. \A x \in Thread \ {t} : stat'[x] = stat[x] /\ timer'[x] = timer[x] /\ pc'[x] = pc[x] /\ call'[x] = call[x]
  BY DEF KernelTypeOK
<1>c. stat'[t] = "SUSPEND" /\ pc'[t] = "sched"
  BY DEF KernelTypeOK
<1>d. QueuesConsistent' /\ QOK(ready', mask') /\ \A p \in Prio : Range(ready'[p]) = Range(ready[p]) \ {t}
  <2>1. \A x \in Thread : Deleting(x) => Deleting(x)'
    BY <1>b DEF Deleting
  <2>2. \A x \in Thread \ {t} : stat'[x] = stat[x] /\ (Deleting(x) => Deleting(x)')
    BY <1>b, <2>1
  <2>3. RemoveThread(t) /\ UNCHANGED prio /\ (stat'[t] = "READY" => Deleting(t)')
    BY <1>c
  <2> QED BY <2>2, <2>3, RemovedQueues
<1>e. /\ \A o \in Obj : Range(waitq[o]) \subseteq Thread \ {t}
      /\ Range(defunct) \subseteq Thread \ {t}
  BY <1>a, InvQueues
<1>1. KernelTypeOK'
  BY <1>d DEF KernelTypeOK, Pc, Stat, QOK
<1>3. ListsConsistent' /\ TimeoutFindsSuspended' /\ IdleOK' /\ DueOK' /\ DefunctOK'
  BY SMTT(60), <1>a, <1>b, <1>c, <1>e DEF ListsConsistent, TimeoutFindsSuspended, IdleOK, DueOK, DefunctOK, KernelTypeOK
<1>4. ControlOK'
  <2> SUFFICES ASSUME NEW v \in Thread PROVE Control(v)'
    BY DEF ControlOK
  <2>1. Control(v)
    BY DEF ControlOK
  <2>2. pc[v] \in OpPc => arg[v] \in Thread /\ arg[v] # t
    BY <1>a, <2>1 DEF Control, KernelTypeOK, OpPc
  <2>3. pc'[v] = pc[v] \/ (pc'[v] \notin OpPc /\ pc[v] \notin OpPc)
    <3>1. CASE v = t
      BY <1>c, <3>1 DEF OpPc
    <3>2. CASE v # t
      BY <1>b, <3>2
    <3> QED BY <3>1, <3>2
  <2>4. arg[v] \in Thread \ {t} /\ Detached(arg[v]) => Detached(arg[v])'
    BY ZenonT(60), <1>b, <1>d DEF Detached
  <2> QED BY <1>b, <2>1, <2>2, <2>3, <2>4 DEF Control, OpPc
<1>5. CurrentOK' /\ HeadRuns'
  BY <1>c DEF CurrentOK, HeadRuns
<1> QED BY <1>1, <1>d, <1>3, <1>4, <1>5

(* rt_thread_sleep, rt_thread_delay. *)
LEMMA SleepStep ==
  ASSUME KernelInv, NEW t \in Thread, NEW n \in 1 .. MaxTime, Sleep(t, n)
  PROVE  KernelInv'
<1>1. n \in 0 .. MaxTime
  BY KernelAssumption
<1>2. MayBlock(t) /\ SuspendFor(t, "sleep", n) /\ UNCHANGED <<waitq, err>>
  BY DEF Sleep
<1> QED BY <1>1, <1>2, SuspendForStep

(* rt_thread_suspend(rt_thread_self()). *)
LEMMA SuspendSelfStep ==
  ASSUME KernelInv, NEW t \in Thread, SuspendSelf(t)
  PROVE  KernelInv'
<1>1. 0 \in 0 .. MaxTime
  BY KernelAssumption
<1>2. MayBlock(t) /\ SuspendFor(t, "suspend", 0) /\ UNCHANGED <<waitq, err>>
  BY DEF SuspendSelf
<1> QED BY <1>1, <1>2, SuspendForStep

(* A thread is taken off the wait list it may be on. *)
LEMMA WaitRemoved ==
  ASSUME KernelInv, NEW u \in Thread, waitq' = UnlinkAll(waitq, u)
  PROVE  /\ WOK(waitq')
         /\ \A o \in Obj : /\ Range(waitq'[o]) = Range(waitq[o]) \ {u}
                          /\ Range(waitq'[o]) \subseteq Thread
<1>1. WOK(waitq) /\ \A o \in Obj : Range(waitq[o]) \subseteq Thread
  BY InvQueues
<1>2. waitq \in [Obj -> Seq(Thread)] /\ \A o \in Obj : IsInjective(waitq[o])
  BY <1>1 DEF WOK
<1>3. Unlinked(Obj, UnlinkAll(waitq, u), waitq, u)
  BY <1>2, UnlinkAllProperties
<1> QED BY <1>1, <1>3 DEF Unlinked, WOK

(* rt_thread_exit. *)
LEMMA ExitStep ==
  ASSUME KernelInv, NEW t \in Thread, Exit(t)
  PROVE  KernelInv'
<1> USE KernelAssumption DEF KernelInv, Exit, MayBlock, InUser, Running, Goto, queueVars, threadVars, callVars
<1>a. /\ stat[t] = "READY" /\ t # Idle
      /\ \A v \in Thread : arg[v] # t
      /\ \A o \in Obj : t \notin Range(waitq[o])
      /\ timer[t] = 0 /\ t \notin due /\ t \notin Range(defunct)
  <2>1. stat[t] = "READY"
    BY DEF CurrentOK
  <2> QED BY <2>1, RunningThread
<1>b. \A x \in Thread \ {t} : stat'[x] = stat[x] /\ timer'[x] = timer[x] /\ pc'[x] = pc[x]
  BY DEF KernelTypeOK
<1>c. stat'[t] = "CLOSE" /\ pc'[t] = "sched"
  BY DEF KernelTypeOK
<1>d. QueuesConsistent' /\ QOK(ready', mask') /\ \A p \in Prio : Range(ready'[p]) = Range(ready[p]) \ {t}
  <2>1. \A x \in Thread : Deleting(x) => Deleting(x)'
    BY <1>b DEF Deleting
  <2>2. \A x \in Thread \ {t} : stat'[x] = stat[x] /\ (Deleting(x) => Deleting(x)')
    BY <1>b, <2>1
  <2>3. RemoveThread(t) /\ UNCHANGED prio /\ (stat'[t] = "READY" => Deleting(t)')
    BY <1>c
  <2> QED BY <2>2, <2>3, RemovedQueues
<1>e. /\ \A o \in Obj : Range(waitq[o]) \subseteq Thread \ {t}
      /\ Range(defunct) \subseteq Thread \ {t}
  BY <1>a, InvQueues
<1>f. /\ defunct' \in Seq(Thread) /\ IsInjective(defunct')
      /\ Range(defunct') \subseteq Range(defunct) \cup {t}
      /\ t \in Static => Range(defunct') = Range(defunct)
  <2>1. defunct \in Seq(Thread) /\ IsInjective(defunct)
    BY DEF KernelTypeOK, ListsConsistent
  <2>2. /\ <<t>> \o defunct \in Seq(Thread) /\ IsInjective(<<t>> \o defunct)
        /\ Range(<<t>> \o defunct) = Range(defunct) \cup {t}
    BY <1>a, <2>1, PrependRange
  <2> QED BY <2>1, <2>2
<1>1. KernelTypeOK'
  <2>1. ready' \in [Prio -> Seq(Thread)] /\ mask' \in SUBSET Prio /\ defunct' \in Seq(Thread)
    BY <1>d, <1>f DEF QOK
  <2>2. 0 \in 0 .. MaxTime
    OBVIOUS
  <2> HIDE DEF RemoveThread
  <2> QED BY <2>1, <2>2 DEF KernelTypeOK, Pc, Stat
<1>2. QueuesConsistent'
  BY <1>d
<1>3. ListsConsistent' /\ TimeoutFindsSuspended' /\ IdleOK' /\ DueOK' /\ DefunctOK'
  <2>1. ListsConsistent'
    BY <1>b, <1>c, <1>e, <1>f DEF ListsConsistent
  <2>2. TimeoutFindsSuspended'
    <3>1. timer'[t] = 0 /\ ~(0 > 0)
      BY DEF KernelTypeOK
    <3> QED BY <1>a, <1>b, <3>1 DEF TimeoutFindsSuspended
  <2> QED BY <1>a, <1>b, <1>c, <1>f, <2>1, <2>2 DEF IdleOK, DueOK, DefunctOK, KernelTypeOK
<1>4. ControlOK'
  <2> SUFFICES ASSUME NEW v \in Thread PROVE Control(v)'
    BY DEF ControlOK
  <2>1. Control(v) /\ Control(t)
    BY DEF ControlOK
  <2>2. pc[v] \in OpPc => arg[v] \in Thread /\ arg[v] # t
    BY <1>a, <2>1 DEF Control, KernelTypeOK, OpPc
  <2>3. pc'[v] = pc[v] \/ (pc'[v] \notin OpPc /\ pc[v] \notin OpPc)
    BY <1>b, <1>c DEF OpPc
  <2>4. arg[v] \in Thread \ {t} /\ Detached(arg[v]) => Detached(arg[v])'
    BY <1>b, <1>d DEF Detached
  <2> QED BY <1>b, <1>f, <2>1, <2>2, <2>3, <2>4 DEF Control, OpPc
<1>5. CurrentOK' /\ HeadRuns'
  BY <1>c DEF CurrentOK, HeadRuns
<1> QED BY <1>1, <1>2, <1>3, <1>4, <1>5

(* rt_thread_delete takes the thread out of the ready queue. *)
LEMMA DeleteStep ==
  ASSUME KernelInv, Guarded, NEW t \in Thread \ {Idle}, NEW u \in Thread, Delete(t, u)
  PROVE  KernelInv'
<1> USE KernelAssumption DEF KernelInv, Delete, MayControl, Begin, InUser, Running, Goto, queueVars, threadVars, callVars
<1>a. /\ u \notin {t, Idle} /\ timer[u] = 0 /\ nest > 0
      /\ \A v \in Thread : arg[v] # u
  OBVIOUS
<1>b. /\ arg'[t] = u /\ pc'[t] = "del1"
      /\ \A v \in Thread \ {t} : arg'[v] = arg[v] /\ pc'[v] = pc[v]
  BY DEF KernelTypeOK
<1>c. QueuesConsistent' /\ QOK(ready', mask') /\ \A p \in Prio : Range(ready'[p]) = Range(ready[p]) \ {u}
  <2>1. \A x \in Thread : Deleting(x) => Deleting(x)'
    BY <1>b DEF Deleting
  <2>2. Deleting(u)'
    BY <1>b DEF Deleting
  <2> QED BY <2>1, <2>2, RemovedQueues
<1>w. /\ WOK(waitq')
      /\ \A o \in Obj : /\ Range(waitq'[o]) = Range(waitq[o]) \ {u}
                       /\ Range(waitq'[o]) \subseteq Thread
      /\ Range(defunct) \subseteq Thread
  BY WaitRemoved, InvQueues
<1>1. KernelTypeOK'
  BY <1>c, <1>w DEF KernelTypeOK, Pc, QOK, WOK
<1>2. QueuesConsistent'
  BY <1>c
<1>3. ListsConsistent' /\ TimeoutFindsSuspended' /\ IdleOK' /\ DueOK' /\ DefunctOK'
  <2>1. ListsConsistent'
    BY <1>w DEF ListsConsistent, WOK
  <2> QED BY <1>b, <2>1 DEF TimeoutFindsSuspended, IdleOK, DueOK, DefunctOK
<1>4. ControlOK'
  <2> SUFFICES ASSUME NEW v \in Thread PROVE Control(v)'
    BY DEF ControlOK
  <2>1. Control(v) /\ Control(t)
    BY DEF ControlOK
  <2>2. Detached(u)'
    BY SMTT(60), <1>a, <1>c, <1>w DEF Detached
  <2>3. CASE v = t
    BY <1>a, <1>b, <2>1, <2>2, <2>3 DEF Control, OpPc, CurrentOK
  <2>4. CASE v # t
    <3>1. \A x \in Thread : Detached(x) => Detached(x)'
      BY <1>c, <1>w DEF Detached
    <3>2. pc[v] \in OpPc => arg[v] \in Thread
      BY <2>1 DEF Control, KernelTypeOK
    <3> QED BY <1>a, <1>b, <2>1, <2>4, <3>1, <3>2 DEF Control, OpPc
  <2> QED BY <2>3, <2>4
<1>5. CurrentOK' /\ HeadRuns'
  BY <1>a, <1>b DEF CurrentOK, HeadRuns
<1> QED BY <1>1, <1>2, <1>3, <1>4, <1>5

(* rt_thread_suspend takes the thread out of the ready queue. *)
LEMMA SuspendLockedStep ==
  ASSUME KernelInv, NEW t \in Thread, SuspendLocked(t)
  PROVE  KernelInv'
<1> USE KernelAssumption DEF KernelInv, SuspendLocked, At, Running, Goto, queueVars, threadVars, callVars
<1> DEFINE u == arg[t]
<1>a. /\ u \in Thread \ {t, Idle} /\ Control(t) /\ t # Idle /\ nest > 0
      /\ stat[u] = "READY" /\ \A v \in Thread \ {t} : arg[v] # u
  BY ZenonT(30) DEF ControlOK, Control, OpPc, KernelTypeOK, IdleOK
<1>b. /\ pc[t] = "suspend" /\ arg'[t] = NoThread /\ pc'[t] = "run"
      /\ \A v \in Thread \ {t} : arg'[v] = arg[v] /\ pc'[v] = pc[v]
  BY DEF KernelTypeOK
<1>c. /\ stat'[u] = "SUSPEND" /\ timer'[u] = 0
      /\ \A x \in Thread \ {u} : stat'[x] = stat[x] /\ timer'[x] = timer[x]
  BY <1>a DEF KernelTypeOK
<1>u. /\ RemoveThread(u) /\ waitq' = UnlinkAll(waitq, u)
      /\ stat' \in [Thread -> Stat] /\ timer' \in [Thread -> 0 .. MaxTime]
      /\ pc' \in [Thread -> Pc] /\ arg' \in [Thread -> Thread \cup {NoThread}]
      /\ UNCHANGED <<defunct, prio, err, slice, call, current, nest, due, lag>>
  <2>1. 0 \in 0 .. MaxTime
    OBVIOUS
  <2> QED BY <2>1 DEF KernelTypeOK, Pc, Stat
<1> HIDE DEF u, SuspendLocked
<1>d. QueuesConsistent' /\ QOK(ready', mask') /\ \A p \in Prio : Range(ready'[p]) = Range(ready[p]) \ {u}
  <2>1. \A x \in Thread : Deleting(x) => Deleting(x)'
    BY <1>b DEF Deleting
  <2> QED BY <1>a, <1>c, <1>u, <2>1, RemovedQueues
<1>w. /\ WOK(waitq')
      /\ \A o \in Obj : /\ Range(waitq'[o]) = Range(waitq[o]) \ {u}
                       /\ Range(waitq'[o]) \subseteq Thread
      /\ Range(defunct) \subseteq Thread
  BY <1>a, <1>u, WaitRemoved, InvQueues
<1>1. KernelTypeOK'
  BY <1>d, <1>u, <1>w DEF KernelTypeOK, QOK, WOK
<1>2. QueuesConsistent'
  BY <1>d
<1>3. ListsConsistent' /\ TimeoutFindsSuspended' /\ IdleOK' /\ DueOK' /\ DefunctOK'
  <2>1. ListsConsistent'
    <3>1. \A o \in Obj : \A x \in Range(waitq'[o]) : stat'[x] = "SUSPEND" /\ call'[x] = o
      BY <1>c, <1>u, <1>w DEF ListsConsistent
    <3>2. \A x \in Range(defunct) : stat'[x] = "CLOSE"
      BY <1>a, <1>c, <1>w DEF ListsConsistent
    <3> QED BY <1>u, <1>w, <3>1, <3>2 DEF ListsConsistent, WOK
  <2>2. TimeoutFindsSuspended'
    BY <1>a, <1>c, <1>u DEF TimeoutFindsSuspended
  <2> QED BY <1>a, <1>b, <1>c, <1>u, <2>1, <2>2 DEF IdleOK, DueOK, DefunctOK, KernelTypeOK
<1>4. ControlOK'
  <2> SUFFICES ASSUME NEW v \in Thread PROVE Control(v)'
    BY DEF ControlOK
  <2>1. Control(v) /\ Control(t)
    BY DEF ControlOK
  <2>3. CASE v = t
    BY <1>a, <1>b, <1>u, <2>1, <2>3 DEF Control, OpPc
  <2>4. CASE v # t
    <3>1. pc[v] \in OpPc => arg[v] \in Thread \ {u}
      BY <1>a, <2>1, <2>4 DEF Control, OpPc, KernelTypeOK
    <3>2. \A x \in Thread \ {u} : Detached(x) => Detached(x)'
      <4> SUFFICES ASSUME NEW x \in Thread \ {u}, Detached(x) PROVE Detached(x)'
        OBVIOUS
      <4>1. /\ \A p \in Prio : x \notin Range(ready'[p])
            /\ \A o \in Obj : x \notin Range(waitq'[o])
        BY <1>d, <1>w DEF Detached
      <4>2. timer'[x] = 0 /\ x \notin due'
        BY <1>c, <1>u DEF Detached
      <4> QED BY <4>1, <4>2 DEF Detached
    <3> QED BY <1>a, <1>b, <1>c, <1>u, <2>1, <2>4, <3>1, <3>2 DEF Control, OpPc
  <2> QED BY <2>3, <2>4
<1>5. CurrentOK' /\ HeadRuns'
  <2>1. current = t
    BY DEF SuspendLocked
  <2>2. stat[current] = "READY"
    BY <1>a DEF CurrentOK
  <2> QED BY <1>a, <1>b, <1>c, <1>u, <2>1, <2>2 DEF CurrentOK, HeadRuns, KernelTypeOK
<1> QED BY <1>1, <1>2, <1>3, <1>4, <1>5

(* rt_list_remove of a thread that is on no list changes no list. *)
LEMMA UnlinkDetached ==
  ASSUME KernelInv, NEW u \in Thread, Detached(u)
  PROVE  UnlinkAll(ready, u) = ready /\ UnlinkAll(waitq, u) = waitq
<1>1. /\ ready \in [Prio -> Seq(Thread)] /\ \A p \in Prio : IsInjective(ready[p])
      /\ waitq \in [Obj -> Seq(Thread)] /\ \A o \in Obj : IsInjective(waitq[o])
  BY InvQueues DEF QOK, WOK
<1>2. /\ Unlinked(Prio, UnlinkAll(ready, u), ready, u)
      /\ Unlinked(Obj, UnlinkAll(waitq, u), waitq, u)
  BY <1>1, UnlinkAllProperties
<1>3. /\ \A p \in Prio : u \notin Range(ready[p])
      /\ \A o \in Obj : u \notin Range(waitq[o])
  BY DEF Detached
<1>4. UnlinkAll(ready, u) \in [Prio -> Seq(Thread)] /\ \A p \in Prio : UnlinkAll(ready, u)[p] = ready[p]
  BY <1>2, <1>3 DEF Unlinked
<1>5. UnlinkAll(waitq, u) \in [Obj -> Seq(Thread)] /\ \A o \in Obj : UnlinkAll(waitq, u)[o] = waitq[o]
  BY <1>2, <1>3 DEF Unlinked
<1> HIDE DEF UnlinkAll
<1>6. UnlinkAll(ready, u) = ready
  BY <1>1, <1>4
<1>7. UnlinkAll(waitq, u) = waitq
  BY <1>1, <1>5
<1> QED BY <1>6, <1>7

(* rt_thread_resume takes the thread off its list and stops its timer. *)
LEMMA ResumeLockedStep ==
  ASSUME KernelInv, NEW t \in Thread, ResumeLocked(t)
  PROVE  KernelInv'
<1> USE KernelAssumption DEF KernelInv, ResumeLocked, At, Running, Goto, queueVars, threadVars, callVars
<1>a. /\ arg[t] \in Thread \ {t, Idle} /\ Detached(arg[t]) /\ t # Idle
      /\ pc[t] \in {"resume", "start"} /\ pc'[t] = (IF pc[t] = "resume" THEN "insert" ELSE "startins")
      /\ \A v \in Thread \ {t} : pc'[v] = pc[v]
  BY SMTT(60) DEF ControlOK, Control, OpPc, KernelTypeOK, IdleOK
<1>b. ready' = ready /\ waitq' = waitq
  BY <1>a, UnlinkDetached
<1>c. timer' = timer
  BY <1>a DEF Detached, KernelTypeOK
<1>d. /\ pc' \in [Thread -> Pc] /\ current = t
      /\ UNCHANGED <<mask, defunct, stat, prio, err, slice, call, arg, current, nest, due, lag>>
  BY DEF KernelTypeOK, Pc
<1> HIDE DEF ResumeLocked
<1>1. KernelTypeOK'
  BY <1>b, <1>c, <1>d DEF KernelTypeOK
<1>2. QueuesConsistent'
  <2>1. \A x \in Thread : Deleting(x) => Deleting(x)'
    BY <1>a, <1>d DEF Deleting
  <2> QED BY <1>b, <1>d, <2>1 DEF QueuesConsistent
<1>3. ListsConsistent' /\ TimeoutFindsSuspended' /\ IdleOK' /\ DueOK' /\ DefunctOK'
  BY <1>a, <1>b, <1>c, <1>d DEF ListsConsistent, TimeoutFindsSuspended, IdleOK, DueOK, DefunctOK
<1>4. ControlOK'
  <2> SUFFICES ASSUME NEW v \in Thread PROVE Control(v)'
    BY DEF ControlOK
  <2>1. Control(v) /\ Control(t)
    BY DEF ControlOK
  <2>2. \A x \in Thread : Detached(x) => Detached(x)'
    BY <1>b, <1>c, <1>d DEF Detached
  <2>3. CASE v = t
    BY <1>a, <1>d, <2>1, <2>2, <2>3 DEF Control, OpPc
  <2>4. CASE v # t
    <3>1. pc[v] \in OpPc => arg[v] \in Thread
      BY <2>1 DEF Control, KernelTypeOK
    <3> QED BY <1>a, <1>d, <2>1, <2>2, <2>4, <3>1 DEF Control, OpPc
  <2> QED BY <2>3, <2>4
<1>5. CurrentOK' /\ HeadRuns'
  BY <1>a, <1>b, <1>d DEF CurrentOK, HeadRuns
<1> QED BY <1>1, <1>2, <1>3, <1>4, <1>5

(* rt_thread_resume puts the thread into the ready queue. *)
LEMMA ResumeInsertStep ==
  ASSUME KernelInv, NEW t \in Thread, ResumeInsert(t)
  PROVE  KernelInv'
<1> USE KernelAssumption DEF KernelInv, ResumeInsert, At, Running, Goto, queueVars, threadVars, callVars
<1> DEFINE u == arg[t]
<1>a. /\ u \in Thread \ {t, Idle} /\ Control(t) /\ t # Idle /\ pc[t] \in {"insert", "startins"}
      /\ stat[u] = "SUSPEND" /\ Detached(u) /\ current = t
      /\ \A v \in Thread \ {t} : arg[v] # u
  BY SMTT(30) DEF ControlOK, Control, OpPc, KernelTypeOK, IdleOK
<1>b. /\ arg'[t] = NoThread /\ pc'[t] = (IF pc[t] = "insert" THEN "run" ELSE "sched")
      /\ \A v \in Thread \ {t} : arg'[v] = arg[v] /\ pc'[v] = pc[v]
  BY DEF KernelTypeOK
<1>c. stat'[u] = "READY" /\ \A x \in Thread \ {u} : stat'[x] = stat[x]
  BY <1>a DEF KernelTypeOK, InsertThread
<1>u. /\ InsertThread(u)
      /\ stat' \in [Thread -> Stat]
      /\ pc' \in [Thread -> Pc] /\ arg' \in [Thread -> Thread \cup {NoThread}]
      /\ lag' \in BOOLEAN /\ (pc[t] = "insert" => lag')
      /\ UNCHANGED <<waitq, defunct, prio, err, slice, timer, call, current, nest, due>>
  BY DEF KernelTypeOK, Pc, Stat, InsertThread
<1> HIDE DEF u, ResumeInsert
<1>d. /\ QueuesConsistent' /\ QOK(ready', mask')
      /\ \A p \in Prio : Range(ready'[p]) =
           IF p = prio[u] THEN Range(ready[p]) \cup {u} ELSE Range(ready[p])
  <2>1. \A x \in Thread : Deleting(x) => Deleting(x)'
    BY <1>a, <1>b DEF Deleting
  <2>2. /\ QOK(ready', mask')
        /\ \A p \in Prio : Range(ready'[p]) =
             IF p = prio[u] THEN Range(ready[p]) \cup {u} ELSE Range(ready[p])
    BY <1>a, <1>u, InvQueues, InsertThreadProperties DEF KernelTypeOK, Detached
  <2> QED BY <1>a, <1>c, <1>u, <2>1, <2>2, ReadiedQueues
<1>w. /\ \A o \in Obj : Range(waitq[o]) \subseteq Thread \ {u}
      /\ Range(defunct) \subseteq Thread \ {u}
  <2>1. u \notin Range(defunct)
    BY <1>a DEF ListsConsistent
  <2> QED BY <1>a, <2>1, InvQueues DEF Detached
<1>1. KernelTypeOK'
  BY <1>d, <1>u DEF KernelTypeOK, QOK
<1>2. QueuesConsistent'
  BY <1>d
<1>3. ListsConsistent' /\ TimeoutFindsSuspended' /\ IdleOK' /\ DueOK' /\ DefunctOK'
  <2>1. ListsConsistent'
    BY <1>c, <1>u, <1>w DEF ListsConsistent
  <2>2. TimeoutFindsSuspended'
    <3>1. timer[u] = 0 /\ u \notin due /\ ~(0 > 0)
      BY <1>a DEF Detached
    <3> QED BY <1>c, <1>u, <3>1 DEF TimeoutFindsSuspended
  <2> QED BY <1>a, <1>b, <1>c, <1>u, <2>1, <2>2 DEF IdleOK, DueOK, DefunctOK, KernelTypeOK
<1>4. ControlOK'
  <2> SUFFICES ASSUME NEW v \in Thread PROVE Control(v)'
    BY DEF ControlOK
  <2>1. Control(v) /\ Control(t)
    BY DEF ControlOK
  <2>3. CASE v = t
    BY <1>a, <1>b, <1>u, <2>1, <2>3 DEF Control, OpPc
  <2>4. CASE v # t
    <3>1. pc[v] \in OpPc => arg[v] \in Thread \ {u}
      BY <1>a, <2>1, <2>4 DEF Control, OpPc, KernelTypeOK
    <3>2. \A x \in Thread \ {u} : Detached(x) => Detached(x)'
      BY <1>d, <1>u DEF Detached
    <3> QED BY <1>a, <1>b, <1>c, <1>u, <2>1, <2>4, <3>1, <3>2 DEF Control, OpPc
  <2> QED BY <2>3, <2>4
<1>5. CurrentOK' /\ HeadRuns'
  <2>1. stat[current] = "READY" /\ current # u
    BY <1>a DEF CurrentOK
  <2>2. pc[t] = "insert" => lag'
    BY <1>u
  <2> QED BY <1>a, <1>b, <1>c, <1>u, <2>1, <2>2 DEF CurrentOK, HeadRuns, KernelTypeOK
<1> QED BY <1>1, <1>2, <1>3, <1>4, <1>5

(* rt_thread_yield. *)
LEMMA YieldStep ==
  ASSUME KernelInv, NEW t \in Thread \ {Idle}, Yield(t)
  PROVE  KernelInv'
<1> USE KernelAssumption DEF KernelInv, Yield, InUser, Running, Goto, queueVars, threadVars, callVars
<1>a. /\ t \in Range(ready[prio[t]]) /\ prio[t] \in mask /\ OwnQueueOnly(t)
      /\ QOK(ready, mask) /\ prio \in [Thread -> Prio]
  <2>1. t \in Range(ready[prio[t]])
    BY RunningThread
  <2>2. prio[t] \in Prio /\ ready[prio[t]] \in Seq(Thread) /\ prio \in [Thread -> Prio]
    BY DEF KernelTypeOK
  <2>3. ready[prio[t]] # <<>>
    BY <2>1, <2>2, HeadRange
  <2> QED BY <2>1, <2>2, <2>3, InvQueues DEF QueuesConsistent
<1>b. mask \cup {prio[t]} = mask
  BY <1>a
<1>c. /\ QOK(ready', mask')
      /\ \A p \in Prio : Range(ready'[p]) =
           IF p = prio[t] THEN Range(ready[p]) \cup {t} ELSE Range(ready[p])
  BY <1>a, <1>b, MakeReadyQueues
<1>d. /\ pc' \in [Thread -> Pc] /\ pc'[t] = "sched" /\ pc[t] = "run" /\ current = t /\ stat[t] = "READY"
      /\ \A v \in Thread \ {t} : pc'[v] = pc[v]
      /\ UNCHANGED <<mask, waitq, defunct, threadVars, call, arg, current, nest, due, lag>>
  BY DEF KernelTypeOK, Pc
<1> HIDE DEF Yield
<1>e. \A p \in Prio : Range(ready'[p]) = Range(ready[p])
  BY ZenonT(60), <1>a, <1>c
<1>1. KernelTypeOK'
  BY <1>c, <1>d DEF KernelTypeOK, QOK
<1>2. QueuesConsistent'
  <2>1. \A x \in Thread : Deleting(x) => Deleting(x)'
    BY <1>d DEF Deleting
  <2> QED BY <1>c, <1>d, <2>1, ReadiedQueues
<1>3. ListsConsistent' /\ TimeoutFindsSuspended' /\ IdleOK' /\ DueOK' /\ DefunctOK'
  BY <1>d DEF ListsConsistent, TimeoutFindsSuspended, IdleOK, DueOK, DefunctOK
<1>4. ControlOK'
  <2> SUFFICES ASSUME NEW v \in Thread PROVE Control(v)'
    BY DEF ControlOK
  <2>1. Control(v) /\ Control(t)
    BY DEF ControlOK
  <2>2. \A x \in Thread : Detached(x) => Detached(x)'
    BY <1>d, <1>e DEF Detached
  <2>3. CASE v = t
    BY <1>d, <2>1, <2>3 DEF Control, OpPc
  <2>4. CASE v # t
    <3>1. pc[v] \in OpPc => arg[v] \in Thread
      BY <2>1 DEF Control, KernelTypeOK
    <3> QED BY <1>d, <2>1, <2>2, <2>4, <3>1 DEF Control, OpPc
  <2> QED BY <2>3, <2>4
<1>5. CurrentOK' /\ HeadRuns'
  BY <1>d DEF CurrentOK, HeadRuns
<1> QED BY <1>1, <1>2, <1>3, <1>4, <1>5

(* What rt_schedule leaves behind, when the queues it sees are consistent  *)
(* and the idle thread is ready.                                           *)
LEMMA ScheduleEffect ==
  ASSUME QueuesConsistent', QOK(ready', mask'), prio' \in [Thread -> Prio],
         stat'[Idle] = "READY", ~Deleting(Idle)', current \in Thread, DoSchedule
  PROVE  /\ nest = 0 => /\ current' \in Thread /\ stat'[current'] = "READY"
                        /\ current' = Head(ready'[Min(mask')])
         /\ nest # 0 => current' = current
         /\ lag' \in BOOLEAN
<1> USE KernelAssumption
<1>1. Idle \in Range(ready'[prio'[Idle]]) /\ prio'[Idle] \in Prio
  BY DEF QueuesConsistent
<1>2. ready'[prio'[Idle]] # <<>>
  <2>1. ready'[prio'[Idle]] \in Seq(Thread)
    BY <1>1 DEF QOK
  <2> QED BY <1>1, <2>1, HeadRange
<1>3. /\ Min(mask') \in Prio
      /\ Head(ready'[Min(mask')]) \in Range(ready'[Min(mask')])
      /\ Head(ready'[Min(mask')]) \in Thread
  BY <1>1, <1>2, ScheduleProperties
<1>4. stat'[Head(ready'[Min(mask')])] = "READY"
  BY <1>3 DEF QueuesConsistent
<1>5. current' = (IF nest = 0 THEN Head(ready'[Min(mask')]) ELSE current) /\ lag' = (lag /\ nest # 0)
  BY DEF DoSchedule
<1>6. lag' \in BOOLEAN
  BY <1>5
<1> QED BY <1>3, <1>4, <1>5, <1>6

(* Nobody deletes the idle thread. *)
LEMMA IdleStays ==
  ASSUME KernelInv
  PROVE  ~Deleting(Idle)
BY KernelAssumption DEF KernelInv, ControlOK, Control, Deleting

(* rt_schedule. *)
LEMMA ScheduleStep ==
  ASSUME KernelInv, NEW t \in Thread, Schedule(t)
  PROVE  KernelInv'
<1> USE KernelAssumption DEF KernelInv, Schedule, At, Running, Goto, queueVars, threadVars, callVars
<1>a. /\ pc' \in [Thread -> Pc] /\ pc[t] = "sched" /\ current = t /\ t # Idle
      /\ pc'[t] \in {"dead", "run", "blocked"}
      /\ \A v \in Thread \ {t} : pc'[v] = pc[v]
      /\ UNCHANGED <<ready, mask, waitq, defunct, stat, prio, err, slice, timer, call, arg, nest, due>>
      /\ DoSchedule
  BY DEF KernelTypeOK, Pc, IdleOK
<1> HIDE DEF Schedule
<1>b. QueuesConsistent' /\ ~Deleting(Idle)' /\ QOK(ready', mask')
  <2>1. \A x \in Thread : Deleting(x) <=> Deleting(x)'
    BY <1>a DEF Deleting
  <2> QED BY <1>a, <2>1, IdleStays, InvQueues DEF QueuesConsistent, QOK
<1>c. /\ nest = 0 => /\ current' \in Thread /\ stat'[current'] = "READY"
                     /\ current' = Head(ready'[Min(mask')])
      /\ nest # 0 => current' = current
      /\ lag' \in BOOLEAN
  BY <1>a, <1>b, ScheduleEffect DEF KernelTypeOK, IdleOK
<1>1. KernelTypeOK'
  BY <1>a, <1>c DEF KernelTypeOK
<1>2. QueuesConsistent'
  BY <1>b
<1>3. ListsConsistent' /\ TimeoutFindsSuspended' /\ IdleOK' /\ DueOK' /\ DefunctOK'
  BY <1>a DEF ListsConsistent, TimeoutFindsSuspended, IdleOK, DueOK, DefunctOK
<1>4. ControlOK'
  <2> SUFFICES ASSUME NEW v \in Thread PROVE Control(v)'
    BY DEF ControlOK
  <2>1. Control(v)
    BY DEF ControlOK
  <2>2. \A x \in Thread : Detached(x) => Detached(x)'
    BY <1>a DEF Detached
  <2>3. CASE v = t
    BY <1>a, <2>1, <2>3 DEF Control, OpPc
  <2>4. CASE v # t
    <3>1. pc[v] \in OpPc => arg[v] \in Thread
      BY <2>1 DEF Control, KernelTypeOK
    <3>2. pc[v] \in OpPc \ {"start", "startins"} => nest > 0 /\ nest # 0
      BY <2>1 DEF Control, KernelTypeOK
    <3> QED BY <1>a, <1>c, <2>1, <2>2, <2>4, <3>1, <3>2 DEF Control, OpPc
  <2> QED BY <2>3, <2>4
<1>5. CurrentOK' /\ HeadRuns'
  <2>1. CASE nest = 0
    BY <1>a, <1>c, <2>1 DEF CurrentOK, HeadRuns
  <2>2. CASE nest # 0
    BY <1>a, <1>c, <2>2 DEF CurrentOK, HeadRuns
  <2> QED BY <2>1, <2>2
<1> QED BY <1>1, <1>2, <1>3, <1>4, <1>5

(* rt_tick_increase. *)
LEMMA TickStep ==
  ASSUME KernelInv, Tick
  PROVE  KernelInv'
<1> USE KernelAssumption DEF KernelInv, Tick, NextSlice, TimerAfterTick, IrqEnabled, Goto, queueVars, threadVars, callVars
<1> DEFINE c == current
           yields == slice[c] = 1 /\ stat[c] = "READY" /\ Len(ready[prio[c]]) > 1
<1>a. /\ due = {} /\ current \in Thread
      /\ UNCHANGED <<mask, waitq, defunct, stat, prio, err, pc, call, arg, nest>>
  BY DEF KernelTypeOK
<1>b. /\ timer' \in [Thread -> 0 .. MaxTime] /\ due' \in SUBSET Thread
      /\ \A x \in Thread : /\ timer'[x] > 0 \/ x \in due' => timer[x] > 0
                           /\ x \in due' => timer'[x] = 0
                           /\ timer[x] = 0 => timer'[x] = 0 /\ x \notin due'
  <2>1. \A x \in Thread : timer[x] \in 0 .. MaxTime
    BY DEF KernelTypeOK
  <2>2. \A x \in Thread : timer'[x] = IF timer[x] > 0 THEN timer[x] - 1 ELSE 0
    OBVIOUS
  <2>3. \A x \in Thread : x \in due' <=> timer[x] = 1
    OBVIOUS
  <2>4. timer' \in [Thread -> 0 .. MaxTime]
    <3>1. \A x \in Thread : (IF timer[x] > 0 THEN timer[x] - 1 ELSE 0) \in 0 .. MaxTime
      BY <2>1
    <3> QED BY <3>1
  <2> QED BY <2>1, <2>2, <2>3, <2>4
<1>c. slice' \in [Thread -> 1 .. InitTick]
  <2>1. slice[c] \in 1 .. InitTick
    BY DEF KernelTypeOK
  <2>2. (IF slice[c] = 1 THEN InitTick ELSE slice[c] - 1) \in 1 .. InitTick
    BY <2>1
  <2> QED BY <2>2 DEF KernelTypeOK
<1>y. \/ yields /\ ready' = Requeued(c, prio[c]) /\ DoSchedule
      \/ ~yields /\ UNCHANGED <<ready, current, lag>>
  OBVIOUS
<1> HIDE DEF c, yields, Tick
<1>d. /\ QOK(ready', mask')
      /\ \A p \in Prio : Range(ready'[p]) = Range(ready[p])
  <2>1. CASE ~yields
    BY <1>a, <1>y, <2>1, InvQueues
  <2>2. CASE yields
    <3>1. stat[c] = "READY" /\ c \in Thread /\ c = current
      BY <1>a, <2>2 DEF yields, c
    <3>2. c \in Range(ready[prio[c]])
      BY <3>1, RunningThread
    <3>3. prio[c] \in Prio /\ ready[prio[c]] \in Seq(Thread) /\ prio \in [Thread -> Prio]
      BY <3>1 DEF KernelTypeOK
    <3>4. ready[prio[c]] # <<>>
      BY <3>2, <3>3, HeadRange
    <3>5. mask \cup {prio[c]} = mask
      BY <3>3, <3>4 DEF QueuesConsistent
    <3>6. QOK(ready, mask) /\ OwnQueueOnly(c)
      BY <3>1, InvQueues
    <3>7. /\ QOK(Requeued(c, prio[c]), mask \cup {prio[c]})
          /\ \A p \in Prio : Range(Requeued(c, prio[c])[p]) =
               IF p = prio[c] THEN Range(ready[p]) \cup {c} ELSE Range(ready[p])
      BY <3>1, <3>3, <3>6, MakeReadyQueues
    <3> QED BY <1>a, <1>y, <2>2, <3>2, <3>5, <3>7
  <2> QED BY <2>1, <2>2
<1>e. QueuesConsistent' /\ ~Deleting(Idle)'
  <2>1. \A x \in Thread : Deleting(x) <=> Deleting(x)'
    BY <1>a DEF Deleting
  <2>2. \A x \in Thread : prio[x] \in Prio
    BY DEF KernelTypeOK
  <2> QED BY <1>a, <1>d, <2>1, <2>2, IdleStays DEF QueuesConsistent, QOK
<1>f. yields => /\ nest = 0 => /\ current' \in Thread /\ stat'[current'] = "READY"
                               /\ current' = Head(ready'[Min(mask')])
                /\ nest # 0 => current' = current
                /\ lag' \in BOOLEAN
  <2> SUFFICES ASSUME yields
               PROVE  /\ nest = 0 => /\ current' \in Thread /\ stat'[current'] = "READY"
                                     /\ current' = Head(ready'[Min(mask')])
                      /\ nest # 0 => current' = current
                      /\ lag' \in BOOLEAN
    OBVIOUS
  <2>1. prio' \in [Thread -> Prio] /\ stat'[Idle] = "READY" /\ DoSchedule
    BY <1>a, <1>y DEF KernelTypeOK, IdleOK
  <2> QED BY <1>a, <1>d, <1>e, <2>1, ScheduleEffect
<1>1. KernelTypeOK'
  <2>1. current' \in Thread /\ lag' \in BOOLEAN
    BY <1>a, <1>f, <1>y DEF KernelTypeOK
  <2> QED BY <1>a, <1>b, <1>c, <1>d, <2>1 DEF KernelTypeOK, QOK
<1>2. QueuesConsistent'
  BY <1>e
<1>3. ListsConsistent' /\ TimeoutFindsSuspended' /\ IdleOK' /\ DueOK' /\ DefunctOK'
  <2>1. ListsConsistent' /\ IdleOK' /\ DefunctOK'
    BY <1>a DEF ListsConsistent, IdleOK, DefunctOK
  <2>2. TimeoutFindsSuspended'
    BY <1>a, <1>b DEF TimeoutFindsSuspended
  <2>3. DueOK'
    BY <1>b DEF DueOK
  <2> QED BY <2>1, <2>2, <2>3
<1>4. ControlOK'
  <2> SUFFICES ASSUME NEW v \in Thread PROVE Control(v)'
    BY DEF ControlOK
  <2>1. Control(v)
    BY DEF ControlOK
  <2>2. \A x \in Thread : Detached(x) => Detached(x)'
    BY <1>a, <1>b, <1>d DEF Detached
  <2>3. pc[v] \in OpPc => arg[v] \in Thread
    BY <2>1 DEF Control, KernelTypeOK
  <2>4. pc[v] \in OpPc \ {"start", "startins"} => current' = v /\ nest > 0
    <3>1. pc[v] \in OpPc \ {"start", "startins"} => nest > 0 /\ nest # 0 /\ current = v
      BY <2>1 DEF Control, KernelTypeOK
    <3> QED BY <1>f, <1>y, <3>1
  <2> QED BY <1>a, <2>1, <2>2, <2>3, <2>4 DEF Control, OpPc
<1>5. CurrentOK' /\ HeadRuns'
  <2>1. CASE yields /\ nest = 0
    BY <1>a, <1>f, <2>1 DEF CurrentOK, HeadRuns
  <2>2. CASE yields /\ nest # 0
    BY <1>a, <1>f, <2>2 DEF CurrentOK, HeadRuns
  <2>3. CASE ~yields
    BY <1>a, <1>y, <2>3 DEF CurrentOK, HeadRuns
  <2> QED BY <2>1, <2>2, <2>3
<1> QED BY <1>1, <1>2, <1>3, <1>4, <1>5

(* rt_thread_timeout. *)
LEMMA TimeoutStep ==
  ASSUME KernelInv, NEW t \in Thread, Timeout(t)
  PROVE  KernelInv'
<1> USE KernelAssumption DEF KernelInv, Timeout, Goto, queueVars, threadVars, callVars, MakeReady
<1>a. /\ t \in due /\ stat[t] = "SUSPEND" /\ t # Idle /\ timer[t] = 0
      /\ \A v \in Thread : arg[v] # t
  <2>1. t \in due /\ stat[t] = "SUSPEND" /\ t # Idle /\ timer[t] = 0
    BY DEF TimeoutFindsSuspended, IdleOK, DueOK
  <2>2. \A v \in Thread : arg[v] # t
    <3> SUFFICES ASSUME NEW v \in Thread, arg[v] = t PROVE FALSE
      OBVIOUS
    <3>1. Control(v) /\ t # NoThread
      BY DEF ControlOK
    <3> QED BY <2>1, <3>1 DEF Control, OpPc, Detached
  <2> QED BY <2>1, <2>2
<1>b. /\ ready' = Requeued(t, prio[t]) /\ mask' = mask \cup {prio[t]}
      /\ waitq' = UnlinkAll(waitq, t) /\ due' = due \ {t}
      /\ stat' \in [Thread -> Stat] /\ err' \in [Thread -> {"EOK", "TIMEOUT", "ERROR"}]
      /\ stat'[t] = "READY" /\ \A x \in Thread \ {t} : stat'[x] = stat[x]
      /\ UNCHANGED <<defunct, prio, slice, timer, pc, call, arg, nest>>
      /\ DoSchedule
  BY DEF KernelTypeOK, Stat
<1> HIDE DEF Timeout
<1>w. /\ WOK(waitq')
      /\ \A o \in Obj : /\ Range(waitq'[o]) = Range(waitq[o]) \ {t}
                       /\ Range(waitq'[o]) \subseteq Thread
      /\ Range(defunct) \subseteq Thread
  BY <1>b, WaitRemoved, InvQueues
<1>c. /\ QueuesConsistent' /\ QOK(ready', mask')
      /\ \A p \in Prio : Range(ready'[p]) =
           IF p = prio[t] THEN Range(ready[p]) \cup {t} ELSE Range(ready[p])
  <2>1. \A x \in Thread : Deleting(x) => Deleting(x)'
    BY <1>b DEF Deleting
  <2>2. /\ QOK(ready', mask')
        /\ \A p \in Prio : Range(ready'[p]) =
             IF p = prio[t] THEN Range(ready[p]) \cup {t} ELSE Range(ready[p])
    BY <1>b, InvQueues, MakeReadyQueues DEF KernelTypeOK
  <2> QED BY <1>b, <2>1, <2>2, ReadiedQueues
<1>d. /\ nest = 0 => /\ current' \in Thread /\ stat'[current'] = "READY"
                     /\ current' = Head(ready'[Min(mask')])
      /\ nest # 0 => current' = current
      /\ lag' \in BOOLEAN
  <2>1. ~Deleting(Idle)'
    BY <1>b, IdleStays DEF Deleting
  <2> QED BY <1>a, <1>b, <1>c, <2>1, ScheduleEffect DEF KernelTypeOK, IdleOK
<1>1. KernelTypeOK'
  BY <1>b, <1>c, <1>d, <1>w DEF KernelTypeOK, QOK, WOK
<1>2. QueuesConsistent'
  BY <1>c
<1>3. ListsConsistent' /\ TimeoutFindsSuspended' /\ IdleOK' /\ DueOK' /\ DefunctOK'
  <2>1. ListsConsistent'
    <3>1. \A o \in Obj : \A x \in Range(waitq'[o]) : stat'[x] = "SUSPEND" /\ call'[x] = o
      BY <1>b, <1>w DEF ListsConsistent
    <3>2. \A x \in Range(defunct) : stat'[x] = "CLOSE"
      BY <1>a, <1>b, <1>w DEF ListsConsistent
    <3> QED BY <1>b, <1>w, <3>1, <3>2 DEF ListsConsistent, WOK
  <2>2. TimeoutFindsSuspended'
    BY <1>a, <1>b DEF TimeoutFindsSuspended
  <2> QED BY <1>a, <1>b, <2>1, <2>2 DEF IdleOK, DueOK, DefunctOK, KernelTypeOK
<1>4. ControlOK'
  <2> SUFFICES ASSUME NEW v \in Thread PROVE Control(v)'
    BY DEF ControlOK
  <2>1. Control(v)
    BY DEF ControlOK
  <2>2. \A x \in Thread \ {t} : Detached(x) => Detached(x)'
    BY ZenonT(30), <1>b, <1>c, <1>w DEF Detached
  <2>3. pc[v] \in OpPc => arg[v] \in Thread \ {t}
    BY <1>a, <2>1 DEF Control, KernelTypeOK
  <2>4. pc[v] \in OpPc \ {"start", "startins"} => current' = v /\ nest > 0
    <3>1. pc[v] \in OpPc \ {"start", "startins"} => nest > 0 /\ nest # 0 /\ current = v
      BY <2>1 DEF Control, KernelTypeOK
    <3> QED BY <1>d, <3>1
  <2> QED BY <1>b, <2>1, <2>2, <2>3, <2>4 DEF Control, OpPc
<1>5. CurrentOK' /\ HeadRuns'
  <2>1. CASE nest = 0
    BY <1>b, <1>d, <2>1 DEF CurrentOK, HeadRuns
  <2>2. CASE nest # 0
    <3>1. stat[current] = "READY" /\ current # t /\ current \in Thread
      BY <1>a, <2>2 DEF CurrentOK, KernelTypeOK
    <3> QED BY <1>b, <1>d, <2>2, <3>1 DEF CurrentOK, HeadRuns
  <2> QED BY <2>1, <2>2
<1> QED BY <1>1, <1>2, <1>3, <1>4, <1>5

(* rt_thread_control(RT_THREAD_CTRL_CHANGE_PRIORITY). *)
LEMMA ChangePriorityStep ==
  ASSUME KernelInv, Guarded, NEW t \in Thread, NEW u \in Thread, NEW p \in Prio, ChangePriority(t, u, p)
  PROVE  KernelInv'
<1> USE KernelAssumption DEF KernelInv, ChangePriority, InUser, Running, Goto, queueVars, threadVars, callVars
<1>a. /\ u # Idle /\ p \in Prio /\ \A v \in Thread : arg[v] # u
      /\ prio' \in [Thread -> Prio] /\ prio'[u] = p
      /\ \A x \in Thread \ {u} : prio'[x] = prio[x]
      /\ due = {} /\ UNCHANGED <<waitq, defunct, stat, err, slice, timer, pc, call, arg, current, nest, due>>
  BY DEF KernelTypeOK
<1>r. \/ stat[u] = "READY" /\ ready' = Requeued(u, p) /\ mask' = MaskWithout(u) \cup {p} /\ lag' = TRUE
      \/ stat[u] # "READY" /\ UNCHANGED <<ready, mask, lag>>
  OBVIOUS
<1> HIDE DEF ChangePriority
<1>b. /\ QOK(ready', mask')
      /\ stat[u] = "READY" => \A q \in Prio : Range(ready'[q]) =
           IF q = p THEN Range(ready[q]) \cup {u} ELSE Range(ready[q]) \ {u}
      /\ stat[u] # "READY" => \A q \in Prio : Range(ready'[q]) = Range(ready[q])
  <2>1. CASE stat[u] = "READY"
    <3>1. QOK(ready, mask) /\ prio \in [Thread -> Prio] /\ OwnQueueOnly(u)
      BY InvQueues DEF KernelTypeOK
    <3>2. /\ QOK(Requeued(u, p), MaskWithout(u) \cup {p})
          /\ \A q \in Prio : Range(Requeued(u, p)[q]) =
               IF q = p THEN Range(ready[q]) \cup {u} ELSE Range(ready[q]) \ {u}
      BY <1>a, <3>1, RequeuedProperties
    <3> QED BY <1>r, <2>1, <3>2
  <2>2. CASE stat[u] # "READY"
    BY <1>r, <2>2, InvQueues
  <2> QED BY <2>1, <2>2
<1>q. \A q \in Prio : Range(ready[q]) \subseteq Thread
  BY InvQueues
<1>1. KernelTypeOK'
  BY <1>a, <1>b, <1>r DEF KernelTypeOK, QOK
<1>2. QueuesConsistent'
  <2>1. \A x \in Thread : Deleting(x) <=> Deleting(x)'
    BY <1>a DEF Deleting
  <2>2. ASSUME NEW q \in Prio, NEW x \in Range(ready'[q])
        PROVE  stat'[x] = "READY" /\ prio'[x] = q
    <3>1. x \in Range(ready[q]) => x \in Thread /\ stat[x] = "READY" /\ prio[x] = q
      BY <1>q DEF QueuesConsistent
    <3>2. CASE stat[u] = "READY" /\ q = p
      <4>1. x \in Range(ready[q]) \cup {u}
        BY <1>b, <2>2, <3>2
      <4> QED BY <1>a, <3>1, <3>2, <4>1
    <3>3. CASE stat[u] = "READY" /\ q # p
      <4>1. x \in Range(ready[q]) \ {u}
        BY <1>b, <2>2, <3>3
      <4> QED BY <1>a, <3>1, <3>3, <4>1
    <3>4. CASE stat[u] # "READY"
      <4>1. x \in Range(ready[q])
        BY <1>b, <2>2, <3>4
      <4> QED BY <1>a, <3>1, <3>4, <4>1
    <3> QED BY <3>2, <3>3, <3>4
  <2>3. ASSUME NEW x \in Thread, stat'[x] = "READY"
        PROVE  x \in Range(ready'[prio'[x]]) \/ Deleting(x)'
    <3>1. x \in Range(ready[prio[x]]) \/ Deleting(x)
      BY <1>a, <2>3 DEF QueuesConsistent
    <3>2. prio[x] \in Prio /\ prio'[x] \in Prio
      BY <1>a DEF KernelTypeOK
    <3>3. CASE x = u
      BY <1>a, <1>b, <2>3, <3>2, <3>3
    <3>4. CASE x # u
      BY <1>a, <1>b, <2>1, <3>1, <3>2, <3>4
    <3> QED BY <3>3, <3>4
  <2> QED BY <1>b, <2>2, <2>3 DEF QueuesConsistent, QOK
<1>3. ListsConsistent' /\ TimeoutFindsSuspended' /\ IdleOK' /\ DueOK' /\ DefunctOK'
  <2>1. ListsConsistent' /\ DefunctOK'
    BY <1>a DEF ListsConsistent, DefunctOK
  <2>2. TimeoutFindsSuspended' /\ DueOK'
    BY <1>a DEF TimeoutFindsSuspended, DueOK
  <2>3. IdleOK'
    BY <1>a DEF IdleOK, KernelTypeOK
  <2> QED BY <2>1, <2>2, <2>3
<1>4. ControlOK'
  <2> SUFFICES ASSUME NEW v \in Thread PROVE Control(v)'
    BY DEF ControlOK
  <2>1. Control(v)
    BY DEF ControlOK
  <2>2. \A x \in Thread \ {u} : Detached(x) => Detached(x)'
    BY ZenonT(60), <1>a, <1>b DEF Detached
  <2>3. pc[v] \in OpPc => arg[v] \in Thread \ {u}
    BY <1>a, <2>1 DEF Control, KernelTypeOK
  <2> QED BY <1>a, <2>1, <2>2, <2>3 DEF Control, OpPc
<1>5. CurrentOK' /\ HeadRuns'
  BY <1>a, <1>r DEF CurrentOK, HeadRuns
<1> QED BY <1>1, <1>2, <1>3, <1>4, <1>5

(***************************************************************************)
(* The theorems.                                                           *)
(***************************************************************************)

(* The higher of two priorities. *)
LEMMA MinOfPair ==
  ASSUME NEW a \in Nat, NEW b \in Nat, a < b
  PROVE  Min({a, b}) = a
<1>1. {a, b} \subseteq Nat /\ {a, b} # {}
  OBVIOUS
<1>2. Min({a, b}) \in {a, b} /\ \A x \in {a, b} : Min({a, b}) <= x
  BY <1>1, MinProperties
<1> QED BY <1>2

(* The kernel starts with the invariant. *)
LEMMA InitInv == KernelInit => KernelInv
<1> SUFFICES ASSUME KernelInit PROVE KernelInv
  OBVIOUS
<1> USE KernelAssumption
<1> DEFINE hi == InitPrio[Main]  lo == InitPrio[Idle]
<1>1. /\ hi \in Prio /\ lo \in Prio /\ hi < lo /\ Main # Idle /\ MaxPrio - 1 = lo
      /\ hi \in Nat /\ lo \in Nat
  BY DEF Prio
<1>2. /\ ready = [p \in Prio |-> IF p = hi THEN <<Main>> ELSE IF p = lo THEN <<Idle>> ELSE <<>>]
      /\ mask = {hi, lo} /\ current = Main /\ nest = 0 /\ prio = InitPrio
      /\ stat = [t \in Thread |-> IF t \in {Main, Idle} THEN "READY" ELSE "INIT"]
      /\ err = [t \in Thread |-> "EOK"] /\ slice = [t \in Thread |-> InitTick]
      /\ timer = [t \in Thread |-> 0] /\ due = {}
      /\ waitq = [o \in Obj |-> <<>>] /\ defunct = <<>>
      /\ pc = [t \in Thread |-> "run"] /\ call = [t \in Thread |-> "none"]
      /\ arg = [t \in Thread |-> NoThread] /\ lag = FALSE
  BY DEF KernelInit
<1> HIDE DEF hi, lo
<1>3. /\ ready[hi] = <<Main>> /\ ready[lo] = <<Idle>>
      /\ \A p \in Prio \ {hi, lo} : ready[p] = <<>>
  BY <1>1, <1>2
<1>4. /\ Range(<<Main>>) = {Main} /\ IsInjective(<<Main>>)
      /\ Range(<<Idle>>) = {Idle} /\ IsInjective(<<Idle>>)
      /\ Range(<<>>) = {} /\ IsInjective(<<>>)
  BY DEF Range, IsInjective
<1>5. KernelTypeOK
  <2>1. \A p \in Prio : ready[p] \in Seq(Thread)
    <3>1. <<Main>> \in Seq(Thread) /\ <<Idle>> \in Seq(Thread) /\ <<>> \in Seq(Thread)
      OBVIOUS
    <3> QED BY <1>3, <3>1
  <2>2. ready \in [Prio -> Seq(Thread)]
    BY <1>2, <2>1
  <2>3. InitTick \in 1 .. InitTick /\ 0 \in 0 .. MaxTime /\ 0 \in 0 .. MaxNest
    OBVIOUS
  <2>4. /\ stat \in [Thread -> Stat] /\ err \in [Thread -> {"EOK", "TIMEOUT", "ERROR"}]
        /\ slice \in [Thread -> 1 .. InitTick] /\ timer \in [Thread -> 0 .. MaxTime]
    BY <1>2, <2>3 DEF Stat
  <2>5. /\ pc \in [Thread -> Pc] /\ arg \in [Thread -> Thread \cup {NoThread}]
        /\ call \in [Thread -> {"none", "sleep", "suspend"} \cup Obj]
        /\ waitq \in [Obj -> Seq(Thread)] /\ defunct \in Seq(Thread)
    BY <1>2 DEF Pc
  <2>6. /\ mask \in SUBSET Prio /\ current \in Thread /\ nest \in 0 .. MaxNest
        /\ due \in SUBSET Thread /\ prio \in [Thread -> Prio] /\ lag \in BOOLEAN
    BY <1>1, <1>2, <2>3
  <2> QED BY <2>2, <2>4, <2>5, <2>6 DEF KernelTypeOK
<1>6. QueuesConsistent
  <2>1. \A p \in Prio : IsInjective(ready[p]) /\ (p \in mask <=> ready[p] # <<>>)
    BY <1>1, <1>2, <1>3, <1>4
  <2>2. \A p \in Prio : \A t \in Range(ready[p]) : stat[t] = "READY" /\ prio[t] = p
    <3>1. stat[Main] = "READY" /\ stat[Idle] = "READY" /\ prio[Main] = hi /\ prio[Idle] = lo
      BY <1>2 DEF hi, lo
    <3> QED BY <1>3, <1>4, <3>1
  <2>3. \A t \in Thread : stat[t] = "READY" => t \in Range(ready[prio[t]])
    <3>1. \A t \in Thread : stat[t] = "READY" => t \in {Main, Idle}
      BY <1>2
    <3>2. prio[Main] = hi /\ prio[Idle] = lo
      BY <1>2 DEF hi, lo
    <3> QED BY <1>3, <1>4, <3>1, <3>2
  <2> QED BY <2>1, <2>2, <2>3 DEF QueuesConsistent
<1>7. ListsConsistent /\ TimeoutFindsSuspended /\ DueOK /\ DefunctOK
  BY <1>2, <1>4 DEF ListsConsistent, TimeoutFindsSuspended, DueOK, DefunctOK
<1>8. CurrentOK /\ IdleOK
  BY <1>1, <1>2 DEF CurrentOK, IdleOK, lo
<1>9. ControlOK
  BY <1>2 DEF ControlOK, Control, OpPc
<1>10. HeadRuns
  <2>1. Min(mask) = hi
    BY <1>1, <1>2, MinOfPair
  <2>2. Head(ready[hi]) = Main
    BY <1>3
  <2> QED BY <1>2, <2>1, <2>2 DEF HeadRuns
<1> QED BY <1>5, <1>6, <1>7, <1>8, <1>9, <1>10 DEF KernelInv

(* Every step of the kernel preserves the invariant. *)
LEMMA StepInv ==
  ASSUME KernelInv, Guarded, [KernelNext]_kernelVars
  PROVE  KernelInv'
<1>1. CASE UNCHANGED kernelVars
  <2> USE <1>1 DEF kernelVars, queueVars, threadVars, callVars, KernelInv
  <2>1. (KernelTypeOK /\ ListsConsistent /\ TimeoutFindsSuspended)'
    BY DEF KernelTypeOK, ListsConsistent, TimeoutFindsSuspended
  <2>2. QueuesConsistent'
    BY DEF QueuesConsistent, Deleting
  <2>3. ControlOK'
    BY DEF ControlOK, Control, Detached
  <2>4. (CurrentOK /\ IdleOK /\ DueOK /\ DefunctOK /\ HeadRuns)'
    BY DEF CurrentOK, IdleOK, DueOK, DefunctOK, HeadRuns
  <2> QED BY <2>1, <2>2, <2>3, <2>4
<1>2. ASSUME NEW t \in Thread, InCall(t) PROVE KernelInv'
  BY <1>2, ScheduleStep, ReturnStep, SuspendLockedStep, ResumeLockedStep, ResumeInsertStep,
     DeleteTimerStep, DeleteCloseStep, DeleteDefunctStep DEF InCall
<1>3. ASSUME NEW t \in Thread \ {Idle}, UserCall(t) PROVE KernelInv'
  <2>1. CASE \E n \in 1 .. MaxTime : Sleep(t, n)
    BY <2>1, SleepStep
  <2>2. CASE SuspendSelf(t) \/ Yield(t) \/ EnterCritical(t) \/ ExitCritical(t) \/ Exit(t)
    BY <2>2, SuspendSelfStep, YieldStep, EnterCriticalStep, ExitCriticalStep, ExitStep
  <2>3. ASSUME NEW u \in Thread,
               Suspend(t, u) \/ Resume(t, u) \/ Delete(t, u) \/ Create(t, u) \/ Startup(t, u)
        PROVE  KernelInv'
    BY <2>3, SuspendStep, ResumeStep, DeleteStep, CreateStep, StartupStep
  <2>4. ASSUME NEW u \in Thread, NEW p \in PrioChoices, ChangePriority(t, u, p)
        PROVE  KernelInv'
    <3>1. p \in Prio
      BY KernelAssumption
    <3> QED BY <2>4, <3>1, ChangePriorityStep
  <2> QED BY <1>3, <2>1, <2>2, <2>3, <2>4 DEF UserCall
<1>4. CASE IdleExcute
  BY <1>4, IdleExcuteStep
<1>5. CASE Interrupt
  BY <1>5, TickStep, TimeoutStep DEF Interrupt
<1> QED BY <1>1, <1>2, <1>3, <1>4, <1>5 DEF KernelNext, ThreadStep

(* The invariant holds of every kernel whose threads suspend, resume and   *)
(* delete each other only as Guarded says.                                 *)
THEOREM KernelInvariant == Guarded => (KernelSpec => []KernelInv)
<1> SUFFICES ASSUME Guarded PROVE KernelSpec => []KernelInv
  OBVIOUS
<1>1. KernelInit => KernelInv
  BY InitInv
<1>2. KernelInv /\ [KernelNext]_kernelVars => KernelInv'
  BY StepInv
<1> QED BY <1>1, <1>2, PTL DEF KernelSpec

(* Type correctness of src/scheduler.c and src/thread.c. *)
THEOREM TypeCorrect == Guarded => (KernelSpec => []KernelTypeOK)
<1>1. KernelInv => KernelTypeOK
  BY DEF KernelInv
<1> QED BY <1>1, KernelInvariant, PTL

(* The ready queues and the priority group rt_schedule relies on agree     *)
(* with the state of the threads, for every number of threads and levels.  *)
THEOREM QueuesStayConsistent == Guarded => (KernelSpec => []QueuesConsistent)
<1>1. KernelInv => QueuesConsistent
  BY DEF KernelInv
<1> QED BY <1>1, KernelInvariant, PTL

(* A suspended or closed thread is on the list it belongs to, once. *)
THEOREM ListsStayConsistent == Guarded => (KernelSpec => []ListsConsistent)
<1>1. KernelInv => ListsConsistent
  BY DEF KernelInv
<1> QED BY <1>1, KernelInvariant, PTL

(* The assertion of rt_thread_timeout never fails. *)
THEOREM TimeoutAssertion == Guarded => (KernelSpec => []TimeoutFindsSuspended)
<1>1. KernelInv => TimeoutFindsSuspended
  BY DEF KernelInv
<1> QED BY <1>1, KernelInvariant, PTL

(* A deleted thread is in no ready queue. *)
THEOREM DeletedIsGone == Guarded => (KernelSpec => []DeletedLeavesQueue)
<1>1. KernelInv => DeletedLeavesQueue
  BY DEF KernelInv, QueuesConsistent, DeletedLeavesQueue
<1> QED BY <1>1, KernelInvariant, PTL

(* With rt_schedule never left out, the head of the highest queue runs. *)
LEMMA HeadIsHighest ==
  ASSUME KernelInv
  PROVE  HighestRuns
<1> SUFFICES ASSUME nest = 0, pc[current] = "run", ~lag
             PROVE  /\ stat[current] = "READY"
                    /\ current = Head(ready[prio[current]])
                    /\ \A t \in Thread : stat[t] = "READY" /\ ~Deleting(t) => prio[current] <= prio[t]
  BY DEF HighestRuns
<1>1. stat[current] = "READY" /\ current \in Thread
  BY DEF KernelInv, CurrentOK, KernelTypeOK
<1>2. current = Head(ready[Min(mask)])
  BY DEF KernelInv, HeadRuns
<1>3. QOK(ready, mask) /\ MaxPrio \in Nat
  BY InvQueues, KernelAssumption
<1>4. \A t \in Thread : stat[t] = "READY" /\ ~Deleting(t) => prio[t] \in Prio /\ ready[prio[t]] # <<>>
  <2> SUFFICES ASSUME NEW t \in Thread, stat[t] = "READY", ~Deleting(t)
               PROVE  prio[t] \in Prio /\ ready[prio[t]] # <<>>
    OBVIOUS
  <2>1. prio[t] \in Prio /\ t \in Range(ready[prio[t]]) /\ ready[prio[t]] \in Seq(Thread)
    BY DEF KernelInv, QueuesConsistent, KernelTypeOK
  <2> QED BY <2>1, HeadRange
<1>5. prio[current] \in Prio /\ ready[prio[current]] # <<>>
  <2>1. current \in Range(ready[prio[current]]) /\ prio[current] \in Prio
    BY <1>1, RunningThread DEF KernelInv, KernelTypeOK
  <2>2. ready[prio[current]] \in Seq(Thread)
    BY <2>1 DEF KernelInv, KernelTypeOK
  <2> QED BY <2>1, <2>2, HeadRange
<1>6. /\ Min(mask) \in Prio /\ \A q \in mask : Min(mask) <= q
      /\ current \in Range(ready[Min(mask)])
  BY <1>2, <1>3, <1>5, ScheduleProperties
<1>7. prio[current] = Min(mask)
  BY <1>6 DEF KernelInv, QueuesConsistent
<1>8. \A t \in Thread : stat[t] = "READY" /\ ~Deleting(t) => prio[t] \in mask
  BY <1>3, <1>4 DEF QOK
<1> QED BY <1>1, <1>2, <1>6, <1>7, <1>8

(* Preemptive scheduling: with no interrupt pending and the scheduler      *)
(* unlocked, the thread that runs has the highest priority of all that are *)
(* ready and is the first of its queue.                                    *)
THEOREM HighestPriorityRuns == Guarded => (KernelSpec => []HighestRuns)
<1>1. KernelInv => HighestRuns
  BY HeadIsHighest
<1> QED BY <1>1, KernelInvariant, PTL
(***************************************************************************)
(* The second part: the IPC objects.                                       *)
(***************************************************************************)

Call == {"none", "sleep", "suspend"} \cup Obj
Err  == {"EOK", "TIMEOUT", "ERROR"}

(***************************************************************************)
(* Wait lists.                                                             *)
(***************************************************************************)

(* InsertAt leaves the other elements in their order. *)
LEMMA InsertAtIndex ==
  ASSUME NEW S, NEW q \in Seq(S), NEW e \in S, NEW i \in 1 .. Len(q)
  PROVE  /\ InsertAt(q, i, e) \in Seq(S)
         /\ Len(InsertAt(q, i, e)) = Len(q) + 1
         /\ \A j \in 1 .. Len(q) + 1 :
              InsertAt(q, i, e)[j] = IF j < i THEN q[j] ELSE IF j = i THEN e ELSE q[j - 1]
<1> DEFINE a == SubSeq(q, 1, i - 1)  b == SubSeq(q, i, Len(q))  m == a \o <<e>>
<1>1. Len(q) \in Nat /\ i \in Nat \ {0} /\ i <= Len(q)
  OBVIOUS
<1>2. \A j \in 1 .. Len(q) : q[j] \in S
  BY ElementOfSeq
<1>3. /\ a \in Seq(S) /\ Len(a) = i - 1
      /\ \A j \in 1 .. i - 1 : a[j] = q[j]
  BY <1>1, <1>2, SubSeqProperties
<1>4. /\ b \in Seq(S) /\ Len(b) = Len(q) - i + 1
      /\ \A j \in 1 .. Len(q) - i + 1 : b[j] = q[i + j - 1]
  BY <1>1, <1>2, SubSeqProperties
<1>r. InsertAt(q, i, e) = m \o b
  BY DEF InsertAt
<1> HIDE DEF a, b
<1>e. <<e>> \in Seq(S) /\ Len(<<e>>) = 1 /\ <<e>>[1] = e
  OBVIOUS
<1>5. /\ m \in Seq(S) /\ Len(m) = i
      /\ \A j \in 1 .. i : m[j] = IF j < i THEN q[j] ELSE e
  <2>1. /\ m \in Seq(S) /\ Len(m) = Len(a) + 1
        /\ \A j \in 1 .. Len(a) + 1 : m[j] = IF j <= Len(a) THEN a[j] ELSE <<e>>[j - Len(a)]
    BY <1>3, <1>e, ConcatProperties
  <2>2. ASSUME NEW j \in 1 .. i PROVE m[j] = IF j < i THEN q[j] ELSE e
    <3>1. CASE j < i
      BY <1>1, <1>3, <2>1, <3>1
    <3>2. CASE ~(j < i)
      <4>1. j = i /\ j - Len(a) = 1 /\ ~(j <= Len(a)) /\ j \in 1 .. Len(a) + 1
        BY <1>1, <1>3, <3>2
      <4> QED BY <1>e, <2>1, <3>2, <4>1
    <3> QED BY <3>1, <3>2
  <2> QED BY <1>1, <1>3, <2>1, <2>2
<1> HIDE DEF m
<1>6. /\ m \o b \in Seq(S) /\ Len(m \o b) = Len(m) + Len(b)
      /\ \A j \in 1 .. Len(m) + Len(b) : (m \o b)[j] = IF j <= Len(m) THEN m[j] ELSE b[j - Len(m)]
  BY <1>4, <1>5, ConcatProperties
<1>7. ASSUME NEW j \in 1 .. Len(q) + 1
      PROVE  (m \o b)[j] = IF j < i THEN q[j] ELSE IF j = i THEN e ELSE q[j - 1]
  <2>1. CASE j <= i
    BY <1>1, <1>4, <1>5, <1>6, <2>1
  <2>2. CASE ~(j <= i)
    <3>1. j - i \in 1 .. Len(q) - i + 1 /\ i + (j - i) - 1 = j - 1
      BY <1>1, <2>2
    <3>2. (m \o b)[j] = b[j - i]
      BY <1>1, <1>4, <1>5, <1>6, <2>2
    <3> QED BY SMTT(60), <1>4, <2>2, <3>1, <3>2
  <2> QED BY <2>1, <2>2
<1> QED BY <1>r, <1>1, <1>4, <1>5, <1>6, <1>7

(* So the list has its threads and the new one, each once. *)
LEMMA InsertAtRange ==
  ASSUME NEW S, NEW q \in Seq(S), IsInjective(q), NEW e \in S, e \notin Range(q),
         NEW i \in 1 .. Len(q)
  PROVE  /\ InsertAt(q, i, e) \in Seq(S) /\ IsInjective(InsertAt(q, i, e))
         /\ Range(InsertAt(q, i, e)) = Range(q) \cup {e}
<1> DEFINE r == InsertAt(q, i, e)
<1>1. /\ r \in Seq(S) /\ Len(r) = Len(q) + 1
      /\ \A j \in 1 .. Len(q) + 1 : r[j] = IF j < i THEN q[j] ELSE IF j = i THEN e ELSE q[j - 1]
  BY InsertAtIndex
<1> HIDE DEF r
<1>2. DOMAIN q = 1 .. Len(q) /\ Len(q) \in Nat /\ DOMAIN r = 1 .. Len(q) + 1
  BY <1>1
<1>3. \A j \in 1 .. Len(q) : q[j] # e /\ q[j] \in Range(q)
  BY <1>2 DEF Range
<1>4. IsInjective(r)
  <2> SUFFICES ASSUME NEW j \in 1 .. Len(q) + 1, NEW k \in 1 .. Len(q) + 1, r[j] = r[k]
               PROVE  j = k
    BY <1>2 DEF IsInjective
  <2>1. \A x, y \in 1 .. Len(q) : q[x] = q[y] => x = y
    BY <1>2 DEF IsInjective
  <2>2. ASSUME NEW x \in 1 .. Len(q) + 1, x # i
        PROVE  /\ (IF x < i THEN x ELSE x - 1) \in 1 .. Len(q)
               /\ r[x] = q[IF x < i THEN x ELSE x - 1]
    BY <1>1, <1>2, <2>2
  <2>3. CASE j = i \/ k = i
    <3>1. r[i] = e /\ \A x \in 1 .. Len(q) + 1 : x # i => r[x] # e
      BY <1>1, <1>2, <1>3, <2>2
    <3> QED BY <2>3, <3>1
  <2>4. CASE j # i /\ k # i
    <3>1. (IF j < i THEN j ELSE j - 1) = (IF k < i THEN k ELSE k - 1)
      BY <2>1, <2>2, <2>4
    <3> QED BY <2>4, <3>1
  <2> QED BY <2>3, <2>4
<1>5. Range(r) \subseteq Range(q) \cup {e}
  <2> SUFFICES ASSUME NEW j \in 1 .. Len(q) + 1 PROVE r[j] \in Range(q) \cup {e}
    BY <1>2 DEF Range
  <2>1. CASE j < i
    <3>1. j \in 1 .. Len(q) /\ r[j] = q[j]
      BY <1>1, <1>2, <2>1
    <3> QED BY <1>3, <3>1
  <2>2. CASE j = i
    BY <1>1, <2>2
  <2>3. CASE j > i
    <3>1. j - 1 \in 1 .. Len(q) /\ r[j] = q[j - 1]
      BY <1>1, <1>2, <2>3
    <3> QED BY <1>3, <3>1
  <2> QED BY <1>2, <2>1, <2>2, <2>3
<1>6. e \in Range(r)
  <2>1. i \in 1 .. Len(q) + 1 /\ r[i] = e
    BY <1>1, <1>2
  <2> QED BY <1>2, <2>1 DEF Range
<1>7. ASSUME NEW j \in 1 .. Len(q) PROVE q[j] \in Range(r)
  <2>1. CASE j < i
    <3>1. j \in 1 .. Len(q) + 1 /\ r[j] = q[j]
      BY <1>1, <1>2, <2>1
    <3> QED BY <1>2, <3>1 DEF Range
  <2>2. CASE ~(j < i)
    <3>1. j + 1 \in 1 .. Len(q) + 1 /\ r[j + 1] = q[j]
      BY <1>1, <1>2, <2>2
    <3> QED BY <1>2, <3>1 DEF Range
  <2> QED BY <2>1, <2>2
<1>8. Range(q) \subseteq Range(r)
  BY <1>2, <1>7 DEF Range
<1> QED BY <1>1, <1>4, <1>5, <1>6, <1>8 DEF r

(* rt_ipc_list_suspend puts the thread on the list once, FIFO or PRIO. *)
LEMMA WaitInsertRange ==
  ASSUME NEW q \in Seq(Thread), IsInjective(q), NEW t \in Thread, t \notin Range(q), NEW flag
  PROVE  /\ WaitInsert(q, t, flag) \in Seq(Thread) /\ IsInjective(WaitInsert(q, t, flag))
         /\ Range(WaitInsert(q, t, flag)) = Range(q) \cup {t}
<1> DEFINE lower == {i \in DOMAIN q : prio[t] < prio[q[i]]}
<1>1. CASE flag = "PRIO" /\ lower # {}
  <2>1. lower \subseteq 1 .. Len(q) /\ lower \subseteq Nat
    OBVIOUS
  <2>2. Min(lower) \in 1 .. Len(q)
    BY <1>1, <2>1, MinProperties
  <2>3. WaitInsert(q, t, flag) = InsertAt(q, Min(lower), t)
    BY <1>1 DEF WaitInsert
  <2> HIDE DEF lower
  <2> QED BY <2>2, <2>3, InsertAtRange
<1>2. CASE ~(flag = "PRIO" /\ lower # {})
  <2>1. WaitInsert(q, t, flag) = Append(q, t)
    BY <1>2 DEF WaitInsert
  <2> QED BY <2>1, AppendRange
<1> QED BY <1>1, <1>2

(***************************************************************************)
(* Steps of IPC objects keep the kernel's invariant.                       *)
(***************************************************************************)

(* A step in which the running thread moves on inside a function of an IPC *)
(* object and no thread changes its list; it may lock the scheduler, or    *)
(* unlock it and call rt_schedule.                                         *)
LEMMA PlaceLockStep ==
  ASSUME KernelInv, NEW t \in Thread, t # Idle, current = t,
         pc[t] \notin OpPc \cup {"sched"},
         NEW l \in Pc \ OpPc, pc[t] = "reset" => l \in {"sched", "reset"},
         pc' = [pc EXCEPT ![t] = l],
         call' \in [Thread -> Call], \A v \in Thread \ {t} : call'[v] = call[v],
         err' \in [Thread -> Err],
         nest' \in 0 .. MaxNest, nest' = nest \/ nest' # 0 \/ l \in {"sched", "reset"},
         UNCHANGED <<queueVars, stat, prio, slice, timer, arg, current, due, lag>>
  PROVE  KernelInv'
<1> USE KernelAssumption DEF KernelInv, queueVars
<1>a. pc' \in [Thread -> Pc] /\ pc'[t] = l /\ \A v \in Thread \ {t} : pc'[v] = pc[v]
  BY DEF KernelTypeOK
<1>b. stat[t] = "READY" /\ \A o \in Obj : t \notin Range(waitq[o])
  BY RunningThread DEF CurrentOK
<1>1. KernelTypeOK'
  BY <1>a DEF KernelTypeOK, Call, Err
<1>2. QueuesConsistent'
  <2>1. \A x \in Thread : Deleting(x) <=> Deleting(x)'
    BY <1>a DEF Deleting, OpPc
  <2> QED BY <2>1 DEF QueuesConsistent
<1>3. ListsConsistent'
  <2>1. \A o \in Obj : Range(waitq[o]) \subseteq Thread \ {t}
    BY <1>b, InvQueues
  <2> QED BY <2>1 DEF ListsConsistent
<1>4. TimeoutFindsSuspended' /\ IdleOK' /\ DueOK' /\ DefunctOK'
  BY <1>a DEF TimeoutFindsSuspended, IdleOK, DueOK, DefunctOK
<1>5. ControlOK'
  <2> SUFFICES ASSUME NEW v \in Thread PROVE Control(v)'
    BY DEF ControlOK
  <2>1. Control(v)
    BY DEF ControlOK
  <2>2. \A x \in Thread : Detached(x) <=> Detached(x)'
    BY DEF Detached
  <2>3. pc[v] \in OpPc => arg[v] \in Thread
    BY <2>1 DEF Control, KernelTypeOK
  <2>4. (pc'[v] = pc[v] \/ (pc'[v] \notin OpPc /\ pc[v] \notin OpPc))
    BY <1>a
  <2>5. pc[v] \notin OpPc \ {"start", "startins"}
    BY <2>1 DEF Control
  <2> QED BY <2>1, <2>2, <2>3, <2>4, <2>5 DEF Control, OpPc
<1>6. CurrentOK' /\ HeadRuns'
  BY <1>a, <1>b DEF CurrentOK, HeadRuns
<1> QED BY <1>1, <1>2, <1>3, <1>4, <1>5, <1>6

LEMMA PlaceStep ==
  ASSUME KernelInv, NEW t \in Thread, t # Idle, current = t,
         pc[t] \notin OpPc \cup {"sched"},
         NEW l \in Pc \ OpPc, pc[t] = "reset" => l \in {"sched", "reset"},
         pc' = [pc EXCEPT ![t] = l],
         call' \in [Thread -> Call], \A v \in Thread \ {t} : call'[v] = call[v],
         err' \in [Thread -> Err],
         UNCHANGED <<queueVars, stat, prio, slice, timer, arg, current, nest, due, lag>>
  PROVE  KernelInv'
<1>1. nest' \in 0 .. MaxNest /\ nest' = nest
  BY DEF KernelInv, KernelTypeOK
<1>2. UNCHANGED <<queueVars, stat, prio, slice, timer, arg, current, due, lag>>
  OBVIOUS
<1> QED BY <1>1, <1>2, PlaceLockStep

(* No thread that is in no ready queue is put on one. *)
JoinNone(r) ==
  \A x \in Thread : (\A p \in Prio : x \notin Range(ready[p])) =>
                    \A p \in Prio : x \notin Range(r[p])

(* A woken thread that has to wait again. *)
MayRejoin(t) == Running(t) /\ pc[t] = "blocked" /\ t # Idle /\ nest = 0

(* A call that waits on an IPC object, whose wait list becomes q: its      *)
(* caller leaves the ready queue; priorities may change, if the queues     *)
(* stay consistent.                                                        *)
LEMMA LendingJoinStep ==
  ASSUME KernelInv, NEW t \in Thread, NEW o \in Obj, NEW n \in 0 .. MaxTime,
         MayBlock(t) \/ MayRejoin(t),
         QueuesConsistent', QOK(ready', mask'), JoinNone(ready'),
         prio' \in [Thread -> Prio], prio'[Idle] = prio[Idle],
         stat' = [stat EXCEPT ![t] = "SUSPEND"], timer' = [timer EXCEPT ![t] = n],
         NEW q \in Seq(Thread), IsInjective(q), Range(q) = Range(waitq[o]) \cup {t},
         waitq' = [waitq EXCEPT ![o] = q],
         err' = [err EXCEPT ![t] = "EOK"], call' = [call EXCEPT ![t] = o], Goto(t, "sched"),
         UNCHANGED <<slice, arg, defunct, current, nest, due, lag>>
  PROVE  KernelInv'
<1> USE KernelAssumption DEF KernelInv, MayBlock, MayRejoin, InUser, Running, Goto, queueVars, threadVars, callVars
<1>a. /\ stat[t] = "READY" /\ t # Idle
      /\ \A v \in Thread : arg[v] # t
      /\ \A x \in Obj : t \notin Range(waitq[x])
      /\ timer[t] = 0 /\ t \notin due /\ t \notin Range(defunct)
  <2>1. stat[t] = "READY"
    BY DEF CurrentOK
  <2> QED BY <2>1, RunningThread
<1>b. \A x \in Thread \ {t} : stat'[x] = stat[x] /\ timer'[x] = timer[x] /\ pc'[x] = pc[x] /\ call'[x] = call[x]
  BY DEF KernelTypeOK
<1>c. stat'[t] = "SUSPEND" /\ pc'[t] = "sched" /\ call'[t] = o
  BY DEF KernelTypeOK
<1>w. /\ waitq' \in [Obj -> Seq(Thread)]
      /\ \A x \in Obj : IsInjective(waitq'[x])
      /\ \A x \in Obj : Range(waitq'[x]) = IF x = o THEN Range(waitq[o]) \cup {t} ELSE Range(waitq[x])
  <2>1. waitq \in [Obj -> Seq(Thread)] /\ \A x \in Obj : IsInjective(waitq[x])
    BY DEF KernelTypeOK, ListsConsistent
  <2> QED BY <2>1
<1>e. /\ \A x \in Obj : Range(waitq[x]) \subseteq Thread \ {t}
      /\ Range(defunct) \subseteq Thread \ {t}
  BY <1>a, InvQueues
<1>1. KernelTypeOK'
  BY <1>w DEF KernelTypeOK, Pc, Stat, QOK
<1>3. ListsConsistent'
  <2>1. ASSUME NEW x \in Obj, NEW v \in Range(waitq'[x])
        PROVE  stat'[v] = "SUSPEND" /\ call'[v] = x
    <3>1. CASE v = t
      BY <1>c, <1>e, <1>w, <3>1
    <3>2. CASE v # t
      <4>1. v \in Range(waitq[x]) /\ v \in Thread
        BY <1>e, <1>w, <3>2
      <4> QED BY <1>b, <3>2, <4>1 DEF ListsConsistent
    <3> QED BY <3>1, <3>2
  <2> QED BY <1>b, <1>e, <1>w, <2>1 DEF ListsConsistent
<1>4. TimeoutFindsSuspended' /\ IdleOK' /\ DueOK' /\ DefunctOK'
  BY ZenonT(60), <1>a, <1>b, <1>c DEF TimeoutFindsSuspended, IdleOK, DueOK, DefunctOK, KernelTypeOK
<1>5. ControlOK'
  <2> SUFFICES ASSUME NEW v \in Thread PROVE Control(v)'
    BY DEF ControlOK
  <2>1. Control(v)
    BY DEF ControlOK
  <2>2. pc[v] \in OpPc => arg[v] \in Thread /\ arg[v] # t
    BY <1>a, <2>1 DEF Control, KernelTypeOK, OpPc
  <2>3. pc'[v] = pc[v] \/ (pc'[v] \notin OpPc /\ pc[v] \notin OpPc)
    <3>1. CASE v = t
      BY <1>c, <3>1 DEF OpPc
    <3>2. CASE v # t
      BY <1>b, <3>2
    <3> QED BY <3>1, <3>2
  <2>4. ASSUME NEW x \in Thread \ {t}, Detached(x) PROVE Detached(x)'
    <3>1. \A p \in Prio : x \notin Range(ready'[p])
      BY <2>4 DEF Detached, JoinNone
    <3>2. \A y \in Obj : x \notin Range(waitq'[y])
      BY <1>w, <2>4 DEF Detached
    <3>3. timer'[x] = 0 /\ x \notin due'
      BY <1>b, <2>4 DEF Detached
    <3> QED BY <3>1, <3>2, <3>3 DEF Detached
  <2> QED BY <1>b, <2>1, <2>2, <2>3, <2>4 DEF Control, OpPc
<1>6. CurrentOK' /\ HeadRuns'
  BY <1>c DEF CurrentOK, HeadRuns
<1> QED BY <1>1, <1>3, <1>4, <1>5, <1>6

(* The running thread is on no wait list until rt_ipc_list_suspend.        *)
LEMMA JoinedList ==
  ASSUME KernelInv, NEW t \in Thread, NEW o \in Obj, NEW flag, MayBlock(t) \/ MayRejoin(t)
  PROVE  /\ WaitInsert(waitq[o], t, flag) \in Seq(Thread) /\ IsInjective(WaitInsert(waitq[o], t, flag))
         /\ Range(WaitInsert(waitq[o], t, flag)) = Range(waitq[o]) \cup {t}
<1>1. t \notin Range(waitq[o])
  <2>1. stat[t] = "READY"
    BY DEF KernelInv, CurrentOK, MayBlock, MayRejoin, InUser, Running
  <2> QED BY <2>1 DEF KernelInv, ListsConsistent
<1> QED BY <1>1, WaitInsertRange DEF KernelInv, KernelTypeOK, ListsConsistent

(* The same, on the list of rt_ipc_list_suspend. *)
LEMMA LendingBlockStep ==
  ASSUME KernelInv, NEW t \in Thread, NEW o \in Obj, NEW flag, NEW n \in 0 .. MaxTime,
         MayBlock(t) \/ MayRejoin(t),
         QueuesConsistent', QOK(ready', mask'), JoinNone(ready'),
         prio' \in [Thread -> Prio], prio'[Idle] = prio[Idle],
         stat' = [stat EXCEPT ![t] = "SUSPEND"], timer' = [timer EXCEPT ![t] = n],
         waitq' = [waitq EXCEPT ![o] = WaitInsert(waitq[o], t, flag)],
         err' = [err EXCEPT ![t] = "EOK"], call' = [call EXCEPT ![t] = o], Goto(t, "sched"),
         UNCHANGED <<slice, arg, defunct, current, nest, due, lag>>
  PROVE  KernelInv'
<1> DEFINE q == WaitInsert(waitq[o], t, flag)
<1>1. q \in Seq(Thread) /\ IsInjective(q) /\ Range(q) = Range(waitq[o]) \cup {t}
  BY JoinedList
<1> HIDE DEF q
<1> QED BY <1>1, LendingJoinStep DEF q

(* The plain call, in which no priority changes. *)
LEMMA JoinStep ==
  ASSUME KernelInv, NEW t \in Thread, NEW o \in Obj, NEW n \in 0 .. MaxTime,
         MayBlock(t) \/ MayRejoin(t), SuspendFor(t, o, n), err' = [err EXCEPT ![t] = "EOK"],
         NEW q \in Seq(Thread), IsInjective(q), Range(q) = Range(waitq[o]) \cup {t},
         waitq' = [waitq EXCEPT ![o] = q]
  PROVE  KernelInv'
<1> USE DEF KernelInv, SuspendFor, Goto
<1>1. \A x \in Thread : pc'[x] = IF x = t THEN "sched" ELSE pc[x]
  BY DEF KernelTypeOK
<1>2. pc[t] \in {"run", "blocked"}
  BY DEF MayBlock, MayRejoin, InUser
<1>3. \A x \in Thread : Deleting(x) => Deleting(x)'
  BY <1>1, <1>2 DEF Deleting
<1>4. stat'[t] = "SUSPEND" /\ \A x \in Thread \ {t} : stat'[x] = stat[x]
  BY DEF KernelTypeOK
<1>5. /\ QueuesConsistent' /\ QOK(ready', mask')
      /\ \A p \in Prio : Range(ready'[p]) = Range(ready[p]) \ {t}
  BY <1>3, <1>4, RemovedQueues
<1>6. JoinNone(ready')
  BY <1>5 DEF JoinNone
<1>7. prio' \in [Thread -> Prio] /\ prio'[Idle] = prio[Idle]
  BY DEF KernelTypeOK
<1> QED BY <1>5, <1>6, <1>7, LendingJoinStep

LEMMA BlockStep ==
  ASSUME KernelInv, NEW t \in Thread, NEW o \in Obj, NEW flag, NEW n \in 0 .. MaxTime,
         MayBlock(t) \/ MayRejoin(t), Block(t, o, flag, n)
  PROVE  KernelInv'
<1> DEFINE q == WaitInsert(waitq[o], t, flag)
<1>1. q \in Seq(Thread) /\ IsInjective(q) /\ Range(q) = Range(waitq[o]) \cup {t}
  BY JoinedList
<1>2. /\ SuspendFor(t, o, n) /\ err' = [err EXCEPT ![t] = "EOK"]
      /\ waitq' = [waitq EXCEPT ![o] = q]
  BY DEF Block
<1> HIDE DEF q
<1> QED BY <1>1, <1>2, JoinStep

(* An empty list stays empty when a thread leaves the one it is on. *)
LEMMA EmptyStays ==
  ASSUME KernelInv, NEW u \in Thread, waitq' = UnlinkAll(waitq, u), NEW o \in Obj, waitq[o] = <<>>
  PROVE  waitq'[o] = <<>>
<1>1. waitq[o] \in Seq(Thread) /\ waitq'[o] \in Seq(Thread)
  BY WaitRemoved DEF WOK, KernelInv, KernelTypeOK
<1>2. Range(waitq'[o]) = Range(waitq[o]) \ {u}
  BY WaitRemoved
<1>3. Range(waitq[o]) = {}
  BY <1>1, HeadRange
<1> QED BY <1>1, <1>2, <1>3, HeadRange

(* A thread on a wait list is suspended, and nobody works on it. *)
LEMMA WaiterFacts ==
  ASSUME KernelInv, NEW o \in Obj, NEW u \in Range(waitq[o])
  PROVE  /\ u \in Thread /\ u # Idle /\ stat[u] = "SUSPEND" /\ call[u] = o
         /\ \A v \in Thread : arg[v] # u
         /\ u = current => pc[u] = "sched" /\ nest = 0
<1>1. u \in Thread /\ stat[u] = "SUSPEND" /\ call[u] = o
  BY InvQueues DEF KernelInv, ListsConsistent
<1>2. u # Idle
  BY <1>1 DEF KernelInv, IdleOK
<1>3. \A v \in Thread : arg[v] # u
  <2> SUFFICES ASSUME NEW v \in Thread, arg[v] = u PROVE FALSE
    OBVIOUS
  <2>1. Control(v) /\ u # NoThread
    BY <1>1, KernelAssumption DEF KernelInv, ControlOK
  <2> QED BY <1>1, <2>1 DEF Control, OpPc, Detached
<1>4. u = current => pc[u] = "sched" /\ nest = 0
  BY <1>1 DEF KernelInv, CurrentOK
<1> QED BY <1>1, <1>2, <1>3, <1>4

(* The set w of threads that wait for objects become ready: by a thread,   *)
(* which calls rt_schedule afterwards or leaves it out for good (lag), or  *)
(* by an interrupt handler, which calls it at once.  Priorities may        *)
(* change, if the queues stay consistent.                                  *)
OnLists(w) == \A x \in w : \E o \in Obj : x \in Range(waitq[o])

LEMMA WakeSetStep ==
  ASSUME KernelInv, due = {}, NEW w, OnLists(w),
         stat' = [x \in Thread |-> IF x \in w THEN "READY" ELSE stat[x]],
         timer' = [x \in Thread |-> IF x \in w THEN 0 ELSE timer[x]],
         WOK(waitq'), \A x \in Obj : Range(waitq'[x]) = Range(waitq[x]) \ w,
         QueuesConsistent', QOK(ready', mask'),
         \A x \in Thread \ w : (\A p \in Prio : x \notin Range(ready[p])) =>
                                 \A p \in Prio : x \notin Range(ready'[p]),
         prio' \in [Thread -> Prio], prio'[Idle] = prio[Idle],
         UNCHANGED <<defunct, slice, arg, nest, due>>, err' \in [Thread -> Err],
         pc' \in [Thread -> Pc], pc'[Idle] = "run",
         \A v \in Thread : pc'[v] = pc[v] \/ (pc'[v] \notin OpPc /\ pc[v] \notin OpPc),
         call' \in [Thread -> Call],
         \A v \in Thread : stat[v] = "SUSPEND" => call'[v] = call[v],
         \/ /\ pc[current] # "sched" /\ UNCHANGED current
            /\ lag' \in BOOLEAN /\ (lag' \/ pc'[current] \in {"sched", "reset"})
         \/ DoSchedule /\ UNCHANGED pc
  PROVE  KernelInv'
<1> USE KernelAssumption DEF KernelInv
<1>a. \A t \in w : /\ t \in Thread /\ t # Idle /\ stat[t] = "SUSPEND"
                   /\ \A v \in Thread : arg[v] # t
                   /\ t = current => pc[t] = "sched" /\ nest = 0
  BY WaiterFacts DEF OnLists
<1>b. /\ stat' \in [Thread -> Stat] /\ timer' \in [Thread -> 0 .. MaxTime]
      /\ \A x \in w : stat'[x] = "READY" /\ timer'[x] = 0
      /\ \A x \in Thread \ w : stat'[x] = stat[x] /\ timer'[x] = timer[x]
  <2>1. stat \in [Thread -> Stat] /\ timer \in [Thread -> 0 .. MaxTime]
    BY DEF KernelTypeOK
  <2>2. "READY" \in Stat /\ 0 \in 0 .. MaxTime
    BY DEF Stat
  <2>3. w \subseteq Thread
    BY <1>a
  <2> QED BY <2>1, <2>2, <2>3
<1>w. /\ WOK(waitq')
      /\ \A x \in Obj : /\ Range(waitq'[x]) = Range(waitq[x]) \ w
                       /\ Range(waitq'[x]) \subseteq Thread
      /\ Range(defunct) \subseteq Thread
  BY InvQueues
<1>i. stat'[Idle] = "READY" /\ prio' \in [Thread -> Prio] /\ current \in Thread
  BY <1>a, <1>b DEF IdleOK, KernelTypeOK
<1>d. /\ current' \in Thread /\ lag' \in BOOLEAN
      /\ nest # 0 => current' = current
      /\ CurrentOK' /\ HeadRuns'
  <2>1. CASE /\ pc[current] # "sched" /\ UNCHANGED current
             /\ lag' \in BOOLEAN /\ (lag' \/ pc'[current] \in {"sched", "reset"})
    <3>1. stat[current] = "READY" /\ current \notin w
      BY <1>a, <2>1 DEF CurrentOK
    <3> QED BY <1>b, <1>i, <2>1, <3>1 DEF CurrentOK, HeadRuns
  <2>2. CASE DoSchedule /\ UNCHANGED pc
    <3>1. ~Deleting(Idle)'
      BY <2>2, IdleStays DEF Deleting
    <3>2. /\ nest = 0 => /\ current' \in Thread /\ stat'[current'] = "READY"
                         /\ current' = Head(ready'[Min(mask')])
          /\ nest # 0 => current' = current
          /\ lag' \in BOOLEAN
      BY <1>i, <2>2, <3>1, ScheduleEffect
    <3>3. CASE nest = 0
      BY <1>i, <2>2, <3>2, <3>3 DEF CurrentOK, HeadRuns
    <3>4. CASE nest # 0
      <4>1. stat[current] = "READY" /\ current \notin w
        BY <1>a, <3>4 DEF CurrentOK
      <4>2. CurrentOK'
        BY <1>b, <1>i, <3>2, <3>4, <4>1 DEF CurrentOK
      <4>3. HeadRuns'
        BY <3>4 DEF HeadRuns
      <4> QED BY <1>i, <3>2, <3>4, <4>2, <4>3
    <3> QED BY <3>3, <3>4
  <2> QED BY <2>1, <2>2
<1>1. KernelTypeOK'
  BY <1>b, <1>d, <1>w DEF KernelTypeOK, QOK, WOK, Call, Err
<1>3. ListsConsistent'
  <2>1. ASSUME NEW x \in Obj, NEW v \in Range(waitq'[x])
        PROVE  stat'[v] = "SUSPEND" /\ call'[v] = x
    <3>1. v \in Range(waitq[x]) /\ v \in Thread \ w
      BY <1>w
    <3>2. stat[v] = "SUSPEND" /\ call[v] = x
      BY <3>1 DEF ListsConsistent
    <3> QED BY <1>b, <3>1, <3>2
  <2>2. \A x \in Range(defunct) : stat'[x] = "CLOSE"
    BY <1>a, <1>b, <1>w DEF ListsConsistent
  <2> QED BY <1>b, <1>w, <2>1, <2>2 DEF ListsConsistent, WOK
<1>4. TimeoutFindsSuspended' /\ IdleOK' /\ DueOK' /\ DefunctOK'
  BY <1>a, <1>b, <1>i DEF TimeoutFindsSuspended, IdleOK, DueOK, DefunctOK
<1>5. ControlOK'
  <2> SUFFICES ASSUME NEW v \in Thread PROVE Control(v)'
    BY DEF ControlOK
  <2>1. Control(v)
    BY DEF ControlOK
  <2>2. ASSUME NEW x \in Thread \ w, Detached(x) PROVE Detached(x)'
    <3>1. \A p \in Prio : x \notin Range(ready'[p])
      BY <2>2 DEF Detached
    <3>2. \A y \in Obj : x \notin Range(waitq'[y])
      BY <1>w, <2>2 DEF Detached
    <3>3. timer'[x] = 0 /\ x \notin due'
      BY <1>b, <2>2 DEF Detached
    <3> QED BY <3>1, <3>2, <3>3 DEF Detached
  <2>3. pc[v] \in OpPc => arg[v] \in Thread \ w
    BY <1>a, <2>1 DEF Control, KernelTypeOK
  <2>4. pc[v] \in OpPc \ {"start", "startins"} => current' = v /\ nest > 0
    <3>1. pc[v] \in OpPc \ {"start", "startins"} => nest > 0 /\ nest # 0 /\ current = v
      BY <2>1 DEF Control, KernelTypeOK
    <3> QED BY <1>d, <3>1
  <2> QED BY <1>b, <2>1, <2>2, <2>3, <2>4 DEF Control, OpPc
<1> QED BY <1>1, <1>3, <1>4, <1>5, <1>d

(* One thread, the first on the list. *)
LEMMA LendingWakeStep ==
  ASSUME KernelInv, due = {}, NEW o \in Obj, waitq[o] # <<>>,
         NEW t \in Thread, t = Head(waitq[o]),
         stat' = [stat EXCEPT ![t] = "READY"], timer' = [timer EXCEPT ![t] = 0],
         waitq' = UnlinkAll(waitq, t),
         QueuesConsistent', QOK(ready', mask'),
         \A x \in Thread \ {t} : (\A p \in Prio : x \notin Range(ready[p])) =>
                                 \A p \in Prio : x \notin Range(ready'[p]),
         prio' \in [Thread -> Prio], prio'[Idle] = prio[Idle],
         UNCHANGED <<defunct, slice, arg, nest, due>>, err' \in [Thread -> Err],
         pc' \in [Thread -> Pc], pc'[Idle] = "run",
         \A v \in Thread : pc'[v] = pc[v] \/ (pc'[v] \notin OpPc /\ pc[v] \notin OpPc),
         call' \in [Thread -> Call],
         \A v \in Thread : stat[v] = "SUSPEND" => call'[v] = call[v],
         \/ /\ pc[current] # "sched" /\ UNCHANGED current
            /\ lag' \in BOOLEAN /\ (lag' \/ pc'[current] \in {"sched", "reset"})
         \/ DoSchedule /\ UNCHANGED pc
  PROVE  KernelInv'
<1> DEFINE w == {t}
<1>1. OnLists(w)
  <2>1. waitq[o] \in Seq(Thread)
    BY DEF KernelInv, KernelTypeOK
  <2>2. t \in Range(waitq[o])
    BY <2>1, HeadRange
  <2> QED BY <2>2 DEF OnLists
<1>2. WOK(waitq') /\ \A x \in Obj : Range(waitq'[x]) = Range(waitq[x]) \ w
  BY WaitRemoved
<1>3. /\ stat' = [x \in Thread |-> IF x \in w THEN "READY" ELSE stat[x]]
      /\ timer' = [x \in Thread |-> IF x \in w THEN 0 ELSE timer[x]]
  BY DEF KernelInv, KernelTypeOK
<1>4. \A x \in Thread \ w : (\A p \in Prio : x \notin Range(ready[p])) =>
                            \A p \in Prio : x \notin Range(ready'[p])
  OBVIOUS
<1> HIDE DEF w
<1> QED BY <1>1, <1>2, <1>3, <1>4, WakeSetStep

(* The plain call, in which no priority changes. *)
LEMMA WakeStep ==
  ASSUME KernelInv, due = {}, NEW o \in Obj, waitq[o] # <<>>, Wake(Head(waitq[o])),
         UNCHANGED <<defunct, prio, slice, arg, nest, due>>, err' \in [Thread -> Err],
         pc' \in [Thread -> Pc], pc'[Idle] = "run",
         \A v \in Thread : pc'[v] = pc[v] \/ (pc'[v] \notin OpPc /\ pc[v] \notin OpPc),
         call' \in [Thread -> Call],
         \A v \in Thread : stat[v] = "SUSPEND" => call'[v] = call[v],
         \/ /\ pc[current] # "sched" /\ UNCHANGED current
            /\ lag' \in BOOLEAN /\ (lag' \/ pc'[current] \in {"sched", "reset"})
         \/ DoSchedule /\ UNCHANGED pc
  PROVE  KernelInv'
<1>a. waitq[o] \in Seq(Thread)
  BY DEF KernelInv, KernelTypeOK
<1>w. PICK t \in Thread : t = Head(waitq[o]) /\ t \in Range(waitq[o])
  BY <1>a, HeadRange
<1>b. /\ stat[t] = "SUSPEND" /\ t # Idle
      /\ stat' = [stat EXCEPT ![t] = "READY"] /\ timer' = [timer EXCEPT ![t] = 0]
      /\ ready' = Requeued(t, prio[t]) /\ mask' = mask \cup {prio[t]}
      /\ waitq' = UnlinkAll(waitq, t)
  BY <1>w, WaiterFacts DEF Wake, MakeReady
<1>c. stat'[t] = "READY" /\ \A x \in Thread \ {t} : stat'[x] = stat[x]
  BY <1>b DEF KernelInv, KernelTypeOK
<1>1. \A x \in Thread : Deleting(x) => Deleting(x)'
  BY DEF Deleting, OpPc
<1>2. /\ QOK(ready', mask')
      /\ \A p \in Prio : Range(ready'[p]) =
           IF p = prio[t] THEN Range(ready[p]) \cup {t} ELSE Range(ready[p])
  BY <1>b, InvQueues, MakeReadyQueues DEF KernelInv, KernelTypeOK
<1>3. QueuesConsistent'
  BY <1>1, <1>2, <1>c, ReadiedQueues
<1>4. \A x \in Thread \ {t} : (\A p \in Prio : x \notin Range(ready[p])) =>
                              \A p \in Prio : x \notin Range(ready'[p])
  BY <1>2
<1>5. prio' \in [Thread -> Prio] /\ prio'[Idle] = prio[Idle]
  BY DEF KernelInv, KernelTypeOK
<1> QED BY <1>w, <1>b, <1>2, <1>3, <1>4, <1>5, LendingWakeStep

(* rt_..._init of an object that was detached. *)
LEMMA ObjectInitStep ==
  ASSUME KernelInv, NEW t \in Thread, NEW o \in Obj, ObjectInit(t, o)
  PROVE  KernelInv' /\ waitq'[o] = <<>> /\ \A x \in Obj \ {o} : waitq'[x] = waitq[x]
<1> USE DEF KernelInv, ObjectInit, threadVars, callVars
<1>a. waitq'[o] = <<>> /\ \A x \in Obj \ {o} : waitq'[x] = waitq[x]
  BY DEF KernelTypeOK
<1>b. <<>> \in Seq(Thread) /\ Range(<<>>) = {} /\ IsInjective(<<>>)
  BY DEF Range, IsInjective
<1>1. KernelTypeOK'
  BY <1>b DEF KernelTypeOK
<1>2. QueuesConsistent'
  BY DEF QueuesConsistent, Deleting
<1>3. ListsConsistent'
  BY <1>a, <1>b DEF ListsConsistent
<1>4. (TimeoutFindsSuspended /\ CurrentOK /\ IdleOK /\ DueOK /\ DefunctOK /\ HeadRuns)'
  BY DEF TimeoutFindsSuspended, CurrentOK, IdleOK, DueOK, DefunctOK, HeadRuns
<1>5. ControlOK'
  <2>1. \A x \in Thread : Detached(x) => Detached(x)'
    BY <1>a, <1>b DEF Detached
  <2>2. ASSUME NEW v \in Thread PROVE Control(v)'
    <3>1. Control(v) /\ (pc[v] \in OpPc => arg[v] \in Thread)
      BY DEF ControlOK, Control, KernelTypeOK
    <3> QED BY <2>1, <3>1 DEF Control, OpPc
  <2> QED BY <2>2 DEF ControlOK
<1> QED BY <1>a, <1>1, <1>2, <1>3, <1>4, <1>5

(***************************************************************************)
(* What a step of the kernel does to the wait lists.                       *)
(***************************************************************************)

(* It unlinks one thread at most. *)
LEMMA KernelUnlinks ==
  ASSUME KernelInv, [KernelNext]_kernelVars
  PROVE  waitq' = waitq \/ \E u \in Thread : waitq' = UnlinkAll(waitq, u)
<1> USE DEF queueVars
<1>1. CASE UNCHANGED kernelVars
  BY <1>1 DEF kernelVars
<1>2. ASSUME NEW t \in Thread, InCall(t) PROVE waitq' = waitq \/ \E u \in Thread : waitq' = UnlinkAll(waitq, u)
  <2>1. CASE Schedule(t) \/ Return(t) \/ ResumeInsert(t) \/ DeleteTimer(t) \/ DeleteClose(t) \/ DeleteDefunct(t)
    BY <2>1 DEF Schedule, Return, ResumeInsert, DeleteTimer, DeleteClose, DeleteDefunct
  <2>2. CASE SuspendLocked(t) \/ ResumeLocked(t)
    <3>1. pc[t] \in {"suspend", "resume", "start"} /\ waitq' = UnlinkAll(waitq, arg[t])
      BY <2>2 DEF SuspendLocked, ResumeLocked, At
    <3>2. arg[t] # NoThread
      BY <3>1 DEF KernelInv, ControlOK, Control, OpPc
    <3> QED BY <3>1, <3>2 DEF KernelInv, KernelTypeOK
  <2> QED BY <1>2, <2>1, <2>2 DEF InCall
<1>3. ASSUME NEW t \in Thread, UserCall(t) PROVE waitq' = waitq \/ \E u \in Thread : waitq' = UnlinkAll(waitq, u)
  <2>1. CASE (\E n \in 1 .. MaxTime : Sleep(t, n)) \/ SuspendSelf(t) \/ Yield(t) \/ EnterCritical(t) \/ ExitCritical(t) \/ Exit(t)
    BY <2>1 DEF Sleep, SuspendSelf, Yield, EnterCritical, ExitCritical, Exit
  <2>2. CASE \E u \in Thread : \/ Suspend(t, u) \/ Resume(t, u) \/ Delete(t, u)
                              \/ Create(t, u) \/ Startup(t, u)
                              \/ \E p \in PrioChoices : ChangePriority(t, u, p)
    BY <2>2 DEF Suspend, Resume, Delete, Create, Startup, ChangePriority
  <2> QED BY <1>3, <2>1, <2>2 DEF UserCall
<1>4. CASE IdleExcute \/ Tick
  BY <1>4 DEF IdleExcute, Tick
<1>5. ASSUME NEW t \in Thread, Timeout(t) PROVE waitq' = UnlinkAll(waitq, t)
  BY <1>5 DEF Timeout, MakeReady
<1> QED BY <1>1, <1>2, <1>3, <1>4, <1>5 DEF KernelNext, ThreadStep, Interrupt

(* Threads leave wait lists by timeouts, resumption and deletion; to get   *)
(* on one is the business of the IPC objects alone.                        *)
LEMMA KernelShrinksWaits ==
  ASSUME KernelInv, [KernelNext]_kernelVars, NEW o \in Obj
  PROVE  /\ Range(waitq'[o]) \subseteq Range(waitq[o])
         /\ waitq[o] = <<>> => waitq'[o] = <<>>
<1>1. waitq' = waitq \/ \E u \in Thread : waitq' = UnlinkAll(waitq, u)
  BY KernelUnlinks
<1>2. Range(waitq'[o]) \subseteq Range(waitq[o]) /\ waitq'[o] \in Seq(Thread) /\ waitq[o] \in Seq(Thread)
  <2>1. waitq[o] \in Seq(Thread)
    BY DEF KernelInv, KernelTypeOK
  <2>2. ASSUME NEW u \in Thread, waitq' = UnlinkAll(waitq, u)
        PROVE  Range(waitq'[o]) \subseteq Range(waitq[o]) /\ waitq'[o] \in Seq(Thread)
    BY <2>2, WaitRemoved DEF WOK
  <2> QED BY <1>1, <2>1, <2>2
<1>3. waitq[o] = <<>> => waitq'[o] = <<>>
  <2>1. (waitq[o] = <<>> <=> Range(waitq[o]) = {}) /\ (waitq'[o] = <<>> <=> Range(waitq'[o]) = {})
    BY <1>2, HeadRange
  <2> QED BY <1>2, <2>1
<1> QED BY <1>2, <1>3

(***************************************************************************)
(* What rt_ipc_list_resume_all relies on between its look at the list and  *)
(* the locked section: nobody else can take a waiter off.                  *)
(***************************************************************************)
Flushing(t) == pc[t] \in {"flush", "flushlock"}

FlushOK ==
  \A t \in Thread : Flushing(t) =>
    /\ current = t /\ nest > 0 /\ call[t] \in Obj
    /\ \A u \in Range(waitq[call[t]]) : timer[u] = 0 /\ u \notin due
    /\ pc[t] = "flushlock" => waitq[call[t]] # <<>>

(* The other threads do not run, the timers of the waiters are stopped.    *)
LEMMA KernelKeepsFlush ==
  ASSUME KernelInv, FlushOK, [KernelNext]_kernelVars
  PROVE  FlushOK'
<1> USE KernelAssumption DEF queueVars, threadVars, callVars
<1> SUFFICES ASSUME NEW t \in Thread, Flushing(t)'
             PROVE  /\ current' = t /\ nest' > 0 /\ call'[t] \in Obj
                    /\ \A u \in Range(waitq'[call'[t]]) : timer'[u] = 0 /\ u \notin due'
                    /\ pc'[t] = "flushlock" => waitq'[call'[t]] # <<>>
  BY DEF FlushOK, Flushing
<1>t. pc \in [Thread -> Pc]
  BY DEF KernelInv, KernelTypeOK
<1>1. Flushing(t)
  <2> SUFFICES ASSUME ~Flushing(t) PROVE FALSE
    OBVIOUS
  <2> USE <1>t DEF Flushing, Goto
  <2>1. CASE UNCHANGED kernelVars
    BY <2>1 DEF kernelVars
  <2>2. ASSUME NEW v \in Thread, InCall(v) PROVE FALSE
    BY <2>2 DEF InCall, Schedule, Return, SuspendLocked, ResumeLocked, ResumeInsert, DeleteTimer, DeleteClose, DeleteDefunct
  <2>3. ASSUME NEW v \in Thread, UserCall(v) PROVE FALSE
    <3>1. CASE (\E n \in 1 .. MaxTime : Sleep(v, n)) \/ SuspendSelf(v) \/ Yield(v) \/ EnterCritical(v) \/ ExitCritical(v) \/ Exit(v)
      BY <3>1 DEF Sleep, SuspendSelf, SuspendFor, Yield, EnterCritical, ExitCritical, Exit
    <3>2. CASE \E u \in Thread : \/ Suspend(v, u) \/ Resume(v, u) \/ Delete(v, u)
                                \/ Create(v, u) \/ Startup(v, u)
                                \/ \E p \in PrioChoices : ChangePriority(v, u, p)
      BY <3>2 DEF Suspend, Resume, Delete, Create, Startup, ChangePriority, Begin
    <3> QED BY <2>3, <3>1, <3>2 DEF UserCall
  <2>4. CASE IdleExcute \/ Tick \/ \E v \in Thread : Timeout(v)
    BY <2>4 DEF IdleExcute, Tick, Timeout
  <2> QED BY <2>1, <2>2, <2>3, <2>4 DEF KernelNext, ThreadStep, Interrupt
<1>2. /\ current = t /\ nest > 0 /\ nest # 0 /\ call[t] \in Obj
      /\ \A u \in Range(waitq[call[t]]) : timer[u] = 0 /\ u \notin due
      /\ pc[t] = "flushlock" => waitq[call[t]] # <<>>
  <2>1. nest \in Int
    BY DEF KernelInv, KernelTypeOK
  <2> QED BY <1>1, <2>1 DEF FlushOK
<1>3. UNCHANGED kernelVars \/ Interrupt
  <2> USE <1>1, <1>2 DEF Flushing, At, InUser, Running, MayBlock, MayControl
  <2>1. ASSUME NEW v \in Thread, InCall(v) PROVE FALSE
    BY <2>1 DEF InCall, Schedule, Return, SuspendLocked, ResumeLocked, ResumeInsert, DeleteTimer, DeleteClose, DeleteDefunct
  <2>2. ASSUME NEW v \in Thread, UserCall(v) PROVE FALSE
    <3>1. CASE (\E n \in 1 .. MaxTime : Sleep(v, n)) \/ SuspendSelf(v) \/ Yield(v) \/ EnterCritical(v) \/ ExitCritical(v) \/ Exit(v)
      BY <3>1 DEF Sleep, SuspendSelf, Yield, EnterCritical, ExitCritical, Exit
    <3>2. CASE \E u \in Thread : \/ Suspend(v, u) \/ Resume(v, u) \/ Delete(v, u)
                                \/ Create(v, u) \/ Startup(v, u)
                                \/ \E p \in PrioChoices : ChangePriority(v, u, p)
      BY <3>2 DEF Suspend, Resume, Delete, Create, Startup, ChangePriority
    <3> QED BY <2>2, <3>1, <3>2 DEF UserCall
  <2>3. ~IdleExcute
    BY DEF IdleExcute
  <2> QED BY <2>1, <2>2, <2>3 DEF KernelNext, ThreadStep
<1>4. CASE UNCHANGED kernelVars
  BY <1>2, <1>4 DEF kernelVars
<1>5. CASE Tick
  <2>1. /\ UNCHANGED <<waitq, pc, call, nest>> /\ current' = current
        /\ due' = {u \in Thread : timer[u] = 1}
        /\ timer' = [u \in Thread |-> TimerAfterTick(u)]
    BY <1>2, <1>5 DEF Tick, DoSchedule
  <2>2. \A u \in Range(waitq[call[t]]) : u \in Thread /\ timer[u] = 0
    BY <1>2, InvQueues
  <2> QED BY <1>2, <2>1, <2>2 DEF TimerAfterTick
<1>6. ASSUME NEW v \in Thread, Timeout(v)
      PROVE  /\ current' = t /\ nest' > 0 /\ call'[t] \in Obj
             /\ \A u \in Range(waitq'[call'[t]]) : timer'[u] = 0 /\ u \notin due'
             /\ pc'[t] = "flushlock" => waitq'[call'[t]] # <<>>
  <2>1. /\ v \in due /\ due' = due \ {v} /\ waitq' = UnlinkAll(waitq, v)
        /\ UNCHANGED <<timer, pc, call, nest>> /\ current' = current
    BY <1>2, <1>6 DEF Timeout, MakeReady, DoSchedule
  <2>2. Unlinked(Obj, UnlinkAll(waitq, v), waitq, v)
    BY InvQueues, UnlinkAllProperties DEF WOK
  <2>3. waitq'[call[t]] = waitq[call[t]]
    BY <1>2, <2>1, <2>2 DEF Unlinked
  <2> QED BY <1>2, <2>1, <2>3
<1> QED BY <1>3, <1>4, <1>5, <1>6 DEF Interrupt

(* A step of a thread that flushes nothing, or of an interrupt handler     *)
(* that interrupts it, and that begins no flush.                           *)
LEMMA NoFlush ==
  ASSUME FlushOK, ~Flushing(current), \A t \in Thread : Flushing(t)' => Flushing(t)
  PROVE  FlushOK'
BY DEF FlushOK

(* The caller of rt_..._detach. *)
LEMMA DetachStep ==
  ASSUME KernelInv, FlushOK, Guarded, NEW t \in Thread \ {Idle}, NEW o \in Obj, Detach(t, o)
  PROVE  KernelInv' /\ FlushOK' /\ UNCHANGED <<waitq, exists>>
<1> USE DEF Detach, InUser, Running, Goto, queueVars, threadVars
<1>a. pc \in [Thread -> Pc] /\ call \in [Thread -> Call] /\ err \in [Thread -> Err]
  BY DEF KernelInv, KernelTypeOK, Call, Err
<1>1. KernelInv'
  <2>1. /\ call' \in [Thread -> Call] /\ \A v \in Thread \ {t} : call'[v] = call[v]
        /\ err' \in [Thread -> Err]
        /\ "flush" \in Pc \ OpPc
        /\ pc[t] \notin OpPc \cup {"sched", "reset"}
    BY <1>a DEF Call, Pc, OpPc
  <2>2. UNCHANGED <<queueVars, stat, prio, slice, timer, arg, current, nest, due, lag>>
    OBVIOUS
  <2> QED BY <2>1, <2>2, PlaceStep
<1>2. FlushOK'
  <2> SUFFICES ASSUME NEW x \in Thread, Flushing(x)'
               PROVE  /\ current' = x /\ nest' > 0 /\ call'[x] \in Obj
                      /\ \A u \in Range(waitq'[call'[x]]) : timer'[u] = 0 /\ u \notin due'
                      /\ pc'[x] = "flushlock" => waitq'[call'[x]] # <<>>
    BY DEF FlushOK, Flushing
  <2>1. x = t
    <3> SUFFICES ASSUME x # t PROVE FALSE
      OBVIOUS
    <3>1. Flushing(x)
      BY <1>a DEF Flushing
    <3> QED BY <3>1 DEF FlushOK
  <2>2. pc'[t] = "flush" /\ call'[t] = o /\ due = {}
    BY <1>a
  <2> QED BY <2>1, <2>2
<1> QED BY <1>1, <1>2

(* The list is looked at, with a thread on it. *)
LEMMA FlushCheckStep ==
  ASSUME KernelInv, FlushOK, NEW t \in Thread, FlushCheck(t)
  PROVE  KernelInv' /\ FlushOK' /\ UNCHANGED <<waitq, exists>>
<1> USE DEF FlushCheck, At, Running, Goto, queueVars, threadVars
<1>a. pc \in [Thread -> Pc] /\ call \in [Thread -> Call] /\ err \in [Thread -> Err]
  BY DEF KernelInv, KernelTypeOK, Call, Err
<1>1. KernelInv'
  <2>1. /\ call' \in [Thread -> Call] /\ \A v \in Thread \ {t} : call'[v] = call[v]
        /\ err' \in [Thread -> Err]
        /\ "flushlock" \in Pc \ OpPc
        /\ pc[t] \notin OpPc \cup {"sched", "reset"}
    BY <1>a DEF Pc, OpPc
  <2>2. UNCHANGED <<queueVars, stat, prio, slice, timer, arg, current, nest, due, lag>>
    OBVIOUS
  <2>3. t # Idle
    BY DEF KernelInv, IdleOK
  <2> QED BY <2>1, <2>2, <2>3, PlaceStep
<1>2. FlushOK'
  <2>1. \A x \in Thread : pc'[x] = IF x = t THEN "flushlock" ELSE pc[x]
    BY <1>a
  <2>2. Flushing(t)
    BY DEF Flushing
  <2> QED BY <2>1, <2>2 DEF FlushOK, Flushing
<1> QED BY <1>1, <1>2

(* The first waiter is woken with -RT_ERROR; the others stay. *)
LEMMA FlushWakeStep ==
  ASSUME KernelInv, FlushOK, NEW t \in Thread, FlushWake(t)
  PROVE  /\ KernelInv' /\ FlushOK' /\ UNCHANGED exists
         /\ call[t] \in Obj /\ waitq[call[t]] # <<>>
         /\ waitq' = UnlinkAll(waitq, Head(waitq[call[t]]))
<1> USE DEF FlushWake, WakeWithError, At, Running, Goto
<1>a. pc \in [Thread -> Pc] /\ call \in [Thread -> Call] /\ err \in [Thread -> Err]
  BY DEF KernelInv, KernelTypeOK, Call, Err
<1> DEFINE o == call[t]  w == Head(waitq[o])
<1>b. /\ current = t /\ nest > 0 /\ o \in Obj /\ waitq[o] # <<>>
      /\ \A u \in Range(waitq[o]) : timer[u] = 0 /\ u \notin due
  BY DEF FlushOK, Flushing
<1>c. w \in Thread /\ w \in Range(waitq[o])
  BY <1>b, HeadRange DEF KernelInv, KernelTypeOK
<1>d. waitq' = UnlinkAll(waitq, w)
  BY DEF Wake, MakeReady
<1>1. KernelInv'
  <2>1. /\ call' \in [Thread -> Call] /\ \A v \in Thread : call'[v] = call[v]
        /\ pc' \in [Thread -> Pc] /\ \A v \in Thread : pc'[v] = pc[v] \/ (pc'[v] \notin OpPc /\ pc[v] \notin OpPc)
        /\ pc[current] # "sched" /\ lag' = TRUE
    BY <1>a, <1>b DEF Pc, OpPc
  <2>2. pc'[Idle] = "run"
    BY <1>a, KernelAssumption DEF KernelInv, IdleOK
  <2>3. err' \in [Thread -> Err]
    BY <1>a, <1>c DEF Err
  <2>4. Wake(Head(waitq[o])) /\ UNCHANGED <<defunct, prio, slice, arg, nest, due, current>> /\ due = {}
    OBVIOUS
  <2> HIDE DEF o, w
  <2> QED BY <1>b, <2>1, <2>2, <2>3, <2>4, WakeStep
<1>2. FlushOK'
  <2> SUFFICES ASSUME NEW x \in Thread, Flushing(x)'
               PROVE  /\ current' = x /\ nest' > 0 /\ call'[x] \in Obj
                      /\ \A u \in Range(waitq'[call'[x]]) : timer'[u] = 0 /\ u \notin due'
                      /\ pc'[x] = "flushlock" => waitq'[call'[x]] # <<>>
    BY DEF FlushOK, Flushing
  <2>1. x = t
    <3> SUFFICES ASSUME x # t PROVE FALSE
      OBVIOUS
    <3>1. Flushing(x)
      BY <1>a DEF Flushing
    <3> QED BY <1>b, <3>1 DEF FlushOK
  <2>2. pc'[t] = "flush" /\ call'[t] = o /\ due = {}
    BY <1>a
  <2>3. Range(waitq'[o]) \subseteq Range(waitq[o]) /\ Range(waitq[o]) \subseteq Thread
    BY <1>b, <1>c, <1>d, WaitRemoved, InvQueues
  <2>4. \A u \in Thread : timer[u] = 0 => timer'[u] = 0
    BY <1>c DEF Wake, KernelInv, KernelTypeOK
  <2> HIDE DEF o, w
  <2> QED BY <1>b, <2>1, <2>2, <2>3, <2>4
<1> QED BY <1>1, <1>2, <1>b, <1>d

(* The list is looked at and empty: the object is gone. *)
LEMMA FlushEndStep ==
  ASSUME KernelInv, FlushOK, exists \in [Obj -> BOOLEAN], NEW t \in Thread, FlushEnd(t)
  PROVE  KernelInv' /\ FlushOK' /\ UNCHANGED waitq /\ exists' \in [Obj -> BOOLEAN]
<1> USE DEF FlushEnd, At, Running, Goto, queueVars, threadVars
<1>a. pc \in [Thread -> Pc] /\ call \in [Thread -> Call] /\ err \in [Thread -> Err]
  BY DEF KernelInv, KernelTypeOK, Call, Err
<1>1. KernelInv'
  <2>1. /\ call' \in [Thread -> Call] /\ \A v \in Thread \ {t} : call'[v] = call[v]
        /\ err' \in [Thread -> Err]
        /\ "run" \in Pc \ OpPc
        /\ pc[t] \notin OpPc \cup {"sched", "reset"}
    BY <1>a DEF Pc, OpPc, Call
  <2>2. UNCHANGED <<queueVars, stat, prio, slice, timer, arg, current, nest, due, lag>>
    OBVIOUS
  <2>3. t # Idle
    BY DEF KernelInv, IdleOK
  <2> QED BY <2>1, <2>2, <2>3, PlaceStep
<1>2. FlushOK'
  <2>1. \A x \in Thread : pc'[x] = IF x = t THEN "run" ELSE pc[x]
    BY <1>a
  <2>2. Flushing(t)
    BY DEF Flushing
  <2>3. \A x \in Thread : ~Flushing(x)'
    BY <2>1, <2>2 DEF FlushOK, Flushing
  <2> QED BY <2>3 DEF FlushOK, Flushing
<1> QED BY <1>1, <1>2

(***************************************************************************)
(* Threads inside a call on an IPC object: what a step of the kernel does  *)
(* to those that wait and to those that have been served and whose call    *)
(* has still to return.  At most one of them drops out.                    *)
(***************************************************************************)

(***************************************************************************)
(* Where the threads are.                                                  *)
(***************************************************************************)

(* A thread that has not started is in no call. *)
FreshOK == \A t \in Thread : stat[t] = "INIT" => call[t] = "none"

(* A thread in no IPC function, and none to return from, is in no call. *)
PlaceOK == \A t \in Thread : pc[t] \in {"run"} \cup OpPc => call[t] = "none"

(* A waiting thread is inside its call, with thread->error still clear. *)
WaitPlace ==
  \A s \in Obj : \A t \in Range(waitq[s]) : pc[t] \in {"sched", "blocked"} /\ err[t] = "EOK"

WaitInv == KernelInv /\ FreshOK /\ PlaceOK /\ WaitPlace

(* The thread x has been served: it has what it asked s for, and its call  *)
(* has still to return RT_EOK.                                             *)
Holds(s, x) ==
  /\ call[x] = s /\ stat[x] \in {"READY", "SUSPEND"} /\ ~Deleting(x)
  /\ \/ pc[x] = "got"
     \/ pc[x] \in {"sched", "blocked"} /\ err[x] = "EOK" /\ x \notin Range(waitq[s])

(***************************************************************************)
(* The kernel keeps the threads there.                                     *)
(***************************************************************************)

(* A thread that is created or started is in no call; the others that run  *)
(* into one have started.                                                  *)
LEMMA KernelKeepsFresh ==
  ASSUME WaitInv, [KernelNext]_kernelVars
  PROVE  FreshOK'
<1> SUFFICES ASSUME NEW x \in Thread, stat'[x] = "INIT" PROVE call'[x] = "none"
  BY DEF FreshOK
<1> USE DEF callVars, threadVars
<1>t. /\ stat \in [Thread -> Stat] /\ call \in [Thread -> Call]
      /\ stat[x] = "INIT" => call[x] = "none"
  BY DEF WaitInv, KernelInv, KernelTypeOK, Call, FreshOK
<1>c. stat[current] = "READY" \/ pc[current] = "sched"
  BY DEF WaitInv, KernelInv, CurrentOK
<1>1. CASE UNCHANGED kernelVars
  BY <1>1, <1>t DEF kernelVars
<1>2. ASSUME NEW v \in Thread, InCall(v) PROVE call'[x] = "none"
  BY <1>2, <1>t DEF InCall, Schedule, Return, SuspendLocked, ResumeLocked, ResumeInsert, InsertThread, DeleteTimer, DeleteClose, DeleteDefunct
<1>3. ASSUME NEW v \in Thread, UserCall(v) PROVE call'[x] = "none"
  <2> USE DEF InUser, Running, MayBlock, MayControl
  <2>1. CASE (\E n \in 1 .. MaxTime : Sleep(v, n)) \/ SuspendSelf(v) \/ Yield(v) \/ EnterCritical(v) \/ ExitCritical(v) \/ Exit(v)
    BY <1>t, <1>c, <2>1 DEF Sleep, SuspendSelf, SuspendFor, Yield, EnterCritical, ExitCritical, Exit
  <2>2. CASE \E u \in Thread : \/ Suspend(v, u) \/ Resume(v, u) \/ Delete(v, u)
                              \/ Create(v, u) \/ Startup(v, u)
                              \/ \E p \in PrioChoices : ChangePriority(v, u, p)
    BY <1>t, <2>2 DEF Suspend, Resume, Delete, Create, Startup, ChangePriority, Begin
  <2> QED BY <1>3, <2>1, <2>2 DEF UserCall
<1>4. CASE IdleExcute \/ Tick \/ \E v \in Thread : Timeout(v)
  BY <1>t, <1>4 DEF IdleExcute, Tick, Timeout, MakeReady
<1> QED BY <1>1, <1>2, <1>3, <1>4 DEF KernelNext, ThreadStep, Interrupt

(* A thread that still waits has not moved, but for rt_schedule. *)
LEMMA KernelKeepsPlace ==
  ASSUME WaitInv, [KernelNext]_kernelVars
  PROVE  WaitPlace'
<1> SUFFICES ASSUME NEW s \in Obj, NEW x \in Range(waitq'[s]) PROVE pc'[x] \in {"sched", "blocked"} /\ err'[x] = "EOK"
  BY DEF WaitPlace
<1> USE DEF callVars, threadVars, Goto
<1>a. x \in Range(waitq[s])
  BY KernelShrinksWaits DEF WaitInv
<1>t. /\ pc \in [Thread -> Pc] /\ err \in [Thread -> Err] /\ err[x] = "EOK"
      /\ x \in Thread /\ stat[x] = "SUSPEND" /\ call[x] # "none"
      /\ pc[x] \in {"sched", "blocked"} /\ (x = current => pc[x] = "sched")
      /\ call[x] \notin {"sleep", "suspend"}
  BY <1>a, WaiterFacts, KernelAssumption DEF WaitInv, WaitPlace, KernelInv, KernelTypeOK, Err
<1>1. CASE UNCHANGED kernelVars
  BY <1>1, <1>t DEF kernelVars
<1>2. ASSUME NEW v \in Thread, InCall(v) PROVE pc'[x] \in {"sched", "blocked"} /\ err'[x] = "EOK"
  BY <1>2, <1>t DEF InCall, Schedule, Return, SuspendLocked, ResumeLocked, ResumeInsert, DeleteTimer, DeleteClose, DeleteDefunct, At, Running
<1>3. ASSUME NEW v \in Thread, UserCall(v) PROVE pc'[x] \in {"sched", "blocked"} /\ err'[x] = "EOK"
  <2> USE DEF InUser, Running, MayBlock, MayControl
  <2>1. CASE (\E n \in 1 .. MaxTime : Sleep(v, n)) \/ SuspendSelf(v) \/ Yield(v) \/ EnterCritical(v) \/ ExitCritical(v) \/ Exit(v)
    BY <1>t, <2>1 DEF Sleep, SuspendSelf, SuspendFor, Yield, EnterCritical, ExitCritical, Exit
  <2>2. CASE \E u \in Thread : \/ Suspend(v, u) \/ Resume(v, u) \/ Delete(v, u)
                              \/ Create(v, u) \/ Startup(v, u)
                              \/ \E p \in PrioChoices : ChangePriority(v, u, p)
    BY <1>t, <2>2 DEF Suspend, Resume, Delete, Create, Startup, ChangePriority, Begin
  <2> QED BY <1>3, <2>1, <2>2 DEF UserCall
<1>4. CASE IdleExcute \/ Tick
  BY <1>t, <1>4 DEF IdleExcute, Tick
<1>5. ASSUME NEW v \in Thread, Timeout(v) PROVE pc'[x] \in {"sched", "blocked"} /\ err'[x] = "EOK"
  <2>1. waitq' = UnlinkAll(waitq, v)
    BY <1>5 DEF Timeout, MakeReady
  <2>2. x # v
    BY <2>1, WaitRemoved DEF WaitInv
  <2> QED BY <1>t, <1>5, <2>2 DEF Timeout
<1> QED BY <1>1, <1>2, <1>3, <1>4, <1>5 DEF KernelNext, ThreadStep, Interrupt

(* The kernel's functions begin and end outside of calls. *)
LEMMA KernelKeepsCalls ==
  ASSUME WaitInv, [KernelNext]_kernelVars
  PROVE  PlaceOK'
<1> SUFFICES ASSUME NEW x \in Thread, pc'[x] \in {"run"} \cup OpPc PROVE call'[x] = "none"
  BY DEF PlaceOK
<1> USE DEF callVars, Goto, OpPc
<1>t. /\ pc \in [Thread -> Pc] /\ call \in [Thread -> Call]
      /\ pc[x] \in {"run"} \cup OpPc => call[x] = "none"
  BY DEF WaitInv, KernelInv, KernelTypeOK, Call, PlaceOK
<1>1. CASE UNCHANGED kernelVars
  BY <1>1, <1>t DEF kernelVars
<1>2. ASSUME NEW v \in Thread, InCall(v) PROVE call'[x] = "none"
  BY <1>2, <1>t DEF InCall, Schedule, Return, SuspendLocked, ResumeLocked, ResumeInsert, DeleteTimer, DeleteClose, DeleteDefunct, At
<1>3. ASSUME NEW v \in Thread, UserCall(v) PROVE call'[x] = "none"
  <2> USE DEF InUser, MayBlock, MayControl
  <2>1. CASE (\E n \in 1 .. MaxTime : Sleep(v, n)) \/ SuspendSelf(v) \/ Yield(v) \/ EnterCritical(v) \/ ExitCritical(v) \/ Exit(v)
    BY <1>t, <2>1 DEF Sleep, SuspendSelf, SuspendFor, Yield, EnterCritical, ExitCritical, Exit
  <2>2. CASE \E u \in Thread : \/ Suspend(v, u) \/ Resume(v, u) \/ Delete(v, u)
                              \/ Create(v, u) \/ Startup(v, u)
                              \/ \E p \in PrioChoices : ChangePriority(v, u, p)
    BY <1>t, <2>2 DEF Suspend, Resume, Delete, Create, Startup, ChangePriority, Begin
  <2> QED BY <1>3, <2>1, <2>2 DEF UserCall
<1>4. CASE IdleExcute \/ Tick \/ \E v \in Thread : Timeout(v)
  BY <1>t, <1>4 DEF IdleExcute, Tick, Timeout
<1> QED BY <1>1, <1>2, <1>3, <1>4 DEF KernelNext, ThreadStep, Interrupt

(***************************************************************************)
(* At most the thread c gives its token or its place in the list up.       *)
(***************************************************************************)
Fades(s, c) ==
  /\ \A x \in Thread : Holds(s, x)' => Holds(s, x)
  /\ \A x \in Thread \ {c} : Holds(s, x) => Holds(s, x)'
  /\ Range(waitq[s]) \ {c} \subseteq Range(waitq'[s])

(* A step after which every thread but c is where it was. *)
LEMMA FadesWhenSame ==
  ASSUME NEW s \in Obj, NEW c \in Thread,
         Range(waitq[s]) \ {c} \subseteq Range(waitq'[s]), Range(waitq'[s]) \subseteq Range(waitq[s]),
         \A x \in Thread \ {c} : \/ ~Holds(s, x) /\ ~Holds(s, x)'
                                 \/ /\ UNCHANGED <<call[x], stat[x], pc[x], err[x]>>
                                    /\ Deleting(x)' <=> Deleting(x),
         Holds(s, c)' => Holds(s, c)
  PROVE  Fades(s, c)
BY DEF Fades, Holds

(* The threads that are being deleted stay so. *)
LEMMA SameDeleting ==
  ASSUME \A v \in Thread : \/ UNCHANGED <<pc[v], arg[v]>>
                           \/ pc[v] \notin {"del1", "del2"} /\ pc'[v] \notin {"del1", "del2"}
                           \/ pc[v] \in {"del1", "del2"} /\ pc'[v] \in {"del1", "del2"} /\ UNCHANGED arg[v]
  PROVE  \A x : Deleting(x)' <=> Deleting(x)
BY DEF Deleting

(* Facts every step below starts from. *)
LEMMA WaitView ==
  ASSUME WaitInv, NEW s \in Obj
  PROVE  /\ pc \in [Thread -> Pc] /\ call \in [Thread -> Call] /\ stat \in [Thread -> Stat]
         /\ err \in [Thread -> Err] /\ arg \in [Thread -> Thread \cup {NoThread}]
         /\ s \notin {"none", "sleep", "suspend"} /\ current \in Thread
         /\ Range(waitq[s]) \subseteq Thread
         /\ \A x \in Range(waitq[s]) : stat[x] = "SUSPEND" /\ call[x] = s
         /\ \A x \in Thread : pc[x] \in {"run"} \cup OpPc => call[x] = "none"
         /\ \A v \in Thread : arg[v] = NoThread <=> pc[v] \notin OpPc
BY KernelAssumption, InvQueues DEF WaitInv, KernelInv, KernelTypeOK, Call, Err, ListsConsistent, PlaceOK, ControlOK, Control

(* rt_schedule, the return of a call, and the end of rt_thread_delete. *)
LEMMA InCallFades ==
  ASSUME WaitInv, NEW s \in Obj, NEW t \in Thread, InCall(t)
  PROVE  \E c \in Thread : Fades(s, c)
<1>f. /\ pc \in [Thread -> Pc] /\ call \in [Thread -> Call] /\ stat \in [Thread -> Stat]
      /\ err \in [Thread -> Err] /\ arg \in [Thread -> Thread \cup {NoThread}]
      /\ s \notin {"none", "sleep", "suspend"} /\ current \in Thread
      /\ Range(waitq[s]) \subseteq Thread
      /\ \A x \in Range(waitq[s]) : stat[x] = "SUSPEND" /\ call[x] = s
      /\ \A x \in Thread : pc[x] \in {"run"} \cup OpPc => call[x] = "none"
      /\ \A v \in Thread : arg[v] = NoThread <=> pc[v] \notin OpPc
  BY WaitView
<1>s. Range(waitq'[s]) \subseteq Range(waitq[s])
  BY KernelShrinksWaits DEF WaitInv, KernelNext, ThreadStep
<1>c. pc[t] \in OpPc => arg[t] \in Thread /\ Control(t)
  BY <1>f DEF WaitInv, KernelInv, ControlOK
<1> USE DEF At, Running, Goto, queueVars, threadVars
<1>1. CASE Schedule(t)
  <2>1. \A x : Deleting(x)' <=> Deleting(x)
    BY <1>f, <1>1, SameDeleting DEF Schedule
  <2>2. Holds(s, t)' => Holds(s, t)
    BY <1>f, <1>1, <2>1 DEF Schedule, Holds
  <2>3. \A x \in Thread \ {t} : UNCHANGED <<call[x], stat[x], pc[x], err[x]>>
    BY <1>f, <1>1 DEF Schedule
  <2>4. UNCHANGED waitq
    BY <1>1 DEF Schedule
  <2> QED BY <1>s, <2>1, <2>2, <2>3, <2>4, FadesWhenSame
<1>2. CASE Return(t)
  <2>1. \A x : Deleting(x)' <=> Deleting(x)
    BY <1>f, <1>2, SameDeleting DEF Return
  <2>2. ~Holds(s, t)'
    BY <1>f, <1>2 DEF Return, Holds
  <2>3. \A x \in Thread \ {t} : UNCHANGED <<call[x], stat[x], pc[x], err[x]>>
    BY <1>f, <1>2 DEF Return
  <2>4. UNCHANGED waitq
    BY <1>2 DEF Return
  <2> QED BY <1>s, <2>1, <2>2, <2>3, <2>4, FadesWhenSame
<1>3. CASE SuspendLocked(t)
  <2>0. arg[t] \in Thread
    BY <1>c, <1>3 DEF SuspendLocked, Control, OpPc
  <2>u. PICK u \in Thread : u = arg[t]
    BY <2>0
  <2>1. u # t /\ stat[u] = "READY"
    BY <2>u, <1>c, <1>3 DEF SuspendLocked, Control, OpPc
  <2>2. \A x : Deleting(x)' <=> Deleting(x)
    BY <1>f, <1>3, SameDeleting DEF SuspendLocked
  <2>3. waitq' = UnlinkAll(waitq, u)
    BY <1>3, <2>u DEF SuspendLocked
  <2>4. Range(waitq'[s]) = Range(waitq[s])
    <3>1. Range(waitq'[s]) = Range(waitq[s]) \ {u}
      BY <2>3, WaitRemoved DEF WaitInv
    <3>2. u \notin Range(waitq[s])
      BY <1>f, <2>1
    <3> QED BY <3>1, <3>2
  <2>5. ~Holds(s, t) /\ ~Holds(s, t)'
    BY <1>f, <1>3 DEF SuspendLocked, Holds, OpPc
  <2>6. \A x \in Thread \ {t} : UNCHANGED <<call[x], pc[x], err[x]>> /\ (x # u => stat'[x] = stat[x])
    BY <1>f, <1>3, <2>u DEF SuspendLocked
  <2>7. Holds(s, u)' => Holds(s, u)
    BY <2>1, <2>2, <2>4, <2>6 DEF Holds
  <2> QED BY <1>s, <2>1, <2>2, <2>4, <2>5, <2>6, <2>7, FadesWhenSame
<1>4. CASE ResumeLocked(t)
  <2>0. arg[t] \in Thread
    BY <1>c, <1>4 DEF ResumeLocked, Control, OpPc, Detached
  <2>u. PICK u \in Thread : u = arg[t]
    BY <2>0
  <2>1. u \notin Range(waitq[s])
    BY <2>u, <1>c, <1>4 DEF ResumeLocked, Control, OpPc, Detached
  <2>2. \A x : Deleting(x)' <=> Deleting(x)
    BY <1>f, <1>4, SameDeleting DEF ResumeLocked
  <2>3. waitq' = UnlinkAll(waitq, u)
    BY <1>4, <2>u DEF ResumeLocked
  <2>4. Range(waitq'[s]) = Range(waitq[s])
    <3>1. Range(waitq'[s]) = Range(waitq[s]) \ {u}
      BY <2>3, WaitRemoved DEF WaitInv
    <3>2. u \notin Range(waitq[s])
      BY <1>f, <2>1
    <3> QED BY <3>1, <3>2
  <2>5. ~Holds(s, t) /\ ~Holds(s, t)'
    BY <1>f, <1>4 DEF ResumeLocked, Holds, OpPc
  <2>6. \A x \in Thread \ {t} : UNCHANGED <<call[x], pc[x], err[x], stat[x]>>
    BY <1>f, <1>4 DEF ResumeLocked
  <2> QED BY <1>s, <2>2, <2>4, <2>5, <2>6, FadesWhenSame
<1>5. CASE ResumeInsert(t)
  <2>0. arg[t] \in Thread
    BY <1>c, <1>5 DEF ResumeInsert, Control, OpPc
  <2>u. PICK u \in Thread : u = arg[t]
    BY <2>0
  <2>1. u # t /\ stat[u] = "SUSPEND"
    BY <2>u, <1>c, <1>5 DEF ResumeInsert, Control, OpPc
  <2>2. \A x : Deleting(x)' <=> Deleting(x)
    BY <1>f, <1>5, SameDeleting DEF ResumeInsert
  <2>4. UNCHANGED waitq
    BY <1>5 DEF ResumeInsert
  <2>5. ~Holds(s, t) /\ ~Holds(s, t)'
    BY <1>f, <1>5 DEF ResumeInsert, Holds, OpPc
  <2>6. \A x \in Thread \ {t} : UNCHANGED <<call[x], pc[x], err[x]>> /\ (x # u => stat'[x] = stat[x])
    BY <1>f, <1>5, <2>u DEF ResumeInsert, InsertThread
  <2>7. Holds(s, u)' => Holds(s, u)
    BY <2>1, <2>2, <2>4, <2>6 DEF Holds
  <2> QED BY <1>s, <2>1, <2>2, <2>4, <2>5, <2>6, <2>7, FadesWhenSame
<1>6. CASE DeleteTimer(t) \/ DeleteDefunct(t)
  <2>2. \A x : Deleting(x)' <=> Deleting(x)
    BY <1>f, <1>6, SameDeleting DEF DeleteTimer, DeleteDefunct
  <2>4. UNCHANGED waitq
    BY <1>6 DEF DeleteTimer, DeleteDefunct
  <2>5. ~Holds(s, t)'
    BY <1>f, <1>6 DEF DeleteTimer, DeleteDefunct, Holds, OpPc
  <2>6. \A x \in Thread \ {t} : UNCHANGED <<call[x], pc[x], err[x], stat[x]>>
    BY <1>f, <1>6 DEF DeleteTimer, DeleteDefunct
  <2> QED BY <1>s, <2>2, <2>4, <2>5, <2>6, FadesWhenSame
<1>7. CASE DeleteClose(t)
  <2>0. arg[t] \in Thread
    BY <1>c, <1>7 DEF DeleteClose, OpPc
  <2>u. PICK u \in Thread : u = arg[t]
    BY <2>0
  <2>1. pc[t] = "del2" /\ pc' = [pc EXCEPT ![t] = "del3"]
    BY <2>u, <1>c, <1>7 DEF DeleteClose, OpPc
  <2>4. UNCHANGED <<waitq, arg>>
    BY <1>7 DEF DeleteClose
  <2>5. ~Holds(s, t) /\ ~Holds(s, t)'
    BY <1>f, <1>7 DEF DeleteClose, Holds, OpPc
  <2>6. stat'[u] = "CLOSE" /\ \A x \in Thread \ {t} : UNCHANGED <<call[x], pc[x], err[x]>> /\ (x # u => stat'[x] = stat[x])
    BY <1>f, <1>7, <2>u, <2>1 DEF DeleteClose
  <2>7. ~Holds(s, u) /\ ~Holds(s, u)'
    BY <2>u, <2>1, <2>6 DEF Holds, Deleting
  <2>8. \A x \in Thread \ {u} : Deleting(x)' <=> Deleting(x)
    BY <1>f, <2>u, <2>1, <2>4 DEF Deleting
  <2> QED BY <1>s, <2>1, <2>4, <2>5, <2>6, <2>7, <2>8, FadesWhenSame
<1> QED BY <1>1, <1>2, <1>3, <1>4, <1>5, <1>6, <1>7 DEF InCall

(* Calls a thread makes for itself. *)
LEMMA OwnCallFades ==
  ASSUME WaitInv, NEW s \in Obj, NEW t \in Thread,
         \/ \E n \in 1 .. MaxTime : Sleep(t, n)
         \/ SuspendSelf(t) \/ Yield(t) \/ EnterCritical(t) \/ ExitCritical(t) \/ Exit(t)
  PROVE  \E c \in Thread : Fades(s, c)
<1>f. /\ pc \in [Thread -> Pc] /\ call \in [Thread -> Call] /\ stat \in [Thread -> Stat]
      /\ err \in [Thread -> Err] /\ arg \in [Thread -> Thread \cup {NoThread}]
      /\ s \notin {"none", "sleep", "suspend"} /\ current \in Thread
      /\ Range(waitq[s]) \subseteq Thread
      /\ \A x \in Range(waitq[s]) : stat[x] = "SUSPEND" /\ call[x] = s
      /\ \A x \in Thread : pc[x] \in {"run"} \cup OpPc => call[x] = "none"
      /\ \A v \in Thread : arg[v] = NoThread <=> pc[v] \notin OpPc
  BY WaitView
<1> USE DEF InUser, Running, MayBlock, Goto, queueVars, threadVars, callVars, SuspendFor,
           Sleep, SuspendSelf, Yield, EnterCritical, ExitCritical, Exit
<1>1. UNCHANGED <<waitq, arg>> /\ pc[t] = "run"
  OBVIOUS
<1>2. \A x \in Thread \ {t} : UNCHANGED <<call[x], pc[x], err[x], stat[x]>>
  BY <1>f
<1>3. pc'[t] \in {"run", "sched"}
  BY <1>f
<1>4. call'[t] \in {"none", "sleep", "suspend"}
  BY <1>f
<1> USE <1>1
<1>5. \A x : Deleting(x)' <=> Deleting(x)
  BY <1>2, <1>3, SameDeleting
<1>6. ~Holds(s, t)'
  BY <1>f, <1>4 DEF Holds
<1> QED BY <1>2, <1>5, <1>6, FadesWhenSame

(* Calls a thread makes on another. *)
LEMMA OtherCallFades ==
  ASSUME WaitInv, NEW s \in Obj, NEW t \in Thread \ {Idle}, NEW u \in Thread,
         \/ Suspend(t, u) \/ Resume(t, u) \/ Delete(t, u) \/ Create(t, u) \/ Startup(t, u)
         \/ \E p \in PrioChoices : ChangePriority(t, u, p)
  PROVE  \E c \in Thread : Fades(s, c)
<1>f. /\ pc \in [Thread -> Pc] /\ call \in [Thread -> Call] /\ stat \in [Thread -> Stat]
      /\ err \in [Thread -> Err] /\ arg \in [Thread -> Thread \cup {NoThread}]
      /\ s \notin {"none", "sleep", "suspend"} /\ current \in Thread
      /\ Range(waitq[s]) \subseteq Thread
      /\ \A x \in Range(waitq[s]) : stat[x] = "SUSPEND" /\ call[x] = s
      /\ \A x \in Thread : pc[x] \in {"run"} \cup OpPc => call[x] = "none"
      /\ \A v \in Thread : arg[v] = NoThread <=> pc[v] \notin OpPc
  BY WaitView
<1>s. Range(waitq'[s]) \subseteq Range(waitq[s])
  BY KernelShrinksWaits DEF WaitInv, KernelNext, ThreadStep, UserCall
<1> USE DEF InUser, Running, MayControl, Begin, Goto, queueVars, threadVars, callVars
<1>1. CASE Suspend(t, u) \/ Resume(t, u)
  <2>1. \A x : Deleting(x)' <=> Deleting(x)
    BY <1>f, <1>1, SameDeleting DEF Suspend, Resume
  <2>2. ~Holds(s, t)'
    BY <1>f, <1>1 DEF Suspend, Resume, Holds
  <2>3. UNCHANGED waitq /\ \A x \in Thread \ {t} : UNCHANGED <<call[x], pc[x], err[x], stat[x]>>
    BY <1>f, <1>1 DEF Suspend, Resume
  <2> QED BY <2>1, <2>2, <2>3, FadesWhenSame
<1>2. CASE Delete(t, u)
  <2>1. pc'[t] = "del1" /\ arg'[t] = u /\ u # t /\ pc[t] = "run" /\ arg[t] = NoThread
    BY <1>f, <1>2 DEF Delete, OpPc
  <2>2. \A v \in Thread \ {t} : UNCHANGED <<call[v], pc[v], err[v], stat[v], arg[v]>>
    BY <1>f, <1>2 DEF Delete
  <2>3. \A x \in Thread \ {u} : Deleting(x)' <=> Deleting(x)
    BY <2>1, <2>2 DEF Deleting
  <2>4. ~Holds(s, t) /\ ~Holds(s, t)'
    BY <1>f, <2>1, <1>2 DEF Holds, Delete
  <2>5. ~Holds(s, u)'
    BY <2>1 DEF Holds, Deleting
  <2>6. waitq' = UnlinkAll(waitq, u)
    BY <1>2 DEF Delete
  <2>7. Range(waitq'[s]) = Range(waitq[s]) \ {u}
    BY <2>6, WaitRemoved DEF WaitInv
  <2> QED BY <2>2, <2>3, <2>4, <2>5, <2>7, FadesWhenSame
<1>3. CASE Create(t, u)
  <2>1. call'[u] = "none" /\ UNCHANGED waitq
    BY <1>f, <1>3 DEF Create
  <2>2. \A v \in Thread \ {u} : UNCHANGED <<call[v], pc[v], err[v], stat[v], arg[v]>>
    BY <1>f, <1>3 DEF Create
  <2>3. pc[u] \notin {"del1", "del2"}
    <3>1. Control(u) /\ nest = 0
      BY <1>3 DEF Create, WaitInv, KernelInv, ControlOK
    <3> QED BY <3>1 DEF Control, OpPc
  <2>4. pc'[u] \notin {"del1", "del2"}
    BY <1>f, <1>3 DEF Create
  <2>5. \A x : Deleting(x)' <=> Deleting(x)
    BY <2>2, <2>3, <2>4, SameDeleting
  <2>6. ~Holds(s, u)'
    BY <1>f, <2>1 DEF Holds
  <2> QED BY <2>1, <2>2, <2>5, <2>6, FadesWhenSame
<1>4. CASE Startup(t, u)
  <2>1. call[u] = "none" /\ UNCHANGED <<waitq, call>> /\ call[t] = "none"
    BY <1>f, <1>4 DEF Startup, WaitInv, FreshOK
  <2>2. \A v \in Thread \ {t, u} : UNCHANGED <<call[v], pc[v], err[v], stat[v], arg[v]>>
    BY <1>f, <1>4 DEF Startup
  <2>3. pc[t] = "run" /\ pc' = [pc EXCEPT ![t] = "start"] /\ arg' = [arg EXCEPT ![t] = u]
    BY <1>4 DEF Startup
  <2>4. \A x : Deleting(x)' <=> Deleting(x)
    BY <1>f, <2>3, SameDeleting
  <2>5. ~Holds(s, u)' /\ ~Holds(s, t)' /\ ~Holds(s, t)
    BY <1>f, <2>1 DEF Holds
  <2> QED BY <2>1, <2>2, <2>4, <2>5, FadesWhenSame
<1>5. CASE \E p \in PrioChoices : ChangePriority(t, u, p)
  <2>1. UNCHANGED <<waitq, call, pc, err, stat, arg>>
    BY <1>5 DEF ChangePriority
  <2>2. \A x : Deleting(x)' <=> Deleting(x)
    BY <2>1 DEF Deleting
  <2>3. Holds(s, t)' => Holds(s, t)
    BY <2>1, <2>2 DEF Holds
  <2> QED BY <2>1, <2>2, <2>3, FadesWhenSame
<1> QED BY <1>1, <1>2, <1>3, <1>4, <1>5

(* Idle thread and tick interrupt. *)
LEMMA InterruptFades ==
  ASSUME WaitInv, NEW s \in Obj, IdleExcute \/ Interrupt
  PROVE  \E c \in Thread : Fades(s, c)
<1>f. /\ pc \in [Thread -> Pc] /\ call \in [Thread -> Call] /\ stat \in [Thread -> Stat]
      /\ err \in [Thread -> Err] /\ arg \in [Thread -> Thread \cup {NoThread}]
      /\ s \notin {"none", "sleep", "suspend"} /\ current \in Thread
      /\ Range(waitq[s]) \subseteq Thread
      /\ \A x \in Range(waitq[s]) : stat[x] = "SUSPEND" /\ call[x] = s
      /\ \A x \in Thread : pc[x] \in {"run"} \cup OpPc => call[x] = "none"
      /\ \A v \in Thread : arg[v] = NoThread <=> pc[v] \notin OpPc
  BY WaitView
<1> USE DEF callVars, threadVars
<1>1. CASE IdleExcute
  <2>1. /\ UNCHANGED <<waitq, pc, call, arg, err>>
        /\ defunct # <<>> /\ stat' = [stat EXCEPT ![Head(defunct)] = "NONE"]
    BY <1>1 DEF IdleExcute
  <2>2. Head(defunct) \in Thread /\ stat[Head(defunct)] = "CLOSE"
    BY <2>1, HeadRange DEF WaitInv, KernelInv, KernelTypeOK, ListsConsistent
  <2>u. PICK u \in Thread : u = Head(defunct)
    BY <2>2
  <2>3. \A x : Deleting(x)' <=> Deleting(x)
    BY <2>1 DEF Deleting
  <2>4. ~Holds(s, u)'
    BY <1>f, <2>1, <2>u DEF Holds
  <2>5. \A x \in Thread \ {u} : UNCHANGED <<call[x], pc[x], err[x], stat[x]>>
    BY <1>f, <2>1, <2>u
  <2> QED BY <2>1, <2>3, <2>4, <2>5, FadesWhenSame
<1>2. CASE Tick
  <2>1. UNCHANGED <<waitq, pc, call, arg, err, stat>>
    BY <1>2 DEF Tick
  <2>2. \A x : Deleting(x)' <=> Deleting(x)
    BY <2>1 DEF Deleting
  <2>4. \A x \in Thread : Holds(s, x)' <=> Holds(s, x)
    BY <2>1, <2>2 DEF Holds
  <2> QED BY <1>f, <2>1, <2>4 DEF Fades
<1>3. ASSUME NEW t \in Thread, Timeout(t) PROVE Fades(s, t)
  <2>1. /\ UNCHANGED <<pc, call, arg>> /\ waitq' = UnlinkAll(waitq, t)
        /\ stat' = [stat EXCEPT ![t] = "READY"] /\ err' = [err EXCEPT ![t] = "TIMEOUT"]
        /\ stat[t] = "SUSPEND"
    BY <1>3 DEF Timeout, MakeReady, WaitInv, KernelInv, TimeoutFindsSuspended
  <2>2. \A x : Deleting(x)' <=> Deleting(x)
    BY <2>1 DEF Deleting
  <2>3. Range(waitq'[s]) = Range(waitq[s]) \ {t}
    BY <2>1, WaitRemoved DEF WaitInv
  <2>4. err'[t] = "TIMEOUT" /\ UNCHANGED <<pc[t], call[t]>>
    BY <1>f, <2>1
  <2>5. Holds(s, t)' => Holds(s, t)
    BY <2>1, <2>2, <2>4 DEF Holds
  <2>6. \A x \in Thread \ {t} : UNCHANGED <<call[x], pc[x], err[x], stat[x]>>
    BY <1>f, <2>1
  <2> QED BY <2>2, <2>3, <2>5, <2>6, FadesWhenSame
<1> QED BY <1>1, <1>2, <1>3 DEF Interrupt

(* A step of the kernel. *)
LEMMA KernelFades ==
  ASSUME WaitInv, [KernelNext]_kernelVars, NEW s \in Obj
  PROVE  \E c \in Thread : Fades(s, c)
<1>1. CASE UNCHANGED kernelVars
  <2>1. UNCHANGED <<waitq, call, stat, pc, err, arg>>
    BY <1>1 DEF kernelVars, queueVars, threadVars, callVars
  <2>2. \A x \in Thread : Holds(s, x)' <=> Holds(s, x)
    BY <2>1 DEF Holds, Deleting
  <2> QED BY <2>1, <2>2, KernelAssumption DEF Fades
<1>2. CASE KernelNext
  BY <1>2, InCallFades, OwnCallFades, OtherCallFades, InterruptFades DEF KernelNext, ThreadStep, UserCall
<1> QED BY <1>1, <1>2

(***************************************************************************)
(* What the steps of an object's functions have in common.                 *)
(***************************************************************************)

(* Facts the steps of a thread in its own code start from. *)
LEMMA CallerView ==
  ASSUME WaitInv, NEW t \in Thread, InUser(t)
  PROVE  /\ current = t /\ due = {} /\ stat[t] = "READY" /\ call[t] = "none" /\ pc[t] = "run"
         /\ timer[t] = 0 /\ ~Flushing(t) /\ t \in Range(ready[prio[t]])
         /\ \A v \in Thread : arg[v] # t
         /\ \A o \in Obj : t \notin Range(waitq[o])
         /\ \A o \in Obj : ~Holds(o, t)
<1>1. current = t /\ due = {} /\ pc[t] = "run" /\ call[t] = "none"
  BY DEF InUser, Running, WaitInv, PlaceOK
<1>2. stat[t] = "READY"
  BY <1>1 DEF WaitInv, KernelInv, CurrentOK
<1>3. \A o \in Obj : ~Holds(o, t)
  BY <1>1 DEF Holds
<1> QED BY <1>1, <1>2, <1>3, RunningThread DEF WaitInv, Flushing

(* The running thread t moves, others stay where they are. *)
LEMMA PlacesKept ==
  ASSUME WaitInv, KernelInv', NEW t \in Thread, stat'[t] # "INIT",
         pc'[t] = "run" => call'[t] = "none", pc'[t] \notin OpPc,
         \A x \in Thread \ {t} : /\ UNCHANGED <<pc[x], call[x]>>
                                 /\ stat'[x] = "INIT" => stat[x] = "INIT",
         \A o \in Obj : \A x \in Range(waitq'[o]) :
           \/ x \in Range(waitq[o]) /\ x # t /\ UNCHANGED err[x]
           \/ x = t /\ pc'[x] = "sched" /\ err'[x] = "EOK"
  PROVE  WaitInv'
<1>1. FreshOK'
  <2> SUFFICES ASSUME NEW x \in Thread, stat'[x] = "INIT" PROVE call'[x] = "none"
    BY DEF FreshOK
  <2> QED BY DEF WaitInv, FreshOK
<1>2. PlaceOK'
  <2> SUFFICES ASSUME NEW x \in Thread, pc'[x] \in {"run"} \cup OpPc PROVE call'[x] = "none"
    BY DEF PlaceOK
  <2> QED BY DEF WaitInv, PlaceOK
<1>3. WaitPlace'
  <2> SUFFICES ASSUME NEW o \in Obj, NEW x \in Range(waitq'[o])
               PROVE  pc'[x] \in {"sched", "blocked"} /\ err'[x] = "EOK"
    BY DEF WaitPlace
  <2>1. CASE x \in Range(waitq[o]) /\ x # t /\ UNCHANGED err[x]
    <3>1. x \in Thread \ {t}
      BY <2>1, InvQueues DEF WaitInv
    <3> QED BY <2>1, <3>1 DEF WaitInv, WaitPlace
  <2> QED BY <2>1
<1> QED BY <1>1, <1>2, <1>3 DEF WaitInv

(* The others hold what they held. *)
LEMMA HoldsKept ==
  ASSUME NEW t \in Thread, pc[t] \notin {"del1", "del2"}, pc'[t] \notin {"del1", "del2"},
         UNCHANGED arg, \A v \in Thread \ {t} : UNCHANGED <<pc[v], call[v]>>,
         NEW x \in Thread \ {t}, UNCHANGED <<stat[x], err[x]>>,
         NEW o \in Obj, x \in Range(waitq'[o]) <=> x \in Range(waitq[o])
  PROVE  Holds(o, x)' <=> Holds(o, x)
<1>1. \A y : Deleting(y)' <=> Deleting(y)
  BY SameDeleting
<1> QED BY <1>1 DEF Holds

(* The caller goes to another place in its own code or in a flush. *)
LEMMA MoveStep ==
  ASSUME WaitInv, KernelInv', NEW t \in Thread, stat[t] = "READY",
         \A o \in Obj : t \notin Range(waitq[o]),
         pc[t] \in {"run", "flush", "flushlock"}, pc'[t] \in {"run", "flush", "flushlock"},
         pc'[t] = "run" => call'[t] = "none",
         \A x \in Thread \ {t} : UNCHANGED <<pc[x], call[x]>>,
         UNCHANGED <<waitq, stat, err, arg>>
  PROVE  WaitInv' /\ \A o \in Obj, x \in Thread : Holds(o, x)' <=> Holds(o, x)
<1>1. WaitInv'
  <2>1. \A y \in Obj : \A x \in Range(waitq'[y]) : x \in Range(waitq[y]) /\ x # t /\ UNCHANGED err[x]
    OBVIOUS
  <2>2. stat'[t] # "INIT" /\ pc'[t] \notin OpPc
    BY DEF OpPc
  <2>3. \A x \in Thread \ {t} : UNCHANGED <<pc[x], call[x]>> /\ (stat'[x] = "INIT" => stat[x] = "INIT")
    OBVIOUS
  <2> QED BY <2>1, <2>2, <2>3, PlacesKept
<1>2. ASSUME NEW o \in Obj, NEW x \in Thread PROVE Holds(o, x)' <=> Holds(o, x)
  <2>1. CASE x = t
    BY <2>1 DEF Holds
  <2>2. CASE x # t
    <3>1. pc[t] \notin {"del1", "del2"} /\ pc'[t] \notin {"del1", "del2"}
      OBVIOUS
    <3> QED BY <2>2, <3>1, HoldsKept
  <2> QED BY <2>1, <2>2
<1> QED BY <1>1, <1>2

(***************************************************************************)
(* Recursion along a sequence, as in the wake-up of several threads in one *)
(* locked section.                                                         *)
(***************************************************************************)

(* Induction up to n. *)
LEMMA Stepwise ==
  ASSUME NEW n \in Nat, NEW P, 0 \in P, \A k \in 1 .. n : k - 1 \in P => k \in P
  PROVE  0 .. n \subseteq P
<1> SUFFICES ASSUME ~(0 .. n \subseteq P) PROVE FALSE
  OBVIOUS
<1> DEFINE S == (0 .. n) \ P
<1>1. S \subseteq Nat /\ S # {}
  OBVIOUS
<1>2. PICK m \in S : \A x \in S : m <= x
  <2> HIDE DEF S
  <2> QED BY <1>1, MinProperties
<1>3. m \in 1 .. n /\ m - 1 \in 0 .. n /\ ~(m <= m - 1)
  OBVIOUS
<1>4. m - 1 \in P
  BY <1>2, <1>3
<1> QED BY <1>3, <1>4

(* A sequence of values, each made of the one before by a function. *)
Recursion(n, S, first, G, h) ==
  h \in [0 .. n -> S] /\ h[0] = first /\ \A k \in 1 .. n : h[k] = G[k][h[k - 1]]

LEMMA RecursionExists ==
  ASSUME NEW n \in Nat, NEW S, NEW first \in S, NEW G, G \in [1 .. n -> [S -> S]]
  PROVE  \E h : Recursion(n, S, first, G, h)
<1> DEFINE Upto(m, h) == h[0] = first /\ \A k \in 1 .. m : h[k] = G[k][h[k - 1]]
           P == {m \in 0 .. n : \E h \in [0 .. m -> S] : Upto(m, h)}
<1>1. 0 \in P
  <2> DEFINE h == [i \in 0 .. 0 |-> first]
  <2>1. h \in [0 .. 0 -> S] /\ Upto(0, h)
    OBVIOUS
  <2>2. \E g \in [0 .. 0 -> S] : Upto(0, g)
    BY <2>1
  <2> HIDE DEF Upto
  <2> QED BY <2>2
<1>2. ASSUME NEW m \in 1 .. n, m - 1 \in P PROVE m \in P
  <2>1. PICK g \in [0 .. m - 1 -> S] : Upto(m - 1, g)
    BY <1>2
  <2> DEFINE h == [i \in 0 .. m |-> IF i = m THEN G[m][g[m - 1]] ELSE g[i]]
  <2>2. h \in [0 .. m -> S]
    OBVIOUS
  <2>3. h[0] = first
    BY <2>1
  <2>4. ASSUME NEW k \in 1 .. m PROVE h[k] = G[k][h[k - 1]]
    <3>1. k - 1 \in 0 .. m - 1 /\ h[k - 1] = g[k - 1]
      OBVIOUS
    <3>2. CASE k = m
      BY <3>1, <3>2
    <3>3. CASE k # m
      <4>1. k \in 1 .. m - 1 /\ h[k] = g[k]
        BY <3>3
      <4> QED BY <2>1, <3>1, <4>1
    <3> QED BY <3>2, <3>3
  <2>5. Upto(m, h)
    <3> HIDE DEF h
    <3> QED BY <2>3, <2>4
  <2>6. \E f \in [0 .. m -> S] : Upto(m, f)
    <3> HIDE DEF h, Upto
    <3> QED BY <2>2, <2>5
  <2> HIDE DEF Upto
  <2> QED BY <2>6
<1> HIDE DEF P
<1>3. 0 .. n \subseteq P
  BY <1>1, <1>2, Stepwise
<1>4. n \in P
  BY <1>3
<1> QED BY <1>4 DEF P, Recursion

(* The lists after the threads of woken, which are in no ready queue, have *)
(* become ready one after the other.                                       *)
LEMMA ListsAfterProperties ==
  ASSUME QOK(ready, mask), WOK(waitq), prio \in [Thread -> Prio],
         NEW woken \in Seq(Thread), IsInjective(woken),
         \A t \in Range(woken), p \in Prio : t \notin Range(ready[p])
  PROVE  /\ ListsAfter(woken).ready \in [Prio -> Seq(Thread)]
         /\ \A p \in Prio : /\ IsInjective(ListsAfter(woken).ready[p])
                            /\ Range(ListsAfter(woken).ready[p]) =
                                 Range(ready[p]) \cup {t \in Range(woken) : prio[t] = p}
         /\ WOK(ListsAfter(woken).waitq)
         /\ \A o \in Obj : Range(ListsAfter(woken).waitq[o]) = Range(waitq[o]) \ Range(woken)
<1> DEFINE n == Len(woken)
           Served(r, t) == [ready |-> [r.ready EXCEPT ![prio[t]] = Append(@, t)],
                            waitq |-> UnlinkAll(r.waitq, t)]
           first == [ready |-> ready, waitq |-> waitq]
           S == {r \in [ready : [Prio -> Seq(Thread)], waitq : [Obj -> Seq(Thread)]] :
                   \A o \in Obj : IsInjective(r.waitq[o])}
<1>n. n \in Nat /\ \A k \in 1 .. n : woken[k] \in Thread
  BY ElementOfSeq
<1>s. first \in S
  BY DEF QOK, WOK
<1>v. ASSUME NEW r \in S, NEW t \in Thread PROVE Served(r, t) \in S
  <2>1. /\ r.ready \in [Prio -> Seq(Thread)] /\ r.waitq \in [Obj -> Seq(Thread)]
        /\ \A o \in Obj : IsInjective(r.waitq[o])
    OBVIOUS
  <2>2. /\ UnlinkAll(r.waitq, t) \in [Obj -> Seq(Thread)]
        /\ \A o \in Obj : IsInjective(UnlinkAll(r.waitq, t)[o])
    BY <2>1, UnlinkAllProperties DEF Unlinked
  <2>3. [r.ready EXCEPT ![prio[t]] = Append(@, t)] \in [Prio -> Seq(Thread)]
    BY <2>1
  <2> QED BY <2>2, <2>3
<1> DEFINE F == CHOOSE f : f = [i \in 0 .. n |-> IF i = 0 THEN first ELSE Served(f[i - 1], woken[i])]
<1>f. F = [i \in 0 .. n |-> IF i = 0 THEN first ELSE Served(F[i - 1], woken[i])]
  <2> DEFINE G == [k \in 1 .. n |-> [r \in S |-> Served(r, woken[k])]]
  <2>1. G \in [1 .. n -> [S -> S]]
    <3> HIDE DEF S, Served, n
    <3> QED BY <1>n, <1>v
  <2>2. PICK h \in [0 .. n -> S] : h[0] = first /\ \A k \in 1 .. n : h[k] = G[k][h[k - 1]]
    <3> HIDE DEF S, G, first, n, Served, F
    <3>1. n \in Nat
      BY <1>n
    <3>2. \E h : Recursion(n, S, first, G, h)
      BY <3>1, <1>s, <2>1, RecursionExists
    <3> QED BY <3>2 DEF Recursion
  <2>3. ASSUME NEW k \in 1 .. n PROVE h[k] = Served(h[k - 1], woken[k])
    <3>1. k - 1 \in 0 .. n
      BY <1>n
    <3> HIDE DEF S, Served, n
    <3> QED BY <2>2, <3>1
  <2>4. h = [i \in 0 .. n |-> IF i = 0 THEN first ELSE Served(h[i - 1], woken[i])]
    <3> HIDE DEF S, Served, n, first, G
    <3> QED BY <1>n, <2>2, <2>3
  <2> HIDE DEF S, Served, n, first, G
  <2> QED BY <2>4
<1>r. ListsAfter(woken) = F[n]
  BY DEF ListsAfter
<1> DEFINE Upto(k) == {woken[j] : j \in 1 .. k}
           P == {k \in 0 .. n :
                  /\ F[k] \in S
                  /\ \A p \in Prio : /\ IsInjective(F[k].ready[p])
                                     /\ Range(F[k].ready[p]) = Range(ready[p]) \cup {t \in Upto(k) : prio[t] = p}
                  /\ \A o \in Obj : Range(F[k].waitq[o]) = Range(waitq[o]) \ Upto(k)}
<1>0. F[0] = first /\ \A k \in 1 .. n : F[k] = Served(F[k - 1], woken[k])
  <2> HIDE DEF F, first, Served, n
  <2> QED BY <1>f, <1>n
<1> HIDE DEF F
<1>1. 0 \in P
  <2>1. Upto(0) = {}
    OBVIOUS
  <2>2. F[0].ready = ready /\ F[0].waitq = waitq
    BY <1>0
  <2>3. \A p \in Prio : IsInjective(ready[p])
    BY DEF QOK
  <2> HIDE DEF S, Upto, first
  <2> QED BY <1>n, <1>s, <1>0, <2>1, <2>2, <2>3
<1>2. ASSUME NEW k \in 1 .. n, k - 1 \in P PROVE k \in P
  <2> DEFINE r == F[k - 1]  t == woken[k]
  <2>1. /\ r \in S
        /\ \A p \in Prio : /\ IsInjective(r.ready[p])
                           /\ Range(r.ready[p]) = Range(ready[p]) \cup {x \in Upto(k - 1) : prio[x] = p}
        /\ \A o \in Obj : Range(r.waitq[o]) = Range(waitq[o]) \ Upto(k - 1)
    BY <1>2
  <2>2. F[k] = Served(r, t) /\ t \in Thread /\ k \in 1 .. n
    BY <1>0, <1>n
  <2>3. F[k] \in S
    <3> HIDE DEF S, Served, r, t, n
    <3> QED BY <1>v, <2>1, <2>2
  <2>4. Upto(k) = Upto(k - 1) \cup {t}
    OBVIOUS
  <2>5. t \notin Upto(k - 1) /\ t \in Range(woken)
    <3>1. DOMAIN woken = 1 .. n
      OBVIOUS
    <3> QED BY <3>1, <1>n DEF IsInjective, Range
  <2>6. \A p \in Prio : t \notin Range(r.ready[p])
    BY <2>1, <2>5
  <2>7. r.ready \in [Prio -> Seq(Thread)] /\ r.waitq \in [Obj -> Seq(Thread)] /\ \A o \in Obj : IsInjective(r.waitq[o])
    BY <2>1
  <2>8. F[k].ready = [r.ready EXCEPT ![prio[t]] = Append(@, t)] /\ F[k].waitq = UnlinkAll(r.waitq, t)
    BY <2>2
  <2> HIDE DEF r, t, S, Served, Upto
  <2>9. ASSUME NEW p \in Prio
        PROVE  /\ IsInjective(F[k].ready[p])
               /\ Range(F[k].ready[p]) = Range(ready[p]) \cup {x \in Upto(k) : prio[x] = p}
    <3>1. CASE p = prio[t]
      <4>1. F[k].ready[p] = Append(r.ready[p], t)
        BY <2>7, <2>8, <3>1
      <4>2. IsInjective(F[k].ready[p]) /\ Range(F[k].ready[p]) = Range(r.ready[p]) \cup {t}
        BY <2>1, <2>2, <2>6, <2>7, <4>1, AppendRange
      <4> QED BY <2>1, <2>4, <3>1, <4>2
    <3>2. CASE p # prio[t]
      <4>1. F[k].ready[p] = r.ready[p]
        BY <2>7, <2>8, <3>2
      <4> QED BY <2>1, <2>4, <3>2, <4>1
    <3> QED BY <3>1, <3>2
  <2>10. ASSUME NEW o \in Obj PROVE Range(F[k].waitq[o]) = Range(waitq[o]) \ Upto(k)
    <3>1. Range(F[k].waitq[o]) = Range(r.waitq[o]) \ {t}
      <4>1. Unlinked(Obj, UnlinkAll(r.waitq, t), r.waitq, t)
        BY <2>2, <2>7, UnlinkAllProperties
      <4> QED BY <2>8, <4>1 DEF Unlinked
    <3> QED BY <2>1, <2>4, <3>1
  <2> QED BY <1>n, <2>3, <2>9, <2>10
<1>3. n \in P
  <2>1. 0 .. n \subseteq P
    <3> HIDE DEF P, n
    <3> QED BY <1>n, <1>1, <1>2, Stepwise
  <2>2. n \in 0 .. n
    BY <1>n
  <2> HIDE DEF P, n
  <2> QED BY <2>1, <2>2
<1>4. Upto(n) = Range(woken)
  BY DEF Range
<1> HIDE DEF Upto, n, Served, first
<1> QED BY <1>r, <1>3, <1>4 DEF WOK
=============================================================================
