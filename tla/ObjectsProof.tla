---------------------------- MODULE ObjectsProof ----------------------------
(***************************************************************************)
(* Proofs about events, mailboxes, message queues, data queues and         *)
(* completions on one kernel, for any number of threads and objects: no    *)
(* wait misses what ends it, and each event implements EventGroup.         *)
(***************************************************************************)
EXTENDS Objects, KernelProof, FiniteSetTheorems

(***************************************************************************)
(* The inductive invariant: where the threads are.                         *)
(***************************************************************************)

(* Completions are not detached.  The senders of a mailbox wait without a  *)
(* timer while its receivers are woken, who are gone when the senders'     *)
(* turn comes; the pushers of a data queue are gone before it is reset.    *)
FlushAt(k) ==
  \/ k \in Ev \cup Mq
  \/ k \in Mb /\ \A u \in Range(waitq[Tx[k]]) : timer[u] = 0 /\ u \notin due
  \/ \E mb \in Mb : k = Tx[mb] /\ waitq[mb] = <<>>
  \/ \E q \in Dq : k \in {q, PushList[q]} /\ waitq[PushList[q]] = <<>>

FlushPlace == \A t \in Thread : Flushing(t) => FlushAt(call[t])

(* Nobody controls a thread that waits, so it is suspended only there.     *)
CallerPc == {"run", "sched", "blocked", "start", "startins", "got", "flush", "flushlock"}

CallerOK ==
  \A t \in Thread :
    /\ pc[t] \in CallerPc /\ stat[t] \in {"INIT", "READY", "SUSPEND"}
    /\ stat[t] = "SUSPEND" /\ call[t] \in Obj => t \in Range(waitq[call[t]])

(* A thread that comes back to the test of a waiting call holds no lock of *)
(* the scheduler.                                                          *)
NestOK == nest > 0 /\ pc[current] \in {"sched", "blocked"} => call[current] = "none"

CoreInv == WaitInv /\ FlushOK /\ FlushPlace /\ CallerOK /\ NestOK

(* What the lists a flush relies on are like goes on being so. *)
LEMMA FlushAtKept ==
  ASSUME KernelInv, KernelInv', NEW k, FlushAt(k),
         \A o \in Obj : Range(waitq'[o]) \subseteq Range(waitq[o]),
         \A o \in Obj : \A x \in Range(waitq'[o]) :
           timer[x] = 0 /\ x \notin due => timer'[x] = 0 /\ x \notin due'
  PROVE  FlushAt(k)'
<1>1. ASSUME NEW o \in Obj, waitq[o] = <<>> PROVE waitq'[o] = <<>>
  <2>1. waitq[o] \in Seq(Thread) /\ waitq'[o] \in Seq(Thread)
    BY DEF KernelInv, KernelTypeOK
  <2>2. Range(waitq[o]) = {}
    BY <1>1 DEF Range
  <2>3. Range(waitq'[o]) = {}
    BY <2>2
  <2> QED BY <2>1, <2>3, HeadRange
<1>2. CASE k \in Ev \cup Mq
  BY <1>2 DEF FlushAt
<1>3. CASE k \in Mb /\ \A u \in Range(waitq[Tx[k]]) : timer[u] = 0 /\ u \notin due
  <2>1. Tx[k] \in Obj
    BY <1>3, MailboxAssumption
  <2>2. \A u \in Range(waitq'[Tx[k]]) : timer'[u] = 0 /\ u \notin due'
    BY <1>3, <2>1
  <2> QED BY <1>3, <2>2 DEF FlushAt
<1>4. CASE \E mb \in Mb : k = Tx[mb] /\ waitq[mb] = <<>>
  BY <1>1, <1>4, MailboxAssumption DEF FlushAt
<1>5. CASE \E q \in Dq : k \in {q, PushList[q]} /\ waitq[PushList[q]] = <<>>
  BY <1>1, <1>5, DataQueueAssumption DEF FlushAt
<1> QED BY <1>2, <1>3, <1>4, <1>5 DEF FlushAt

(* A data queue that is being reset has no pusher left.                    *)
LEMMA DqPlace ==
  ASSUME NEW q \in Dq, NEW k \in {q, PushList[q]}, FlushAt(k)
  PROVE  waitq[PushList[q]] = <<>>
<1>1. k \notin Ev \cup Mq /\ k \notin Mb
  BY ObjectsAssumption
<1>2. ~\E mb \in Mb : k = Tx[mb]
  BY ObjectsAssumption
<1>3. PICK r \in Dq : k \in {r, PushList[r]} /\ waitq[PushList[r]] = <<>>
  BY <1>1, <1>2 DEF FlushAt
<1>4. r = q
  BY <1>3, ObjectsAssumption, DataQueueAssumption
<1> QED BY <1>3, <1>4

(***************************************************************************)
(* Several threads are woken in one locked section.                        *)
(***************************************************************************)

(* The lists WakeEach leaves behind are those of the kernel. *)
LEMMA WakeEachProperties ==
  ASSUME KernelInv, NEW woken \in Seq(Thread), IsInjective(woken),
         OnLists(Range(woken)), WakeEach(woken), UNCHANGED prio,
         \A x \in Thread : Deleting(x) => Deleting(x)'
  PROVE  /\ WOK(waitq') /\ \A x \in Obj : Range(waitq'[x]) = Range(waitq[x]) \ Range(woken)
         /\ QOK(ready', mask') /\ QueuesConsistent'
         /\ \A x \in Thread \ Range(woken) : (\A p \in Prio : x \notin Range(ready[p])) =>
                                             \A p \in Prio : x \notin Range(ready'[p])
<1> DEFINE w == Range(woken)
<1>1. /\ stat' = [x \in Thread |-> IF x \in w THEN "READY" ELSE stat[x]]
      /\ mask' = mask \cup {prio[t] : t \in w}
      /\ ready' = ListsAfter(woken).ready /\ waitq' = ListsAfter(woken).waitq
  BY DEF WakeEach
<1>2. /\ QOK(ready, mask) /\ WOK(waitq) /\ prio \in [Thread -> Prio] /\ mask \in SUBSET Prio
      /\ ready \in [Prio -> Seq(Thread)]
  BY InvQueues DEF KernelInv, KernelTypeOK
<1>3. \A t \in w : t \in Thread /\ stat[t] = "SUSPEND"
  BY WaiterFacts DEF OnLists
<1>4. \A t \in w, p \in Prio : t \notin Range(ready[p])
  BY <1>3 DEF KernelInv, QueuesConsistent
<1>5. /\ ready' \in [Prio -> Seq(Thread)]
      /\ \A p \in Prio : /\ IsInjective(ready'[p])
                         /\ Range(ready'[p]) = Range(ready[p]) \cup {t \in w : prio[t] = p}
      /\ WOK(waitq') /\ \A x \in Obj : Range(waitq'[x]) = Range(waitq[x]) \ w
  BY ZenonT(60), <1>1, <1>2, <1>4, ListsAfterProperties
<1> HIDE DEF w
<1>6. QOK(ready', mask')
  <2>1. mask' \in SUBSET Prio
    BY <1>1, <1>2, <1>3
  <2>2. ASSUME NEW p \in Prio PROVE p \in mask' <=> ready'[p] # <<>>
    <3>1. p \in mask <=> Range(ready[p]) # {}
      BY <1>2, HeadRange DEF QOK
    <3>2. ready'[p] # <<>> <=> Range(ready'[p]) # {}
      BY <1>5, HeadRange
    <3>3. p \in mask' <=> p \in mask \/ \E t \in w : prio[t] = p
      BY <1>1
    <3> QED BY <1>5, <3>1, <3>2, <3>3
  <2> QED BY <1>5, <2>1, <2>2 DEF QOK
<1>7. QueuesConsistent'
  <2>1. ASSUME NEW p \in Prio, NEW t \in Range(ready'[p]) PROVE stat'[t] = "READY" /\ prio'[t] = p
    <3>1. CASE t \in w
      BY <1>1, <1>3, <1>5, <3>1, <1>4
    <3>2. CASE t \notin w
      <4>1. t \in Range(ready[p])
        BY <1>5, <3>2
      <4>2. t \in Thread /\ stat[t] = "READY" /\ prio[t] = p
        BY <4>1, InvQueues DEF KernelInv, QueuesConsistent
      <4> QED BY <1>1, <3>2, <4>2
    <3> QED BY <3>1, <3>2
  <2>2. ASSUME NEW t \in Thread, stat'[t] = "READY" PROVE t \in Range(ready'[prio'[t]]) \/ Deleting(t)'
    <3>1. prio[t] \in Prio
      BY <1>2
    <3>2. CASE t \in w
      BY <1>5, <3>1, <3>2
    <3>3. CASE t \notin w
      <4>1. stat[t] = "READY"
        BY <1>1, <2>2, <3>3
      <4>2. t \in Range(ready[prio[t]]) \/ Deleting(t)
        BY <4>1 DEF KernelInv, QueuesConsistent
      <4> QED BY <1>5, <3>1, <4>2
    <3> QED BY <3>2, <3>3
  <2>3. \A p \in Prio : IsInjective(ready'[p]) /\ (p \in mask' <=> ready'[p] # <<>>)
    BY <1>6 DEF QOK
  <2> QED BY <2>1, <2>2, <2>3 DEF QueuesConsistent
<1>8. \A x \in Thread \ w : (\A p \in Prio : x \notin Range(ready[p])) =>
                             \A p \in Prio : x \notin Range(ready'[p])
  BY <1>5
<1> QED BY <1>5, <1>6, <1>7, <1>8 DEF w

(* ... and so is the kernel.                                               *)
LEMMA WakeEachStep ==
  ASSUME KernelInv, due = {}, NEW woken \in Seq(Thread), IsInjective(woken),
         OnLists(Range(woken)), WakeEach(woken),
         UNCHANGED <<defunct, prio, slice, arg, nest, due>>, err' \in [Thread -> Err],
         pc' \in [Thread -> Pc], pc'[Idle] = "run",
         \A v \in Thread : pc'[v] = pc[v] \/ (pc'[v] \notin OpPc /\ pc[v] \notin OpPc),
         call' \in [Thread -> Call],
         \A v \in Thread : stat[v] = "SUSPEND" => call'[v] = call[v],
         \/ /\ pc[current] # "sched" /\ UNCHANGED current
            /\ lag' \in BOOLEAN /\ (lag' \/ pc'[current] \in {"sched", "reset"})
         \/ DoSchedule /\ UNCHANGED pc
  PROVE  KernelInv' /\ \A x \in Obj : Range(waitq'[x]) = Range(waitq[x]) \ Range(woken)
<1>1. \A x \in Thread : Deleting(x) => Deleting(x)'
  BY DEF Deleting, OpPc
<1>2. /\ WOK(waitq') /\ \A x \in Obj : Range(waitq'[x]) = Range(waitq[x]) \ Range(woken)
      /\ QOK(ready', mask') /\ QueuesConsistent'
      /\ \A x \in Thread \ Range(woken) : (\A p \in Prio : x \notin Range(ready[p])) =>
                                          \A p \in Prio : x \notin Range(ready'[p])
  BY <1>1, WakeEachProperties
<1>3. /\ stat' = [x \in Thread |-> IF x \in Range(woken) THEN "READY" ELSE stat[x]]
      /\ timer' = [x \in Thread |-> IF x \in Range(woken) THEN 0 ELSE timer[x]]
  BY DEF WakeEach
<1>4. prio' \in [Thread -> Prio] /\ prio'[Idle] = prio[Idle]
  BY DEF KernelInv, KernelTypeOK
<1>5. KernelInv'
  BY <1>2, <1>3, <1>4, WakeSetStep
<1> QED BY <1>2, <1>5

(***************************************************************************)
(* Steps of threads and interrupt handlers.                                *)
(***************************************************************************)

(* The facts about the state that the steps below start from. *)
LEMMA CoreView ==
  ASSUME CoreInv
  PROVE  /\ KernelInv /\ current \in Thread /\ nest \in 0 .. MaxNest
         /\ pc \in [Thread -> Pc] /\ call \in [Thread -> Call] /\ err \in [Thread -> Err]
         /\ stat \in [Thread -> Stat] /\ timer \in [Thread -> 0 .. MaxTime]
         /\ pc[Idle] = "run" /\ waitq \in [Obj -> Seq(Thread)]
         /\ pc[current] # "sched" => stat[current] = "READY"
         /\ "none" \notin Obj /\ "sleep" \notin Obj /\ "suspend" \notin Obj
         /\ \A x \in Obj : Range(waitq[x]) \subseteq Thread
         /\ \A x \in Obj : \A u \in Range(waitq[x]) :
              stat[u] = "SUSPEND" /\ call[u] = x /\ pc[u] \in {"sched", "blocked"} /\ err[u] = "EOK"
<1>1. KernelInv /\ WaitPlace
  BY DEF CoreInv, WaitInv
<1>2. \A x \in Obj : Range(waitq[x]) \subseteq Thread
  BY <1>1, InvQueues
<1> QED BY ZenonT(60), <1>1, <1>2, KernelAssumption
    DEF KernelInv, KernelTypeOK, Call, Err, IdleOK, CurrentOK, ListsConsistent, WaitPlace

(* What a step does to the threads: those of w, which wait, are woken, and *)
(* the thread t may change its place.                                      *)
Steps(t, w) ==
  /\ \A x \in w : \E o \in Obj : x \in Range(waitq[o])
  /\ stat' = [x \in Thread |-> IF x \in w THEN "READY" ELSE stat[x]]
  /\ \A x \in Obj : Range(waitq'[x]) = Range(waitq[x]) \ w
  /\ \A x \in Thread \ w : UNCHANGED <<err[x], timer[x]>>
  /\ UNCHANGED due
  /\ \A x \in Thread \ {t} : UNCHANGED <<pc[x], call[x]>>

LEMMA StepsWaits ==
  ASSUME CoreInv, NEW t \in Thread, NEW w, Steps(t, w), KernelInv',
         (\E o \in Obj : t \in Range(waitq[o])) => UNCHANGED <<pc[t], call[t]>>,
         stat[t] = "READY" \/ UNCHANGED <<pc[t], call[t]>>,
         pc'[t] \in CallerPc, pc'[t] \in {"run", "start", "startins"} => call'[t] = "none"
  PROVE  WaitInv' /\ CallerOK'
<1> USE DEF Steps
<1>1. /\ \A x \in w : x \in Thread /\ stat[x] = "SUSPEND"
  BY CoreView
<1>2. FreshOK'
  <2> SUFFICES ASSUME NEW x \in Thread, stat'[x] = "INIT" PROVE call'[x] = "none"
    BY DEF FreshOK
  <2>1. x \notin w /\ stat[x] = "INIT"
    OBVIOUS
  <2>2. call[x] = "none"
    BY <2>1 DEF CoreInv, WaitInv, FreshOK
  <2> QED BY <2>1, <2>2
<1>3. PlaceOK'
  <2> SUFFICES ASSUME NEW x \in Thread, pc'[x] \in {"run"} \cup OpPc PROVE call'[x] = "none"
    BY DEF PlaceOK
  <2>1. CASE x = t
    BY <2>1 DEF CallerPc, OpPc
  <2>2. CASE x # t
    BY <2>2 DEF CoreInv, WaitInv, PlaceOK
  <2> QED BY <2>1, <2>2
<1>4. WaitPlace'
  <2> SUFFICES ASSUME NEW s \in Obj, NEW x \in Range(waitq'[s])
               PROVE  pc'[x] \in {"sched", "blocked"} /\ err'[x] = "EOK"
    BY DEF WaitPlace
  <2>1. x \in Range(waitq[s]) /\ x \notin w
    OBVIOUS
  <2>2. x \in Thread /\ pc[x] \in {"sched", "blocked"} /\ err[x] = "EOK"
    BY <2>1, CoreView
  <2>3. UNCHANGED <<pc[x], call[x]>>
    BY <2>1, <2>2
  <2> QED BY <2>1, <2>2, <2>3
<1>5. CallerOK'
  <2> SUFFICES ASSUME NEW x \in Thread
               PROVE  /\ pc'[x] \in CallerPc /\ stat'[x] \in {"INIT", "READY", "SUSPEND"}
                      /\ stat'[x] = "SUSPEND" /\ call'[x] \in Obj => x \in Range(waitq'[call'[x]])
    BY DEF CallerOK
  <2>1. pc[x] \in CallerPc /\ stat[x] \in {"INIT", "READY", "SUSPEND"}
    BY DEF CoreInv, CallerOK
  <2>2. ASSUME stat'[x] = "SUSPEND", call'[x] \in Obj PROVE x \in Range(waitq'[call'[x]])
    <3>1. x \notin w /\ stat[x] = "SUSPEND"
      BY <2>2
    <3>2. call'[x] = call[x]
      BY <3>1
    <3>3. x \in Range(waitq[call[x]])
      BY <2>2, <3>1, <3>2 DEF CoreInv, CallerOK
    <3> QED BY <2>2, <3>1, <3>2, <3>3
  <2>3. pc'[x] \in CallerPc
    BY <2>1
  <2> QED BY <2>1, <2>2, <2>3
<1> QED BY <1>2, <1>3, <1>4, <1>5 DEF WaitInv

(* A thread moves on in its own call. *)
LEMMA ThreadKeeps ==
  ASSUME CoreInv, NEW t \in Thread, NEW w, Steps(t, w), KernelInv',
         current = t, current' = t, pc[t] # "sched",
         pc'[t] \in {"run", "sched", "got"}, pc'[t] \in {"run", "sched"} => call'[t] = "none"
  PROVE  CoreInv'
<1> USE DEF Steps
<1>1. stat[t] = "READY"
  BY CoreView
<1>2. ~\E x \in Obj : t \in Range(waitq[x])
  <2> SUFFICES ASSUME NEW x \in Obj, t \in Range(waitq[x]) PROVE FALSE
    OBVIOUS
  <2> QED BY <1>1, CoreView
<1>3. WaitInv' /\ CallerOK'
  BY <1>1, <1>2, StepsWaits DEF CallerPc
<1>4. \A x \in Thread : ~Flushing(x)'
  <2> SUFFICES ASSUME NEW x \in Thread, Flushing(x)' PROVE FALSE
    OBVIOUS
  <2>1. x # t /\ Flushing(x)
    BY DEF Flushing
  <2> QED BY <2>1 DEF CoreInv, FlushOK
<1>5. FlushOK' /\ FlushPlace'
  BY <1>4 DEF FlushOK, FlushPlace
<1>6. NestOK'
  BY DEF NestOK
<1> QED BY <1>3, <1>5, <1>6 DEF CoreInv

(* An interrupt handler wakes threads and calls rt_schedule. *)
LEMMA IsrKeeps ==
  ASSUME CoreInv, NEW o \in Obj, NEW w, w \subseteq Range(waitq[o]), Steps(current, w), KernelInv',
         UNCHANGED <<pc, call, nest>>, nest > 0 => current' = current,
         \A x \in Thread : Flushing(x) => call[x] # o
  PROVE  CoreInv'
<1> USE DEF Steps
<1>1. WaitInv' /\ CallerOK'
  <2>1. current \in Thread /\ pc'[current] \in CallerPc
    BY CoreView DEF CoreInv, CallerOK
  <2>2. pc'[current] \in {"run", "start", "startins"} => call'[current] = "none"
    BY <2>1 DEF CoreInv, WaitInv, PlaceOK, OpPc
  <2> QED BY <2>1, <2>2, StepsWaits
<1>2. FlushOK'
  <2> SUFFICES ASSUME NEW x \in Thread, Flushing(x)
               PROVE  /\ current' = x /\ nest' > 0 /\ call'[x] \in Obj
                      /\ \A u \in Range(waitq'[call'[x]]) : timer'[u] = 0 /\ u \notin due'
                      /\ pc'[x] = "flushlock" => waitq'[call'[x]] # <<>>
    BY DEF FlushOK, Flushing
  <2>1. /\ current = x /\ nest > 0 /\ call[x] \in Obj
        /\ \A u \in Range(waitq[call[x]]) : timer[u] = 0 /\ u \notin due
        /\ pc[x] = "flushlock" => waitq[call[x]] # <<>>
    BY DEF CoreInv, FlushOK
  <2>2. Range(waitq'[call[x]]) = Range(waitq[call[x]])
    <3>1. \A u \in w : u \notin Range(waitq[call[x]])
      <4> SUFFICES ASSUME NEW u \in w, u \in Range(waitq[call[x]]) PROVE FALSE
        OBVIOUS
      <4>1. call[u] = o /\ call[u] = call[x]
        BY <2>1, CoreView
      <4> QED BY <4>1
    <3> QED BY ZenonT(60), <2>1, <3>1
  <2>3. \A u \in Range(waitq[call[x]]) : timer'[u] = 0
    <3> SUFFICES ASSUME NEW u \in Range(waitq[call[x]]) PROVE timer'[u] = 0
      OBVIOUS
    <3>1. u \in Thread /\ u \notin w
      BY <2>1, <2>2, CoreView
    <3> QED BY <2>1, <3>1
  <2>4. waitq[call[x]] # <<>> => waitq'[call[x]] # <<>>
    <3>1. waitq[call[x]] \in Seq(Thread) /\ waitq'[call[x]] \in Seq(Thread)
      BY <2>1, CoreView DEF KernelInv, KernelTypeOK
    <3> QED BY <2>2, <3>1, HeadRange
  <2> QED BY <2>1, <2>2, <2>3, <2>4
<1>3. FlushPlace'
  <2> SUFFICES ASSUME NEW x \in Thread, Flushing(x) PROVE FlushAt(call[x])'
    BY DEF FlushPlace, Flushing
  <2>1. PICK k : k = call[x]
    OBVIOUS
  <2>2. FlushAt(k) /\ KernelInv
    BY <2>1, CoreView DEF CoreInv, FlushPlace
  <2>3. ASSUME NEW s \in Obj, NEW v \in Range(waitq'[s])
        PROVE  v \in Range(waitq[s]) /\ timer'[v] = timer[v]
    <3>1. v \in Range(waitq[s]) /\ v \notin w
      BY <2>3
    <3>2. v \in Thread
      BY <3>1, CoreView
    <3> QED BY <3>1, <3>2
  <2>4. FlushAt(k)'
    BY <2>2, <2>3, FlushAtKept
  <2> QED BY <2>1, <2>4
<1>4. NestOK'
  BY DEF CoreInv, NestOK
<1> QED BY <1>1, <1>2, <1>3, <1>4 DEF CoreInv

(* The place the thread t moves to, and the call it is in there. *)
Goes(t, l, k) ==
  /\ t # Idle /\ current = t /\ pc[t] \in {"run", "blocked", "got", "flush"}
  /\ l \in {"run", "sched", "got"} /\ k \in Call /\ (l \in {"run", "sched"} => k = "none")
  /\ pc' = [pc EXCEPT ![t] = l] /\ call' = [call EXCEPT ![t] = k]

LEMMA GoesTyped ==
  ASSUME CoreInv, NEW t \in Thread, NEW l, NEW k, Goes(t, l, k)
  PROVE  /\ pc' \in [Thread -> Pc] /\ call' \in [Thread -> Call] /\ pc'[Idle] = "run"
         /\ pc'[t] = l /\ call'[t] = k
         /\ \A x \in Thread \ {t} : UNCHANGED <<pc[x], call[x]>>
         /\ \A x \in Thread : pc'[x] = pc[x] \/ (pc'[x] \notin OpPc /\ pc[x] \notin OpPc)
         /\ \A x \in Thread : stat[x] = "SUSPEND" => call'[x] = call[x]
<1>1. stat[t] = "READY" /\ pc \in [Thread -> Pc] /\ call \in [Thread -> Call] /\ pc[Idle] = "run"
  BY CoreView DEF Goes
<1> QED BY <1>1, KernelAssumption DEF Goes, Pc, OpPc

(* No list changes. *)
LEMMA MoveAct ==
  ASSUME CoreInv, NEW t \in Thread, NEW l, NEW k, Goes(t, l, k),
         UNCHANGED nest \/ (nest > 0 /\ nest' = nest - 1 /\ l = "sched"),
         UNCHANGED <<queueVars, threadVars, arg, current, due, lag>>
  PROVE  CoreInv' /\ Steps(t, {})
<1> USE DEF threadVars, queueVars
<1>1. KernelInv'
  <2>1. l \in Pc \ OpPc /\ pc[t] \notin OpPc \cup {"sched", "reset"} /\ t # Idle
    BY DEF Goes, Pc, OpPc
  <2>2. nest' \in 0 .. MaxNest /\ (nest' = nest \/ nest' # 0 \/ l \in {"sched", "reset"})
    BY CoreView, KernelAssumption
  <2>3. KernelInv /\ err' \in [Thread -> Err]
    BY CoreView
  <2>4. pc' = [pc EXCEPT ![t] = l] /\ current = t
    BY DEF Goes
  <2> QED BY <2>1, <2>2, <2>3, <2>4, GoesTyped, PlaceLockStep
<1>2. Steps(t, {})
  <2>1. stat \in [Thread -> Stat]
    BY CoreView
  <2> QED BY <2>1, GoesTyped DEF Steps
<1> QED BY <1>1, <1>2, ThreadKeeps, GoesTyped DEF Goes

(* Waking one thread is a step of the threads. *)
LEMMA WokenSteps ==
  ASSUME CoreInv, NEW o \in Obj, waitq[o] # <<>>, Wake(Head(waitq[o])), UNCHANGED <<err, due>>,
         NEW t \in Thread, \A x \in Thread \ {t} : UNCHANGED <<pc[x], call[x]>>
  PROVE  /\ Steps(t, {Head(waitq[o])})
         /\ \A x \in Obj : Range(waitq'[x]) = Range(waitq[x]) \ {Head(waitq[o])}
<1>1. PICK u : u = Head(waitq[o])
  OBVIOUS
<1>2. u \in Range(waitq[o]) /\ u \in Thread
  BY <1>1, CoreView, HeadRange
<1>3. stat' = [stat EXCEPT ![u] = "READY"] /\ timer' = [timer EXCEPT ![u] = 0] /\ waitq' = UnlinkAll(waitq, u)
  BY <1>1 DEF Wake, MakeReady
<1>4. KernelInv /\ stat \in [Thread -> Stat] /\ timer \in [Thread -> 0 .. MaxTime]
  BY CoreView
<1>5. \A x \in Obj : Range(waitq'[x]) = Range(waitq[x]) \ {u}
  BY <1>2, <1>3, <1>4, WaitRemoved
<1>6. stat' = [x \in Thread |-> IF x \in {u} THEN "READY" ELSE stat[x]]
  BY <1>2, <1>3, <1>4
<1>7. \A x \in Thread \ {u} : UNCHANGED <<err[x], timer[x]>>
  BY <1>2, <1>3, <1>4
<1> QED BY <1>1, <1>2, <1>5, <1>6, <1>7 DEF Steps

(* The thread wakes the first waiter of o.                                 *)
LEMMA WakeAct ==
  ASSUME CoreInv, NEW t \in Thread, NEW l, NEW k, Goes(t, l, k), due = {},
         NEW o \in Obj, waitq[o] # <<>>, Wake(Head(waitq[o])),
         (UNCHANGED lag /\ l = "sched") \/ lag' = TRUE,
         UNCHANGED <<defunct, prio, err, slice, arg, current, nest, due>>
  PROVE  CoreInv' /\ Steps(t, {Head(waitq[o])}) /\ \A x \in Obj : Range(waitq'[x]) = Range(waitq[x]) \ {Head(waitq[o])}
<1>1. KernelInv'
  <2>1. lag' \in BOOLEAN /\ (lag' \/ pc'[current] \in {"sched", "reset"})
    <3>1. lag \in BOOLEAN
      BY CoreView DEF KernelInv, KernelTypeOK
    <3>2. current = t
      BY DEF Goes
    <3>3. lag' = TRUE \/ (lag' = lag /\ pc'[current] = "sched")
      BY <3>2, GoesTyped
    <3> QED BY <3>1, <3>3
  <2>2. pc[current] # "sched"
    BY DEF Goes
  <2>3. KernelInv /\ err' \in [Thread -> Err]
    BY CoreView
  <2> QED BY <2>1, <2>2, <2>3, GoesTyped, WakeStep
<1>2. Head(waitq[o]) \in Range(waitq[o])
  BY CoreView, HeadRange
<1>3. Steps(t, {Head(waitq[o])}) /\ \A x \in Obj : Range(waitq'[x]) = Range(waitq[x]) \ {Head(waitq[o])}
  BY <1>2, GoesTyped, WokenSteps
<1>4. pc[t] # "sched" /\ pc'[t] \in {"run", "sched", "got"} /\ (pc'[t] \in {"run", "sched"} => call'[t] = "none")
  BY GoesTyped DEF Goes
<1> QED BY <1>1, <1>3, <1>4, ThreadKeeps DEF Goes

(* An interrupt handler wakes the first waiter of o. *)
LEMMA WakeIsr ==
  ASSUME CoreInv, due = {}, NEW o \in Obj, waitq[o] # <<>>, Wake(Head(waitq[o])), DoSchedule,
         UNCHANGED <<defunct, prio, err, slice, callVars, nest, due>>,
         \A x \in Thread : Flushing(x) => call[x] # o
  PROVE  CoreInv' /\ Steps(current, {Head(waitq[o])}) /\ \A x \in Obj : Range(waitq'[x]) = Range(waitq[x]) \ {Head(waitq[o])}
<1> USE DEF callVars
<1>1. KernelInv'
  <2>1. KernelInv /\ err' \in [Thread -> Err] /\ pc' \in [Thread -> Pc] /\ call' \in [Thread -> Call]
        /\ pc'[Idle] = "run"
    BY CoreView
  <2> QED BY <2>1, WakeStep
<1>2. Head(waitq[o]) \in Range(waitq[o]) /\ current \in Thread
  BY CoreView, HeadRange
<1>3. Steps(current, {Head(waitq[o])}) /\ \A x \in Obj : Range(waitq'[x]) = Range(waitq[x]) \ {Head(waitq[o])}
  BY <1>2, WokenSteps
<1>4. nest > 0 => current' = current
  BY CoreView DEF DoSchedule
<1> QED BY <1>1, <1>2, <1>3, <1>4, IsrKeeps

(* Waking several is one, too.                                             *)
LEMMA WokenEachSteps ==
  ASSUME CoreInv, NEW woken \in Seq(Thread), OnLists(Range(woken)),
         WakeEach(woken), \A x \in Obj : Range(waitq'[x]) = Range(waitq[x]) \ Range(woken),
         \A x \in Thread \ Range(woken) : UNCHANGED err[x], UNCHANGED due,
         NEW t \in Thread, \A x \in Thread \ {t} : UNCHANGED <<pc[x], call[x]>>
  PROVE  Steps(t, Range(woken))
<1>1. stat' = [x \in Thread |-> IF x \in Range(woken) THEN "READY" ELSE stat[x]]
  BY DEF WakeEach
<1>2. \A x \in Thread \ Range(woken) : UNCHANGED timer[x]
  BY DEF WakeEach
<1> QED BY <1>1, <1>2 DEF Steps, OnLists

(* The thread wakes the threads of woken, which wait. *)
LEMMA WakeEachAct ==
  ASSUME CoreInv, NEW t \in Thread, NEW k, Goes(t, "sched", k), due = {},
         NEW woken \in Seq(Thread), IsInjective(woken), OnLists(Range(woken)), WakeEach(woken),
         err' \in [Thread -> Err], \A x \in Thread \ Range(woken) : UNCHANGED err[x],
         UNCHANGED <<defunct, prio, slice, arg, current, nest, due, lag>>
  PROVE  CoreInv' /\ Steps(t, Range(woken)) /\ \A x \in Obj : Range(waitq'[x]) = Range(waitq[x]) \ Range(woken)
<1>1. KernelInv' /\ \A x \in Obj : Range(waitq'[x]) = Range(waitq[x]) \ Range(woken)
  <2>1. lag' \in BOOLEAN /\ (lag' \/ pc'[current] \in {"sched", "reset"})
    <3>1. lag \in BOOLEAN
      BY CoreView DEF KernelInv, KernelTypeOK
    <3>2. current = t
      BY DEF Goes
    <3>3. lag' = TRUE \/ (lag' = lag /\ pc'[current] = "sched")
      BY <3>2, GoesTyped
    <3> QED BY <3>1, <3>3
  <2>2. KernelInv /\ pc[current] # "sched"
    BY CoreView DEF Goes
  <2> QED BY <2>1, <2>2, GoesTyped, WakeEachStep
<1>2. Steps(t, Range(woken))
  BY <1>1, GoesTyped, WokenEachSteps
<1>3. pc[t] # "sched" /\ pc'[t] = "sched" /\ call'[t] = "none"
  BY GoesTyped DEF Goes
<1> QED BY <1>1, <1>2, <1>3, ThreadKeeps DEF Goes

(* An interrupt handler does. *)
LEMMA WakeEachIsr ==
  ASSUME CoreInv, due = {}, NEW o \in Obj, NEW woken \in Seq(Thread), IsInjective(woken),
         Range(woken) \subseteq Range(waitq[o]), WakeEach(woken), DoSchedule,
         UNCHANGED <<defunct, prio, err, slice, callVars, nest, due>>,
         \A x \in Thread : Flushing(x) => call[x] # o
  PROVE  CoreInv' /\ Steps(current, Range(woken)) /\ \A x \in Obj : Range(waitq'[x]) = Range(waitq[x]) \ Range(woken)
<1> USE DEF callVars
<1>0. OnLists(Range(woken))
  BY DEF OnLists
<1>1. KernelInv' /\ \A x \in Obj : Range(waitq'[x]) = Range(waitq[x]) \ Range(woken)
  <2>1. KernelInv /\ err' \in [Thread -> Err] /\ pc' \in [Thread -> Pc] /\ call' \in [Thread -> Call]
        /\ pc'[Idle] = "run"
    BY CoreView
  <2> QED BY <1>0, <2>1, WakeEachStep
<1>2. current \in Thread /\ \A x \in Thread : UNCHANGED <<pc[x], call[x], err[x]>>
  BY CoreView
<1>3. Steps(current, Range(woken))
  BY <1>0, <1>1, <1>2, WokenEachSteps
<1>4. nest > 0 => current' = current
  BY CoreView DEF DoSchedule
<1> QED BY <1>1, <1>3, <1>4, IsrKeeps

(* Nobody is woken. *)
LEMMA ListsOfNone ==
  ListsAfter(<<>>) = [ready |-> ready, waitq |-> waitq]
<1> DEFINE first == [ready |-> ready, waitq |-> waitq]
           G(f, i) == IF i = 0 THEN first
                      ELSE [ready |-> [f[i - 1].ready EXCEPT ![prio[<<>>[i]]] = Append(@, <<>>[i])],
                            waitq |-> UnlinkAll(f[i - 1].waitq, <<>>[i])]
           F == CHOOSE f : f = [i \in 0 .. 0 |-> G(f, i)]
<1>1. F = [i \in 0 .. 0 |-> G(F, i)]
  <2> DEFINE h == [i \in 0 .. 0 |-> first]
  <2>1. h = [i \in 0 .. 0 |-> G(h, i)]
    OBVIOUS
  <2> HIDE DEF G, h
  <2> QED BY <2>1
<1>2. F[0] = first
  <2> HIDE DEF F, first
  <2> QED BY <1>1
<1>3. ListsAfter(<<>>) = F[0]
  BY DEF ListsAfter
<1> QED BY <1>2, <1>3

LEMMA WakeNone ==
  ASSUME KernelInv, NEW woken, woken = <<>>, WakeEach(woken)
  PROVE  UNCHANGED <<ready, mask, waitq, stat, timer>>
<1>1. Range(woken) = {}
  BY DEF Range
<1>2. ListsAfter(woken) = [ready |-> ready, waitq |-> waitq]
  BY ListsOfNone
<1> QED BY <1>1, <1>2 DEF WakeEach, KernelInv, KernelTypeOK

LEMMA SameAct ==
  ASSUME CoreInv, UNCHANGED kernelVars
  PROVE  CoreInv'
<1> USE DEF kernelVars, queueVars, threadVars, callVars
<1>1. WaitInv' /\ FlushOK'
  <2>1. KernelInv'
    BY DEF CoreInv, WaitInv, KernelInv, KernelTypeOK, QueuesConsistent, Deleting, ListsConsistent,
       TimeoutFindsSuspended, ControlOK, Control, Detached, CurrentOK, IdleOK, DueOK, DefunctOK, HeadRuns
  <2> QED BY <2>1 DEF CoreInv, WaitInv, FreshOK, PlaceOK, WaitPlace, FlushOK, Flushing
<1>2. FlushPlace'
  <2> SUFFICES ASSUME NEW x \in Thread, Flushing(x)' PROVE FlushAt(call[x])'
    BY DEF FlushPlace
  <2>1. FlushAt(call[x])
    BY DEF CoreInv, FlushPlace, Flushing
  <2> QED BY <2>1 DEF FlushAt
<1> QED BY <1>1, <1>2 DEF CoreInv, CallerOK, NestOK

(* A call waits on o.                                                      *)
LEMMA BlockAct ==
  ASSUME CoreInv, NEW t \in Thread, NEW o \in Obj, NEW order, NEW n \in 0 .. MaxTime,
         MayBlock(t) \/ (At(t, "blocked") /\ call[t] \in Obj), Block(t, o, order, n)
  PROVE  /\ CoreInv' /\ Range(waitq'[o]) = Range(waitq[o]) \cup {t}
         /\ \A x \in Obj \ {o} : waitq'[x] = waitq[x]
         /\ UNCHANGED <<current, due, nest>> /\ stat[t] = "READY"
         /\ pc' = [pc EXCEPT ![t] = "sched"] /\ call' = [call EXCEPT ![t] = o]
         /\ err' = [err EXCEPT ![t] = "EOK"] /\ timer' = [timer EXCEPT ![t] = n]
<1>1. /\ current = t /\ pc[t] \in {"run", "blocked"} /\ t # Idle /\ nest = 0 /\ due = {}
      /\ MayBlock(t) \/ MayRejoin(t)
      /\ stat[t] = "READY"
  BY CoreView DEF CoreInv, NestOK, MayBlock, MayRejoin, InUser, At, Running
<1>2. /\ stat' = [stat EXCEPT ![t] = "SUSPEND"] /\ timer' = [timer EXCEPT ![t] = n]
      /\ pc' = [pc EXCEPT ![t] = "sched"] /\ call' = [call EXCEPT ![t] = o]
      /\ err' = [err EXCEPT ![t] = "EOK"] /\ waitq' = [waitq EXCEPT ![o] = WaitInsert(@, t, order)]
      /\ UNCHANGED <<arg, current, nest, due>>
  BY DEF Block, SuspendFor, Goto
<1>3. KernelInv'
  BY <1>1, CoreView, BlockStep
<1>4. /\ Range(waitq'[o]) = Range(waitq[o]) \cup {t}
      /\ \A x \in Obj \ {o} : waitq'[x] = waitq[x]
  <2>1. Range(WaitInsert(waitq[o], t, order)) = Range(waitq[o]) \cup {t}
    BY <1>1, CoreView, JoinedList
  <2> QED BY <1>2, <2>1, CoreView
<1>5. /\ stat'[t] = "SUSPEND" /\ pc'[t] = "sched" /\ call'[t] = o /\ err'[t] = "EOK"
      /\ \A x \in Thread \ {t} : UNCHANGED <<stat[x], pc[x], call[x], err[x]>>
  BY <1>2, CoreView
<1>6. \A x \in Obj : t \notin Range(waitq[x])
  BY <1>1, CoreView
<1>7. WaitInv'
  <2>1. \A s \in Obj : \A x \in Range(waitq'[s]) :
          \/ x \in Range(waitq[s]) /\ x # t /\ UNCHANGED err[x]
          \/ x = t /\ pc'[x] = "sched" /\ err'[x] = "EOK"
    <3> SUFFICES ASSUME NEW s \in Obj, NEW x \in Range(waitq'[s]), x # t
                 PROVE  x \in Range(waitq[s]) /\ UNCHANGED err[x]
      BY <1>5
    <3>1. x \in Range(waitq[s])
      BY <1>4
    <3>2. x \in Thread
      BY <3>1, CoreView
    <3> QED BY <1>5, <3>1, <3>2
  <2> QED BY <1>3, <1>5, <2>1, PlacesKept DEF CoreInv, OpPc
<1>8. \A x \in Thread : ~Flushing(x)'
  <2> SUFFICES ASSUME NEW x \in Thread, Flushing(x)' PROVE FALSE
    OBVIOUS
  <2>1. x # t /\ Flushing(x)
    BY <1>5 DEF Flushing
  <2> QED BY <1>1, <2>1 DEF CoreInv, FlushOK
<1>9. CallerOK'
  <2> SUFFICES ASSUME NEW x \in Thread
               PROVE  /\ pc'[x] \in CallerPc /\ stat'[x] \in {"INIT", "READY", "SUSPEND"}
                      /\ stat'[x] = "SUSPEND" /\ call'[x] \in Obj => x \in Range(waitq'[call'[x]])
    BY DEF CallerOK
  <2>1. CASE x = t
    BY <1>4, <1>5, <2>1 DEF CallerPc
  <2>2. CASE x # t
    BY <1>4, <1>5, <2>2 DEF CoreInv, CallerOK
  <2> QED BY <2>1, <2>2
<1>10. FlushOK' /\ FlushPlace' /\ NestOK'
  BY <1>1, <1>2, <1>8 DEF FlushOK, FlushPlace, NestOK
<1> QED BY <1>1, <1>2, <1>4, <1>7, <1>9, <1>10 DEF CoreInv

(***************************************************************************)
(* Resetting and detaching.                                                *)
(***************************************************************************)

(* A thread enters a loop with the flag "flush", or goes on in it.         *)
LEMMA EnterAct ==
  ASSUME CoreInv, KernelInv', FlushOK', NEW t \in Thread, current = t, stat[t] = "READY",
         NEW l \in {"flush", "flushlock"}, NEW k \in Call,
         pc' = [pc EXCEPT ![t] = l], call' = [call EXCEPT ![t] = k],
         UNCHANGED <<waitq, stat, err, timer, due, current>>, FlushAt(k)
  PROVE  CoreInv'
<1>1. /\ pc'[t] = l /\ call'[t] = k /\ stat \in [Thread -> Stat]
      /\ \A x \in Thread \ {t} : UNCHANGED <<pc[x], call[x]>>
  BY CoreView
<1>2. ~\E o \in Obj : t \in Range(waitq[o])
  BY CoreView
<1>3. Steps(t, {})
  BY <1>1 DEF Steps
<1>4. WaitInv' /\ CallerOK'
  BY <1>1, <1>2, <1>3, StepsWaits DEF CallerPc
<1>5. FlushPlace'
  <2> SUFFICES ASSUME NEW x \in Thread, Flushing(x)' PROVE FlushAt(call[x])'
    BY DEF FlushPlace
  <2>1. x = t
    BY DEF FlushOK
  <2>2. FlushAt(k)'
    BY DEF FlushAt
  <2> QED BY <1>1, <2>1, <2>2
<1>6. NestOK'
  BY <1>1 DEF NestOK
<1> QED BY <1>4, <1>5, <1>6 DEF CoreInv

(* rt_event_detach, rt_mb_detach, rt_mq_detach.                            *)
LEMMA DetachAct ==
  ASSUME CoreInv, Guarded, NEW t \in Thread \ {Idle}, NEW k \in Obj, FlushAt(k), Detach(t, k)
  PROVE  /\ CoreInv' /\ UNCHANGED <<waitq, exists>> /\ Steps(t, {})
         /\ call[t] = "none" /\ pc[t] = "run" /\ pc'[t] = "flush"
<1>1. k \in Call
  BY DEF Call
<1>2. KernelInv' /\ FlushOK' /\ UNCHANGED <<waitq, exists>>
  BY <1>1, DetachStep DEF CoreInv, WaitInv
<1>3. current = t /\ stat[t] = "READY"
  BY CoreView DEF Detach, InUser, Running
<1>4. CoreInv'
  BY <1>1, <1>2, <1>3, EnterAct DEF Detach, Goto, threadVars, queueVars
<1>5. /\ pc'[t] = "flush" /\ call[t] = "none" /\ pc[t] = "run"
      /\ \A x \in Thread \ {t} : UNCHANGED <<pc[x], call[x]>>
  BY CoreView DEF Detach, Goto, InUser, CoreInv, WaitInv, PlaceOK
<1>6. Steps(t, {})
  BY <1>2, <1>5, CoreView DEF Steps, Detach, threadVars
<1> QED BY <1>2, <1>4, <1>5, <1>6

(* rt_data_queue_reset: the pops first ...                                 *)
LEMMA DqResetAct ==
  ASSUME CoreInv, Guarded, NEW t \in Thread \ {Idle}, NEW q \in Dq, DqReset(t, q)
  PROVE  CoreInv'
<1> USE DEF DqReset, InUser, Running, Goto, queueVars, threadVars
<1>1. q \in Obj /\ q \in Call /\ KernelInv
  BY DataQueueAssumption, CoreView DEF Call
<1>2. current = t /\ stat[t] = "READY" /\ due = {} /\ pc[t] = "run"
  BY CoreView
<1>3. KernelInv'
  <2>1. nest' \in 0 .. MaxNest /\ nest' # 0
    BY CoreView, KernelAssumption
  <2>2. "flush" \in Pc \ OpPc /\ pc[t] \notin OpPc \cup {"sched"} /\ pc[t] # "reset"
    BY <1>2 DEF Pc, OpPc
  <2>3. call' \in [Thread -> Call] /\ err' \in [Thread -> Err] /\ \A v \in Thread \ {t} : call'[v] = call[v]
    BY <1>1, CoreView
  <2> QED BY <1>1, <1>2, <2>1, <2>2, <2>3, PlaceLockStep
<1>4. FlushOK'
  <2> SUFFICES ASSUME NEW x \in Thread, Flushing(x)'
               PROVE  /\ current' = x /\ nest' > 0 /\ call'[x] \in Obj
                      /\ \A u \in Range(waitq'[call'[x]]) : timer'[u] = 0 /\ u \notin due'
                      /\ pc'[x] = "flushlock" => waitq'[call'[x]] # <<>>
    BY DEF FlushOK
  <2>1. x = t
    <3>1. x # t => Flushing(x)
      BY CoreView DEF Flushing
    <3> QED BY <1>2, <3>1 DEF CoreInv, FlushOK
  <2>2. pc'[t] = "flush" /\ call'[t] = q /\ nest' > 0
    BY CoreView, KernelAssumption
  <2> QED BY <1>1, <1>2, <2>1, <2>2
<1>5. FlushAt(q)
  <2>1. waitq[PushList[q]] = <<>>
    OBVIOUS
  <2> QED BY <2>1 DEF FlushAt
<1> QED BY <1>1, <1>2, <1>3, <1>4, <1>5, EnterAct

(* The loop goes on with another list, whose threads have no timers.       *)
LEMMA FlushOnAct ==
  ASSUME CoreInv, NEW t \in Thread, At(t, "flush"), NEW k \in Obj, FlushAt(k),
         \A u \in Range(waitq[k]) : timer[u] = 0,
         call' = [call EXCEPT ![t] = k],
         UNCHANGED <<queueVars, threadVars, pc, arg, current, nest, due, lag>>
  PROVE  CoreInv' /\ Steps(t, {})
<1> USE DEF At, Running, queueVars, threadVars
<1>1. k \in Call /\ KernelInv /\ pc \in [Thread -> Pc] /\ call \in [Thread -> Call]
  BY CoreView DEF Call
<1>2. current = t /\ stat[t] = "READY" /\ due = {} /\ pc[t] = "flush" /\ t # Idle
  BY CoreView
<1>3. pc' = [pc EXCEPT ![t] = "flush"]
  BY <1>1, <1>2
<1>4. KernelInv'
  <2>1. "flush" \in Pc \ OpPc /\ pc[t] \notin OpPc \cup {"sched"} /\ pc[t] # "reset"
    BY <1>2 DEF Pc, OpPc
  <2>2. call' \in [Thread -> Call] /\ err' \in [Thread -> Err] /\ \A v \in Thread \ {t} : call'[v] = call[v]
    BY <1>1, CoreView
  <2> QED BY <1>1, <1>2, <1>3, <2>1, <2>2, PlaceStep
<1>5. FlushOK'
  <2> SUFFICES ASSUME NEW x \in Thread, Flushing(x)'
               PROVE  /\ current' = x /\ nest' > 0 /\ call'[x] \in Obj
                      /\ \A u \in Range(waitq'[call'[x]]) : timer'[u] = 0 /\ u \notin due'
                      /\ pc'[x] = "flushlock" => waitq'[call'[x]] # <<>>
    BY DEF FlushOK
  <2>1. Flushing(x)
    BY DEF Flushing
  <2>2. x = t /\ nest > 0
    BY <1>2, <2>1 DEF CoreInv, FlushOK
  <2>3. call'[t] = k /\ pc'[t] = "flush"
    BY <1>1, <1>2
  <2> QED BY <1>2, <2>2, <2>3
<1>6. UNCHANGED <<waitq, stat, err, timer, due, current>>
  OBVIOUS
<1>7. CoreInv'
  BY <1>1, <1>2, <1>3, <1>4, <1>5, <1>6, EnterAct
<1>8. Steps(t, {})
  BY <1>1, <1>6, CoreView DEF Steps
<1> QED BY <1>7, <1>8

(* ... then the pushes.                                                    *)
LEMMA DqFlushPushersAct ==
  ASSUME CoreInv, NEW t \in Thread, NEW q \in Dq, DqFlushPushers(t, q)
  PROVE  CoreInv'
<1> USE DEF DqFlushPushers
<1>1. PICK k \in Obj : k = PushList[q]
  BY DataQueueAssumption
<1>2. waitq[k] = <<>> /\ Range(waitq[k]) = {}
  <2>1. Flushing(t) /\ call[t] = q
    BY DEF Flushing, At
  <2>2. FlushAt(q)
    BY <2>1 DEF CoreInv, FlushPlace
  <2>3. waitq[k] = <<>>
    BY <1>1, <2>2, DqPlace
  <2> QED BY <2>3 DEF Range
<1>3. FlushAt(k)
  BY <1>1, <1>2 DEF FlushAt
<1>4. At(t, "flush") /\ UNCHANGED <<queueVars, threadVars, pc, arg, current, nest, due, lag>>
  OBVIOUS
<1>5. call' = [call EXCEPT ![t] = k]
  BY <1>1
<1> HIDE DEF DqFlushPushers
<1> QED BY <1>2, <1>3, <1>4, <1>5, FlushOnAct

LEMMA FlushCheckAct ==
  ASSUME CoreInv, NEW t \in Thread, FlushCheck(t)
  PROVE  CoreInv' /\ UNCHANGED <<waitq, exists>>
<1> USE DEF FlushCheck, At, Running, Goto, queueVars, threadVars
<1>1. KernelInv' /\ FlushOK' /\ UNCHANGED <<waitq, exists>>
  BY FlushCheckStep DEF CoreInv, WaitInv
<1>2. current = t /\ stat[t] = "READY" /\ pc[t] = "flush" /\ call \in [Thread -> Call]
  BY CoreView
<1>3. call' = [call EXCEPT ![t] = call[t]] /\ call[t] \in Call /\ pc' = [pc EXCEPT ![t] = "flushlock"]
  BY <1>2
<1>4. FlushAt(call[t])
  BY <1>2 DEF CoreInv, FlushPlace, Flushing
<1> QED BY <1>1, <1>2, <1>3, <1>4, EnterAct

LEMMA FlushWakeAct ==
  ASSUME CoreInv, NEW t \in Thread, FlushWake(t)
  PROVE  /\ CoreInv' /\ UNCHANGED exists /\ call[t] \in Obj /\ waitq[call[t]] # <<>>
         /\ \A x \in Obj : Range(waitq'[x]) = Range(waitq[x]) \ {Head(waitq[call[t]])}
<1> USE DEF FlushWake, WakeWithError, Wake, MakeReady, At, Running, Goto
<1>1. /\ KernelInv' /\ FlushOK' /\ UNCHANGED exists /\ call[t] \in Obj /\ waitq[call[t]] # <<>>
      /\ waitq' = UnlinkAll(waitq, Head(waitq[call[t]]))
  BY FlushWakeStep DEF CoreInv, WaitInv
<1>2. PICK u : u = Head(waitq[call[t]])
  OBVIOUS
<1>3. u \in Range(waitq[call[t]]) /\ u \in Thread
  BY <1>1, <1>2, CoreView, HeadRange
<1>4. /\ stat' = [stat EXCEPT ![u] = "READY"] /\ timer' = [timer EXCEPT ![u] = 0]
      /\ err' = [err EXCEPT ![u] = "ERROR"] /\ waitq' = UnlinkAll(waitq, u)
      /\ pc' = [pc EXCEPT ![t] = "flush"] /\ UNCHANGED <<call, due, current, nest>>
  BY <1>2
<1>5. /\ KernelInv /\ stat \in [Thread -> Stat] /\ timer \in [Thread -> 0 .. MaxTime]
      /\ pc \in [Thread -> Pc] /\ err \in [Thread -> Err]
      /\ current = t /\ stat[t] = "READY" /\ pc[t] = "flushlock"
  BY CoreView
<1>6. \A x \in Obj : Range(waitq'[x]) = Range(waitq[x]) \ {u}
  BY <1>3, <1>4, <1>5, WaitRemoved
<1>7. Steps(t, {u})
  <2>1. stat' = [x \in Thread |-> IF x \in {u} THEN "READY" ELSE stat[x]]
    BY <1>3, <1>4, <1>5
  <2>2. \A x \in Thread \ {u} : UNCHANGED <<err[x], timer[x]>>
    BY <1>3, <1>4, <1>5
  <2>3. \A x \in Thread \ {t} : UNCHANGED <<pc[x], call[x]>>
    BY <1>4, <1>5
  <2> QED BY ZenonT(60), <1>1, <1>3, <1>4, <1>6, <2>1, <2>2, <2>3 DEF Steps
<1>8. WaitInv' /\ CallerOK'
  <2>1. ~\E o \in Obj : t \in Range(waitq[o])
    BY <1>5, CoreView
  <2>2. pc'[t] = "flush"
    BY <1>4, <1>5
  <2> QED BY <1>1, <1>5, <1>7, <2>1, <2>2, StepsWaits DEF CallerPc
<1>9. FlushPlace'
  <2> SUFFICES ASSUME NEW x \in Thread, Flushing(x)' PROVE FlushAt(call[x])'
    BY DEF FlushPlace
  <2>1. PICK k : k = call[x]
    OBVIOUS
  <2>2. FlushAt(k)
    BY <1>4, <1>5, <2>1 DEF Flushing, CoreInv, FlushPlace
  <2>3. \A s \in Obj : Range(waitq'[s]) \subseteq Range(waitq[s])
    BY <1>6
  <2>4. \A v : timer[v] = 0 => timer'[v] = 0
    BY <1>4, <1>5
  <2>5. FlushAt(k)'
    BY <1>1, <1>4, <1>5, <2>2, <2>3, <2>4, FlushAtKept
  <2> QED BY <1>4, <2>1, <2>5
<1>10. NestOK'
  BY <1>4, <1>5 DEF NestOK
<1> QED BY SMTT(60), <1>1, <1>2, <1>6, <1>8, <1>9, <1>10 DEF CoreInv

LEMMA FlushEndAct ==
  ASSUME CoreInv, exists \in [Obj -> BOOLEAN], NEW t \in Thread, FlushEnd(t)
  PROVE  CoreInv' /\ UNCHANGED waitq /\ exists' \in [Obj -> BOOLEAN]
<1> USE DEF FlushEnd, At, Running, Goto, threadVars
<1>1. KernelInv' /\ UNCHANGED waitq /\ exists' \in [Obj -> BOOLEAN]
  BY FlushEndStep DEF CoreInv, WaitInv
<1>2. /\ current = t /\ current' = t /\ pc[t] = "flush" /\ pc'[t] = "run" /\ call'[t] = "none"
      /\ \A x \in Thread \ {t} : UNCHANGED <<pc[x], call[x]>>
  BY CoreView
<1>3. Steps(t, {})
  BY <1>1, <1>2, CoreView DEF Steps
<1> QED BY <1>1, <1>2, <1>3, ThreadKeeps

(***************************************************************************)
(* Steps of the kernel, and of the loops that flush a wait list.           *)
(***************************************************************************)

(* x is in a call that waits on o, or is back from waiting there. *)
InWait(x, o) == call[x] = o /\ pc[x] \in {"sched", "blocked"}

SuspendedWaits == \A x \in Thread : stat[x] = "SUSPEND" /\ call[x] \in Obj => x \in Range(waitq[call[x]])

PushersStay ==
  \A q \in Dq, x \in Thread :
    x \in Range(waitq[PushList[q]]) /\ timer[x] = 0 /\ x \notin due =>
      x \in Range(waitq'[PushList[q]]) /\ timer'[x] = 0 /\ x \notin due'

(* A stopped timer stays stopped.                                          *)
TimersStay ==
  \A o \in Obj : \A x \in Range(waitq[o]) :
    timer[x] = 0 /\ x \notin due => timer'[x] = 0 /\ x \notin due'

(* Nobody enters or leaves a call on an object; a thread that leaves a     *)
(* wait list does so with an error.                                        *)
Calm ==
  /\ \A x \in Thread : /\ pc'[x] \in CallerPc /\ stat'[x] \in {"INIT", "READY", "SUSPEND"}
                       /\ Flushing(x)' => Flushing(x) /\ UNCHANGED call[x]
                       /\ \A o \in Obj : InWait(x, o)' <=> InWait(x, o)
                       /\ UNCHANGED err[x] \/ call[x] \notin Obj \/ x \in Range(waitq[call[x]])
  /\ \A o \in Obj : /\ Range(waitq'[o]) \subseteq Range(waitq[o])
                    /\ \A x \in Range(waitq[o]) \ Range(waitq'[o]) : err'[x] # "EOK"
  /\ SuspendedWaits' /\ PushersStay /\ TimersStay /\ NestOK'

(* No wait list changes. *)
LEMMA CalmMove ==
  ASSUME CoreInv, KernelInv', UNCHANGED waitq, NEW t \in Thread,
         \A x \in Thread \ {t} : UNCHANGED <<pc[x], call[x]>>,
         pc'[t] \in CallerPc, Flushing(t)' => Flushing(t) /\ UNCHANGED call[t],
         \A o \in Obj : InWait(t, o)' <=> InWait(t, o),
         \A x \in Thread : stat'[x] \in {"INIT", "READY", "SUSPEND"},
         \A x \in Thread : stat'[x] = "SUSPEND" /\ call'[x] \in Obj => stat[x] = "SUSPEND" /\ UNCHANGED call[x],
         \A x \in Thread : UNCHANGED err[x] \/ call[x] \notin Obj,
         \A o \in Obj : \A x \in Range(waitq[o]) : timer[x] = 0 /\ x \notin due => timer'[x] = 0 /\ x \notin due',
         NestOK'
  PROVE  Calm
<1>1. \A x \in Thread : /\ pc'[x] \in CallerPc
                        /\ Flushing(x)' => Flushing(x) /\ UNCHANGED call[x]
                        /\ \A o \in Obj : InWait(x, o)' <=> InWait(x, o)
  BY DEF CoreInv, CallerOK, Flushing, InWait
<1>2. SuspendedWaits'
  BY DEF SuspendedWaits, CoreInv, CallerOK
<1>3. PushersStay
  BY DataQueueAssumption DEF PushersStay
<1>4. TimersStay
  BY DEF TimersStay
<1> QED BY <1>1, <1>2, <1>3, <1>4 DEF Calm

LEMMA ScheduleCalm ==
  ASSUME CoreInv, KernelInv', NEW t \in Thread, Schedule(t)
  PROVE  Calm
<1> USE DEF Schedule, At, Running, Goto, queueVars, threadVars
<1>1. /\ pc \in [Thread -> Pc] /\ pc[t] = "sched" /\ current = t /\ stat[t] # "CLOSE"
      /\ \A x \in Thread : stat[x] \in {"INIT", "READY", "SUSPEND"}
  BY CoreView DEF CoreInv, CallerOK
<1>2. pc'[t] = (IF call[t] = "none" THEN "run" ELSE "blocked") /\ \A x \in Thread \ {t} : UNCHANGED pc[x]
  BY <1>1
<1>3. NestOK'
  <2> SUFFICES ASSUME nest > 0, pc'[current'] \in {"sched", "blocked"} PROVE call[current'] = "none"
    BY DEF NestOK
  <2>1. current' = current
    BY CoreView DEF DoSchedule
  <2> QED BY <1>1, <2>1 DEF CoreInv, NestOK
<1>4. \A o \in Obj : InWait(t, o)' <=> InWait(t, o)
  BY <1>1, <1>2, CoreView DEF InWait
<1> QED BY <1>1, <1>2, <1>3, <1>4, CalmMove DEF CallerPc, Flushing

LEMMA ReturnCalm ==
  ASSUME CoreInv, KernelInv', NEW t \in Thread, Return(t)
  PROVE  Calm
<1> USE DEF Return, At, Running, Goto, queueVars
<1>1. /\ pc[t] = "blocked" /\ current = t /\ call[t] \in {"sleep", "suspend"} /\ call[t] \notin Obj
      /\ pc'[t] = "run" /\ call'[t] = "none" /\ stat[t] = "READY"
      /\ \A x \in Thread \ {t} : UNCHANGED <<pc[x], call[x], err[x]>>
  BY CoreView
<1>2. NestOK'
  BY <1>1 DEF NestOK
<1>3. \A o \in Obj : InWait(t, o)' <=> InWait(t, o)
  BY <1>1 DEF InWait
<1>4. \A x \in Thread : stat[x] \in {"INIT", "READY", "SUSPEND"}
  BY DEF CoreInv, CallerOK
<1> QED BY <1>1, <1>2, <1>3, <1>4, CalmMove DEF CallerPc, Flushing

(* rt_thread_startup of another thread *)
LEMMA ResumeCalm ==
  ASSUME CoreInv, KernelInv', NEW t \in Thread, ResumeLocked(t) \/ ResumeInsert(t)
  PROVE  Calm
<1> USE DEF ResumeLocked, ResumeInsert, At, Running, Goto
<1> DEFINE u == arg[t]
<1>0. /\ KernelInv /\ pc[t] \in {"start", "startins"} /\ current = t /\ t # Idle /\ pc[t] \in OpPc
      /\ call[t] = "none"
      /\ \A x \in Thread : stat[x] \in {"INIT", "READY", "SUSPEND"}
  BY CoreView DEF CoreInv, CallerOK, CallerPc, OpPc, WaitInv, PlaceOK
<1>1. u \in Thread /\ stat[u] = "SUSPEND" /\ Detached(u)
  <2>1. Control(t) /\ arg[t] \in Thread \cup {NoThread}
    BY <1>0 DEF KernelInv, ControlOK, KernelTypeOK
  <2> QED BY <1>0, <2>1 DEF Control
<1>2. pc'[t] \in {"startins", "sched"} /\ (\A x \in Thread \ {t} : UNCHANGED pc[x]) /\ UNCHANGED <<call, err, current, due>>
  BY <1>0, CoreView
<1>3. UNCHANGED waitq
  BY <1>0, <1>1, UnlinkDetached
<1>4. \A x \in Thread \ {u} : UNCHANGED <<stat[x], timer[x]>>
  BY <1>1, CoreView DEF InsertThread
<1>5. (stat'[u] = "READY" \/ stat'[u] = stat[u]) /\ \A o \in Obj : u \notin Range(waitq[o])
  BY <1>1, CoreView DEF InsertThread, Detached
<1>6. NestOK' /\ \A o \in Obj : InWait(t, o)' <=> InWait(t, o)
  BY <1>0, <1>2, CoreView DEF NestOK, InWait
<1> HIDE DEF u
<1>7. \A o \in Obj : \A x \in Range(waitq[o]) : timer[x] = 0 /\ x \notin due => timer'[x] = 0 /\ x \notin due'
  BY <1>2, <1>4, <1>5, CoreView
<1>8. pc'[t] \in CallerPc /\ ~Flushing(t)'
  BY <1>2 DEF CallerPc, Flushing
<1>9. \A x \in Thread : /\ stat'[x] \in {"INIT", "READY", "SUSPEND"}
                        /\ stat'[x] = "SUSPEND" => stat[x] = "SUSPEND"
  <2> TAKE x \in Thread
  <2>1. stat'[x] = "READY" \/ stat'[x] = stat[x]
    BY <1>4, <1>5
  <2> QED BY <1>0, <2>1
<1> QED BY <1>2, <1>3, <1>6, <1>7, <1>8, <1>9, CalmMove

(* The calls of the first thread *)
LEMMA MainCalm ==
  ASSUME CoreInv, KernelInv', NEW t \in Thread, t # Idle,
         \/ \E n \in 1 .. MaxTime : Sleep(t, n)
         \/ \E u \in Thread : Startup(t, u)
         \/ EnterCritical(t) \/ ExitCritical(t)
  PROVE  Calm
<1> USE DEF MayBlock, InUser, Running, Goto, queueVars, threadVars, callVars
<1>0. /\ current = t /\ pc[t] = "run" /\ stat[t] = "READY" /\ call[t] = "none" /\ call[t] \notin Obj
      /\ \A x \in Thread : stat[x] \in {"INIT", "READY", "SUSPEND"}
      /\ \A o \in Obj : t \notin Range(waitq[o])
  BY CoreView DEF CoreInv, CallerOK, WaitInv, PlaceOK, Sleep, Startup, EnterCritical, ExitCritical
<1>1. CASE \E n \in 1 .. MaxTime : Sleep(t, n)
  <2>1. /\ UNCHANGED <<waitq, err, due, nest, current>> /\ nest = 0
        /\ pc'[t] = "sched" /\ call'[t] = "sleep" /\ call'[t] \notin Obj
        /\ \A x \in Thread \ {t} : UNCHANGED <<pc[x], call[x], stat[x], timer[x]>>
    BY <1>1, CoreView DEF Sleep, SuspendFor
  <2>2. NestOK' /\ \A o \in Obj : InWait(t, o)' <=> InWait(t, o)
    BY <1>0, <2>1, CoreView DEF NestOK, InWait
  <2>3. \A o \in Obj : \A x \in Range(waitq[o]) : timer[x] = 0 /\ x \notin due => timer'[x] = 0 /\ x \notin due'
    BY <1>0, <2>1, CoreView
  <2>4. \A x \in Thread : stat'[x] \in {"INIT", "READY", "SUSPEND"}
    BY <1>0, <1>1, CoreView DEF Sleep, SuspendFor
  <2> QED BY <1>0, <2>1, <2>2, <2>3, <2>4, CalmMove DEF CallerPc, Flushing
<1>2. ASSUME NEW u \in Thread, Startup(t, u) PROVE Calm
  <2>1. /\ UNCHANGED <<waitq, err, due, nest, current, call, timer>>
        /\ pc'[t] = "start" /\ \A x \in Thread \ {t} : UNCHANGED pc[x]
        /\ \A x \in Thread \ {u} : UNCHANGED stat[x]
        /\ stat[u] = "INIT" /\ stat'[u] = "SUSPEND"
    BY <1>2, CoreView DEF Startup, Begin
  <2>2. call[u] = "none" /\ call[u] \notin Obj
    BY <2>1, CoreView DEF CoreInv, WaitInv, FreshOK
  <2>3. NestOK' /\ \A o \in Obj : InWait(t, o)' <=> InWait(t, o)
    BY <1>0, <2>1, CoreView DEF NestOK, InWait
  <2> QED BY <1>0, <2>1, <2>2, <2>3, CalmMove DEF CallerPc, Flushing
<1>3. CASE EnterCritical(t) \/ ExitCritical(t)
  <2>1. /\ UNCHANGED <<waitq, err, due, current, call, timer, stat>>
        /\ pc'[t] \in {"run", "sched"} /\ \A x \in Thread \ {t} : UNCHANGED pc[x]
    BY <1>0, <1>3, CoreView DEF EnterCritical, ExitCritical
  <2>2. NestOK' /\ \A o \in Obj : InWait(t, o)' <=> InWait(t, o)
    BY <1>0, <2>1, CoreView DEF NestOK, InWait
  <2> QED BY <1>0, <2>1, <2>2, CalmMove DEF CallerPc, Flushing
<1> QED BY <1>1, <1>2, <1>3

LEMMA TickCalm ==
  ASSUME CoreInv, KernelInv', Tick
  PROVE  Calm
<1> USE DEF Tick, callVars
<1>1. UNCHANGED <<waitq, err, stat, nest, pc, call>> /\ (nest # 0 => current' = current)
  BY DEF DoSchedule
<1>2. \A x \in Thread : timer[x] = 0 => timer'[x] = 0 /\ x \notin due'
  BY DEF TimerAfterTick
<1>3. NestOK'
  BY <1>1, CoreView DEF CoreInv, NestOK
<1>4. \A x \in Thread : stat[x] \in {"INIT", "READY", "SUSPEND"} /\ pc[x] \in CallerPc
  BY DEF CoreInv, CallerOK
<1>5. \A o \in Obj : \A x \in Range(waitq[o]) : timer[x] = 0 /\ x \notin due => timer'[x] = 0 /\ x \notin due'
  BY <1>2, CoreView
<1>6. PICK t \in Thread : t = current
  BY CoreView
<1>7. \A o \in Obj : InWait(t, o)' <=> InWait(t, o)
  BY <1>1 DEF InWait
<1> QED BY <1>1, <1>3, <1>4, <1>5, <1>7, CalmMove DEF Flushing

LEMMA TimeoutCalm ==
  ASSUME CoreInv, KernelInv', NEW t \in Thread, Timeout(t)
  PROVE  Calm
<1> USE DEF Timeout, MakeReady, callVars
<1>1. /\ UNCHANGED <<pc, call, timer, nest>> /\ due' = due \ {t} /\ t \in due
      /\ stat' = [stat EXCEPT ![t] = "READY"] /\ err' = [err EXCEPT ![t] = "TIMEOUT"]
      /\ waitq' = UnlinkAll(waitq, t) /\ (nest # 0 => current' = current)
  BY DEF DoSchedule
<1>2. \A o \in Obj : Range(waitq'[o]) = Range(waitq[o]) \ {t}
  BY <1>1, CoreView, WaitRemoved
<1>3. stat[t] = "SUSPEND"
  BY <1>1, CoreView DEF KernelInv, TimeoutFindsSuspended
<1>4. call[t] \in Obj => t \in Range(waitq[call[t]])
  BY <1>3 DEF CoreInv, CallerOK
<1>5. /\ \A x \in Thread \ {t} : UNCHANGED <<stat[x], err[x]>>
      /\ stat'[t] = "READY" /\ err'[t] # "EOK"
  BY <1>1, CoreView
<1>6. \A x \in Thread : /\ pc[x] \in CallerPc /\ stat[x] \in {"INIT", "READY", "SUSPEND"}
                        /\ stat[x] = "SUSPEND" /\ call[x] \in Obj => x \in Range(waitq[call[x]])
  BY DEF CoreInv, CallerOK
<1>7. SuspendedWaits'
  <2> SUFFICES ASSUME NEW x \in Thread, stat'[x] = "SUSPEND", call[x] \in Obj
               PROVE  x \in Range(waitq'[call[x]])
    BY <1>1 DEF SuspendedWaits
  <2> QED BY <1>2, <1>5, <1>6
<1>8. PushersStay
  <2> SUFFICES ASSUME NEW q \in Dq, NEW x \in Thread, x \in Range(waitq[PushList[q]]), timer[x] = 0, x \notin due
               PROVE  x \in Range(waitq'[PushList[q]]) /\ timer'[x] = 0 /\ x \notin due'
    BY DEF PushersStay
  <2> QED BY <1>1, <1>2, DataQueueAssumption
<1>9. NestOK'
  BY <1>1, CoreView DEF CoreInv, NestOK
<1>10. \A x \in Thread : /\ pc'[x] \in CallerPc /\ stat'[x] \in {"INIT", "READY", "SUSPEND"}
                         /\ Flushing(x)' => Flushing(x) /\ UNCHANGED call[x]
                         /\ \A o \in Obj : InWait(x, o)' <=> InWait(x, o)
                         /\ UNCHANGED err[x] \/ call[x] \notin Obj \/ x \in Range(waitq[call[x]])
  <2> TAKE x \in Thread
  <2>1. stat'[x] \in {"INIT", "READY", "SUSPEND"}
    BY <1>5, <1>6
  <2>2. UNCHANGED err[x] \/ call[x] \notin Obj \/ x \in Range(waitq[call[x]])
    BY <1>4, <1>5
  <2> QED BY <1>1, <1>6, <2>1, <2>2 DEF Flushing, InWait
<1>11. TimersStay
  BY <1>1 DEF TimersStay
<1> QED BY <1>2, <1>5, <1>7, <1>8, <1>9, <1>10, <1>11 DEF Calm

LEMMA FlushCheckCalm ==
  ASSUME CoreInv, NEW t \in Thread, FlushCheck(t)
  PROVE  Calm
<1> USE DEF FlushCheck, At, Running, Goto, threadVars
<1>1. KernelInv' /\ UNCHANGED waitq /\ NestOK'
  BY FlushCheckAct DEF CoreInv, WaitInv
<1>2. /\ pc[t] = "flush" /\ pc'[t] = "flushlock" /\ UNCHANGED <<call, err, stat, timer, due>>
      /\ \A x \in Thread \ {t} : UNCHANGED pc[x]
  BY CoreView
<1>3. \A x \in Thread : stat[x] \in {"INIT", "READY", "SUSPEND"}
  BY DEF CoreInv, CallerOK
<1>4. \A o \in Obj : InWait(t, o)' <=> InWait(t, o)
  BY <1>2 DEF InWait
<1> QED BY <1>1, <1>2, <1>3, <1>4, CalmMove DEF CallerPc, Flushing

LEMMA FlushWakeCalm ==
  ASSUME CoreInv, NEW t \in Thread, FlushWake(t)
  PROVE  Calm
<1> USE DEF FlushWake, WakeWithError, Wake, MakeReady, At, Running, Goto
<1>1. PICK u : u = Head(waitq[call[t]])
  OBVIOUS
<1>2. /\ CoreInv' /\ call[t] \in Obj /\ waitq[call[t]] # <<>>
      /\ \A x \in Obj : Range(waitq'[x]) = Range(waitq[x]) \ {u}
  BY <1>1, FlushWakeAct
<1>3. u \in Range(waitq[call[t]]) /\ u \in Thread /\ call[u] = call[t]
  BY <1>1, <1>2, CoreView, HeadRange
<1>4. /\ timer' = [timer EXCEPT ![u] = 0] /\ err' = [err EXCEPT ![u] = "ERROR"]
      /\ pc' = [pc EXCEPT ![t] = "flush"] /\ UNCHANGED <<call, due, current, nest>> /\ pc[t] = "flushlock"
  BY <1>1
<1>5. /\ \A x \in Thread \ {t} : UNCHANGED pc[x]
      /\ pc'[t] = "flush" /\ err'[u] # "EOK"
      /\ \A x \in Thread \ {u} : UNCHANGED <<err[x], timer[x]>>
  BY <1>3, <1>4, CoreView
<1>6. PushersStay
  <2> SUFFICES ASSUME NEW q \in Dq, NEW x \in Thread, x \in Range(waitq[PushList[q]]), timer[x] = 0, x \notin due
               PROVE  x \in Range(waitq'[PushList[q]]) /\ timer'[x] = 0 /\ x \notin due'
    BY DEF PushersStay
  <2>1. call[x] = PushList[q] /\ PushList[q] \in Obj /\ waitq[PushList[q]] # <<>>
    BY CoreView, DataQueueAssumption, HeadRange
  <2>2. call[t] # PushList[q]
    <3> SUFFICES ASSUME call[t] = PushList[q] PROVE FALSE
      OBVIOUS
    <3>1. FlushAt(PushList[q])
      BY <1>4 DEF CoreInv, FlushPlace, Flushing
    <3> QED BY <2>1, <3>1, DqPlace
  <2>3. x # u
    BY <1>3, <2>1, <2>2
  <2> QED BY <1>2, <1>4, <1>5, <2>1, <2>3
<1>7. \A x \in Thread : /\ pc'[x] \in CallerPc /\ stat'[x] \in {"INIT", "READY", "SUSPEND"}
                        /\ Flushing(x)' => Flushing(x) /\ UNCHANGED call[x]
                        /\ \A o \in Obj : InWait(x, o)' <=> InWait(x, o)
                        /\ UNCHANGED err[x] \/ call[x] \notin Obj \/ x \in Range(waitq[call[x]])
  <2> TAKE x \in Thread
  <2>1. pc'[x] \in CallerPc /\ stat'[x] \in {"INIT", "READY", "SUSPEND"}
    BY <1>2 DEF CoreInv, CallerOK
  <2>2. UNCHANGED err[x] \/ x \in Range(waitq[call[x]])
    BY <1>3, <1>5
  <2> QED BY <1>4, <1>5, <2>1, <2>2 DEF Flushing, InWait
<1>8. SuspendedWaits' /\ NestOK'
  BY <1>2 DEF CoreInv, CallerOK, SuspendedWaits
<1>9. \A o \in Obj : /\ Range(waitq'[o]) \subseteq Range(waitq[o])
                     /\ \A x \in Range(waitq[o]) \ Range(waitq'[o]) : err'[x] # "EOK"
  BY <1>2, <1>5
<1>10. TimersStay
  BY <1>4, <1>5 DEF TimersStay
<1> QED BY SMTT(60), <1>6, <1>7, <1>8, <1>9, <1>10 DEF Calm

(* The steps that are the same for every object.                           *)
LEMMA IpcCallAct ==
  ASSUME CoreInv, Guarded, IpcCallStep
  PROVE  CoreInv' /\ Calm /\ UNCHANGED exists
<1> USE DEF CallerStep
<1>1. ASSUME CallerStep \/ Tick PROVE CoreInv' /\ Calm
  <2>1. Main \in Thread \ {Idle}
    BY KernelAssumption DEF Prio
  <2>2. KernelNext
    BY <1>1, <2>1 DEF KernelNext, ThreadStep, UserCall, Interrupt
  <2>3. KernelInv' /\ FlushOK' /\ WaitInv'
    BY <2>2, StepInv, KernelKeepsFlush, KernelKeepsFresh, KernelKeepsCalls, KernelKeepsPlace DEF CoreInv, WaitInv
  <2>4. ASSUME NEW t \in Thread, InCall(t) PROVE Calm
    <3>1. pc[t] \notin {"suspend", "del1", "del2", "del3"}
      BY DEF CoreInv, CallerOK, CallerPc
    <3>2. Schedule(t) \/ Return(t) \/ ResumeLocked(t) \/ ResumeInsert(t)
      BY <2>4, <3>1 DEF InCall, SuspendLocked, DeleteTimer, DeleteClose, DeleteDefunct, At
    <3> QED BY <2>3, <3>2, ScheduleCalm, ReturnCalm, ResumeCalm
  <2>5. Calm
    BY <1>1, <2>1, <2>3, <2>4, TimeoutCalm, TickCalm, MainCalm
  <2>6. FlushPlace'
    <3> SUFFICES ASSUME NEW x \in Thread, Flushing(x)' PROVE FlushAt(call[x])'
      BY DEF FlushPlace
    <3>1. Flushing(x) /\ UNCHANGED call[x]
      BY <2>5 DEF Calm
    <3>2. PICK k : k = call[x]
      OBVIOUS
    <3>3. FlushAt(k) /\ KernelInv
      BY <3>1, <3>2, CoreView DEF CoreInv, FlushPlace
    <3>4. \A o \in Obj : /\ Range(waitq'[o]) \subseteq Range(waitq[o])
                         /\ \A v \in Range(waitq[o]) : timer[v] = 0 /\ v \notin due => timer'[v] = 0 /\ v \notin due'
      BY <2>5 DEF Calm, TimersStay
    <3>5. FlushAt(k)'
      BY <2>3, <3>3, <3>4, FlushAtKept
    <3> QED BY <3>1, <3>2, <3>5
  <2>7. CallerOK' /\ NestOK'
    BY <2>5 DEF Calm, CallerOK, SuspendedWaits
  <2> QED BY <2>3, <2>5, <2>6, <2>7 DEF CoreInv
<1>2. ASSUME NEW t \in Thread, FlushCheck(t) \/ FlushWake(t) PROVE CoreInv' /\ Calm /\ UNCHANGED exists
  BY <1>2, FlushCheckAct, FlushWakeAct, FlushCheckCalm, FlushWakeCalm
<1> QED BY <1>1, <1>2 DEF IpcCallStep, TickCalls

(***************************************************************************)
(* Objects beside each other: what a call on one object means for the      *)
(* threads of another.                                                     *)
(***************************************************************************)
Apart(o) ==
  /\ Range(waitq'[o]) = Range(waitq[o])
  /\ \A x \in Thread : /\ InWait(x, o)' <=> InWait(x, o)
                       /\ InWait(x, o) => UNCHANGED err[x]
  /\ \A x \in Range(waitq[o]) : timer'[x] = timer[x] /\ (x \notin due => x \notin due')

LEMMA ApartSteps ==
  ASSUME CoreInv, NEW t \in Thread, NEW w, Steps(t, w), NEW o \in Obj,
         \A x \in w : call[x] # o, call[t] # o \/ UNCHANGED <<pc[t], call[t]>>,
         ~InWait(t, o)' \/ UNCHANGED <<pc[t], call[t]>>
  PROVE  Apart(o)
<1> USE DEF Steps
<1>1. \A x \in Range(waitq[o]) : x \in Thread /\ call[x] = o /\ x \notin w
  BY CoreView
<1>2. Range(waitq'[o]) = Range(waitq[o])
  BY <1>1
<1>3. \A x \in Thread : InWait(x, o) => x \notin w
  BY DEF InWait
<1>4. \A x \in Thread : InWait(x, o)' <=> InWait(x, o)
  BY DEF InWait
<1> QED BY <1>1, <1>2, <1>3, <1>4 DEF Apart

LEMMA ApartBlock ==
  ASSUME CoreInv, NEW t \in Thread, NEW s \in Obj, NEW order, NEW n \in 0 .. MaxTime,
         MayBlock(t) \/ (At(t, "blocked") /\ call[t] \in Obj), Block(t, s, order, n),
         NEW o \in Obj, o # s, call[t] # o
  PROVE  Apart(o)
<1>1. /\ waitq'[o] = waitq[o] /\ UNCHANGED due /\ stat[t] = "READY"
      /\ pc' = [pc EXCEPT ![t] = "sched"] /\ call' = [call EXCEPT ![t] = s]
      /\ err' = [err EXCEPT ![t] = "EOK"] /\ timer' = [timer EXCEPT ![t] = n]
  BY BlockAct
<1>2. /\ \A x \in Thread \ {t} : UNCHANGED <<pc[x], call[x], err[x], timer[x]>>
      /\ call'[t] = s
  BY <1>1, CoreView
<1>3. \A x \in Range(waitq[o]) : x \in Thread /\ x # t
  BY <1>1, CoreView
<1> QED BY <1>1, <1>2, <1>3 DEF Apart, InWait

LEMMA ApartSame ==
  ASSUME UNCHANGED kernelVars, NEW o \in Obj
  PROVE  Apart(o)
BY DEF Apart, InWait, kernelVars, queueVars, threadVars, callVars

(* Nobody waits for an object of S that is not initialised. *)
Gone(S) == \A o \in S : ~exists[o] => waitq[o] = <<>>

LEMMA StaysEmpty ==
  ASSUME CoreInv, CoreInv', NEW o \in Obj, waitq[o] = <<>>, Range(waitq'[o]) \subseteq Range(waitq[o])
  PROVE  waitq'[o] = <<>>
<1>1. waitq \in [Obj -> Seq(Thread)] /\ waitq' \in [Obj -> Seq(Thread)]
  BY CoreView DEF CoreInv, WaitInv, KernelInv, KernelTypeOK
<1>2. Range(waitq[o]) = {}
  BY DEF Range
<1> QED BY <1>1, <1>2, HeadRange

(* An object is initialised anew. *)
LEMMA InitAct ==
  ASSUME CoreInv, NEW t \in Thread, NEW o \in Obj, ObjectInit(t, o), waitq[o] = <<>>,
         exists \in [Obj -> BOOLEAN]
  PROVE  /\ CoreInv' /\ UNCHANGED kernelVars /\ exists' \in [Obj -> BOOLEAN]
         /\ \A x \in Obj \ {o} : exists'[x] = exists[x]
<1>1. waitq' = waitq
  BY CoreView DEF ObjectInit
<1>2. UNCHANGED kernelVars
  BY <1>1 DEF ObjectInit, kernelVars, queueVars
<1> QED BY <1>2, SameAct DEF ObjectInit

(***************************************************************************)
(* Completions.                                                            *)
(***************************************************************************)
WaiterOnly == \A c \in Cp : Range(waitq[c]) \subseteq {Waiter[c]}

CpInv == flag \in [Cp -> BOOLEAN] /\ Gone(Cp) /\ WaiterOnly /\ NobodyWaitsCompleted

(* Steps that have nobody wait. *)
LEMMA CpFrame ==
  ASSUME CpInv, CoreInv, CoreInv', \A c \in Cp : Range(waitq'[c]) \subseteq Range(waitq[c]),
         flag' \in [Cp -> BOOLEAN], \A c \in Cp : flag'[c] => flag[c] \/ waitq'[c] = <<>>,
         \A c \in Cp : exists'[c] # exists[c] => waitq[c] = <<>>
  PROVE  CpInv'
<1>1. \A c \in Cp : waitq[c] = <<>> => waitq'[c] = <<>>
  BY StaysEmpty, CompletionAssumption
<1>2. Gone(Cp)'
  BY <1>1 DEF CpInv, Gone
<1>3. WaiterOnly' /\ NobodyWaitsCompleted'
  BY <1>1 DEF CpInv, WaiterOnly, NobodyWaitsCompleted
<1> QED BY <1>2, <1>3 DEF CpInv

CpDoes == CoreInv' /\ CpInv' /\ \A o \in Obj \ Cp : Apart(o)

LEMMA CpMoveStep ==
  ASSUME CoreInv, CpInv, NEW t \in Thread \ {Idle},
         CpReturn(t) \/ (\E c \in Cp : CpDoneTest(t, c)) \/ (CpDone(t) /\ waitq[call[t]] = <<>>)
  PROVE  CpDoes
<1> USE DEF CpReturn, CpDoneTest, CpDone, Complete, InUser, At, Running, Goto, queueVars, threadVars
<1>0. PICK l, k : Goes(t, l, k) /\ (l = "got" => k \in Cp)
  <2>1. call \in [Thread -> Call] /\ pc \in [Thread -> Pc] /\ "none" \in Call /\ Cp \subseteq Call
    BY CoreView, CompletionAssumption DEF Call
  <2>2. CASE CpReturn(t) \/ (CpDone(t) /\ waitq[call[t]] = <<>>)
    <3>1. Goes(t, "run", "none")
      BY <2>1, <2>2 DEF Goes
    <3> QED BY <3>1
  <2>3. ASSUME NEW c \in Cp, CpDoneTest(t, c) PROVE Goes(t, "got", c)
    BY <2>1, <2>3 DEF Goes
  <2> QED BY <2>2, <2>3
<1>1. UNCHANGED <<queueVars, threadVars, arg, current, due, lag, nest, exists>>
  OBVIOUS
<1>2. CoreInv' /\ Steps(t, {})
  BY <1>0, <1>1, MoveAct
<1>3. \A o \in Obj \ Cp : Apart(o)
  <2> SUFFICES ASSUME NEW o \in Obj \ Cp PROVE Apart(o)
    OBVIOUS
  <2>1. call[t] # o
    BY CoreView DEF CoreInv, WaitInv, PlaceOK
  <2>2. ~InWait(t, o)'
    BY ZenonT(60), <1>0, GoesTyped DEF InWait, Goes
  <2> QED BY <1>2, <2>1, <2>2, ApartSteps
<1>4. \A c \in Cp : Range(waitq'[c]) = Range(waitq[c])
  OBVIOUS
<1>5. flag' \in [Cp -> BOOLEAN] /\ \A c \in Cp : flag'[c] => flag[c] \/ waitq'[c] = <<>>
  BY DEF CpInv
<1> QED BY <1>1, <1>2, <1>3, <1>4, <1>5, CpFrame DEF CpDoes

(* rt_completion_done wakes the one thread that may wait. *)
LEMMA LastWaiter ==
  ASSUME CoreInv, CpInv, CoreInv', NEW c \in Cp, waitq[c] # <<>>,
         \A x \in Obj : Range(waitq'[x]) = Range(waitq[x]) \ {Head(waitq[c])}
  PROVE  waitq'[c] = <<>>
<1>1. c \in Obj /\ waitq[c] \in Seq(Thread)
  BY CompletionAssumption, CoreView
<1>2. Head(waitq[c]) = Waiter[c] /\ Range(waitq[c]) \subseteq {Waiter[c]}
  BY <1>1, HeadRange DEF CpInv, WaiterOnly
<1>3. Range(waitq'[c]) = {}
  BY <1>1, <1>2
<1>4. waitq' \in [Obj -> Seq(Thread)]
  BY DEF CoreInv, WaitInv, KernelInv, KernelTypeOK
<1> QED BY <1>1, <1>3, <1>4, HeadRange

LEMMA CpDoneStep ==
  ASSUME CoreInv, CpInv, NEW t \in Thread \ {Idle}, CpDone(t), waitq[call[t]] # <<>>
  PROVE  CpDoes
<1> USE DEF CpDone, Complete, At, Running, Goto
<1>1. PICK c \in Cp : c = call[t]
  OBVIOUS
<1>2. c \in Obj /\ call \in [Thread -> Call] /\ "none" \in Call
  BY CompletionAssumption, CoreView DEF Call
<1>3. Goes(t, "sched", "none")
  BY <1>2 DEF Goes
<1>4. /\ CoreInv' /\ Steps(t, {Head(waitq[c])})
      /\ \A x \in Obj : Range(waitq'[x]) = Range(waitq[x]) \ {Head(waitq[c])}
  BY <1>1, <1>2, <1>3, WakeAct
<1>5. \A o \in Obj \ Cp : Apart(o)
  <2> SUFFICES ASSUME NEW o \in Obj \ Cp PROVE Apart(o)
    OBVIOUS
  <2>1. Head(waitq[c]) \in Range(waitq[c])
    BY <1>1, <1>2, CoreView, HeadRange
  <2>2. call[Head(waitq[c])] = c
    BY <1>2, <2>1, CoreView
  <2>3. ~InWait(t, o)'
    BY <1>3, GoesTyped, CoreView DEF InWait
  <2> QED BY <1>1, <1>4, <2>2, <2>3, ApartSteps
<1>6. waitq'[c] = <<>>
  BY <1>1, <1>4, LastWaiter
<1>7. \A d \in Cp : Range(waitq'[d]) \subseteq Range(waitq[d])
  BY <1>4, CompletionAssumption
<1>8. flag' \in [Cp -> BOOLEAN] /\ \A d \in Cp : flag'[d] => flag[d] \/ waitq'[d] = <<>>
  BY <1>1, <1>6 DEF CpInv
<1> QED BY <1>4, <1>5, <1>7, <1>8, CpFrame DEF CpDoes

(* ... also from an interrupt handler.                                     *)
LEMMA IsrCpDoneStep ==
  ASSUME CoreInv, CpInv, NEW c \in Cp, IsrCpDone(c)
  PROVE  CpDoes
<1> USE DEF IsrCpDone, Complete, IrqEnabled, IsrSchedule
<1>1. c \in Obj
  BY CompletionAssumption
<1>2. CASE waitq[c] # <<>>
  <2>1. \A x \in Thread : Flushing(x) => call[x] # c
    BY ObjectsAssumption DEF CoreInv, FlushPlace, FlushAt
  <2>2. /\ CoreInv' /\ Steps(current, {Head(waitq[c])})
        /\ \A x \in Obj : Range(waitq'[x]) = Range(waitq[x]) \ {Head(waitq[c])}
    BY <1>1, <1>2, <2>1, WakeIsr
  <2>3. \A o \in Obj \ Cp : Apart(o)
    <3> SUFFICES ASSUME NEW o \in Obj \ Cp PROVE Apart(o)
      OBVIOUS
    <3>1. Head(waitq[c]) \in Range(waitq[c])
      BY <1>1, <1>2, CoreView, HeadRange
    <3>2. call[Head(waitq[c])] = c
      BY <1>1, <3>1, CoreView
    <3>3. PICK t \in Thread : t = current
      BY CoreView
    <3>4. UNCHANGED <<pc[t], call[t]>>
      BY DEF callVars
    <3> QED BY <2>2, <3>2, <3>3, <3>4, ApartSteps
  <2>4. waitq'[c] = <<>>
    BY <1>2, <2>2, LastWaiter
  <2>5. \A d \in Cp : Range(waitq'[d]) \subseteq Range(waitq[d])
    BY <2>2, CompletionAssumption
  <2>6. flag' \in [Cp -> BOOLEAN] /\ \A d \in Cp : flag'[d] => flag[d] \/ waitq'[d] = <<>>
    BY <2>4 DEF CpInv
  <2> QED BY <2>2, <2>3, <2>5, <2>6, CpFrame DEF CpDoes
<1>3. CASE waitq[c] = <<>>
  <2>1. UNCHANGED kernelVars
    BY <1>3 DEF kernelVars, queueVars, threadVars, callVars
  <2>2. CoreInv' /\ UNCHANGED waitq
    BY <2>1, SameAct DEF kernelVars, queueVars
  <2>3. \A o \in Obj : Apart(o)
    BY <2>1, ApartSame
  <2>4. flag' \in [Cp -> BOOLEAN] /\ \A d \in Cp : flag'[d] => flag[d] \/ waitq'[d] = <<>>
    BY <1>3, <2>2 DEF CpInv
  <2> QED BY <2>2, <2>3, <2>4, CpFrame DEF CpDoes
<1> QED BY <1>2, <1>3

LEMMA CpWaitStep ==
  ASSUME CoreInv, CpInv, NEW t \in Thread \ {Idle}, NEW c \in Cp, NEW n \in 0 .. MaxTime, CpWait(t, c, n)
  PROVE  CpDoes
<1> USE DEF CpWait
<1>1. c \in Obj /\ call[t] \notin Obj
  BY CompletionAssumption, CoreView DEF MayBlock, InUser, CoreInv, WaitInv, PlaceOK
<1>2. /\ CoreInv' /\ Range(waitq'[c]) = Range(waitq[c]) \cup {t}
      /\ \A x \in Obj \ {c} : waitq'[x] = waitq[x]
  BY <1>1, BlockAct
<1>3. \A o \in Obj \ Cp : Apart(o)
  BY <1>1, ApartBlock
<1>4. CpInv'
  BY <1>1, <1>2, CompletionAssumption DEF CpInv, Gone, WaiterOnly, NobodyWaitsCompleted
<1> QED BY <1>2, <1>3, <1>4 DEF CpDoes

LEMMA CpInitStep ==
  ASSUME CoreInv, CpInv, exists \in [Obj -> BOOLEAN], NEW c \in Cp, CpInit(Main, c)
  PROVE  CpDoes
<1> USE DEF CpInit
<1>1. c \in Obj /\ waitq[c] = <<>> /\ Main \in Thread
  BY CompletionAssumption, KernelAssumption DEF CpInv, Gone, ObjectInit
<1>2. /\ CoreInv' /\ UNCHANGED kernelVars
      /\ \A x \in Obj \ {c} : exists'[x] = exists[x]
  BY <1>1, InitAct
<1>3. \A o \in Obj : Apart(o)
  BY <1>2, ApartSame
<1>4. UNCHANGED waitq
  BY <1>2 DEF kernelVars, queueVars
<1>5. flag' \in [Cp -> BOOLEAN] /\ \A d \in Cp : flag'[d] => flag[d]
  BY DEF CpInv
<1>6. \A d \in Cp : exists'[d] # exists[d] => waitq[d] = <<>>
  BY <1>1, <1>2, CompletionAssumption
<1> QED BY <1>2, <1>3, <1>4, <1>5, <1>6, CpFrame DEF CpDoes

(* All that threads and interrupt handlers do with completions. *)
LEMMA CompletionStep ==
  ASSUME CoreInv, CpInv, exists \in [Obj -> BOOLEAN], CompletionNext
  PROVE  CpDoes /\ exists' \in [Obj -> BOOLEAN] /\ \A o \in Obj \ Cp : exists'[o] = exists[o]
<1>1. CpDoes
  <2>1. ASSUME NEW t \in Thread \ {Idle}, CpDone(t) PROVE CpDoes
    BY <2>1, CpDoneStep, CpMoveStep
  <2> QED BY <2>1, CpMoveStep, IsrCpDoneStep, CpWaitStep, CpInitStep DEF CompletionNext
<1>2. UNCHANGED exists \/ \E c \in Cp : exists' = [exists EXCEPT ![c] = TRUE]
  BY DEF CompletionNext, CpReturn, CpDone, CpDoneTest, CpWait, CpInit, ObjectInit, IsrCpDone
<1> QED BY <1>1, <1>2, CompletionAssumption

(***************************************************************************)
(* Events.                                                                 *)
(***************************************************************************)

(* Fewer flags satisfy nobody whom more did not. *)
LEMMA SatisfiedMonotone ==
  ASSUME NEW want, NEW option, NEW more, NEW fewer, fewer \subseteq more, Satisfied(want, option, fewer)
  PROVE  Satisfied(want, option, more)
BY DEF Satisfied

(* A walk that serves the threads of q up to its k-th with result w. *)
Served(q, k, w) ==
  LET upto == {q[j] : j \in 1 .. k} IN
  /\ w.flags \in SUBSET Bit /\ w.given \in [Thread -> SUBSET Bit] /\ w.woken \in Seq(Thread)
  /\ IsInjective(w.woken) /\ Range(w.woken) \subseteq upto
  /\ \A t \in Thread \ Range(w.woken) : w.given[t] = event_set[t]
  /\ \A t \in upto \ Range(w.woken) : ~Satisfied(event_set[t], event_info[t], w.flags)

Walks == [flags : SUBSET Bit, given : [Thread -> SUBSET Bit], woken : Seq(Thread)]

LEMMA ServeTyped ==
  ASSUME EventTypeOK, NEW w \in Walks, NEW t \in Thread
  PROVE  Serve(w, t) \in Walks
<1>1. w.flags \in SUBSET Bit /\ w.given \in [Thread -> SUBSET Bit] /\ w.woken \in Seq(Thread)
  BY DEF Walks
<1>2. event_set[t] \cap w.flags \in SUBSET Bit
  BY <1>1
<1>3. [w.given EXCEPT ![t] = event_set[t] \cap w.flags] \in [Thread -> SUBSET Bit]
  BY <1>1, <1>2
<1>4. Append(w.woken, t) \in Seq(Thread)
  BY <1>1
<1>5. (IF "CLEAR" \in event_info[t] THEN w.flags \ (event_set[t] \cap w.flags) ELSE w.flags) \in SUBSET Bit
  BY <1>1
<1> QED BY <1>3, <1>4, <1>5 DEF Serve, Walks

(* The next thread of the list is looked at. *)
LEMMA ServeStep ==
  ASSUME EventTypeOK, NEW q \in Seq(Thread), IsInjective(q), NEW k \in 1 .. Len(q),
         NEW w, Served(q, k - 1, w)
  PROVE  Served(q, k, Serve(w, q[k]))
<1> DEFINE upto(m) == {q[j] : j \in 1 .. m}
<1>1. PICK t \in Thread : t = q[k]
  BY ElementOfSeq
<1>2. upto(k) = upto(k - 1) \cup {t} /\ t \notin upto(k - 1)
  BY <1>1 DEF IsInjective
<1>3. /\ w.flags \in SUBSET Bit /\ w.given \in [Thread -> SUBSET Bit] /\ w.woken \in Seq(Thread)
      /\ IsInjective(w.woken) /\ Range(w.woken) \subseteq upto(k - 1)
      /\ \A x \in Thread \ Range(w.woken) : w.given[x] = event_set[x]
      /\ \A x \in upto(k - 1) \ Range(w.woken) : ~Satisfied(event_set[x], event_info[x], w.flags)
  BY DEF Served
<1> SUFFICES ASSUME NEW v, v = Serve(w, t)
             PROVE  /\ v.flags \in SUBSET Bit /\ v.given \in [Thread -> SUBSET Bit] /\ v.woken \in Seq(Thread)
                    /\ IsInjective(v.woken) /\ Range(v.woken) \subseteq upto(k)
                    /\ \A x \in Thread \ Range(v.woken) : v.given[x] = event_set[x]
                    /\ \A x \in upto(k) \ Range(v.woken) : ~Satisfied(event_set[x], event_info[x], v.flags)
  BY <1>1 DEF Served
<1> HIDE DEF upto
<1>4. CASE ~Satisfied(event_set[t], event_info[t], w.flags)
  <2>1. v = w
    BY <1>4 DEF Serve
  <2> QED BY <1>2, <1>3, <1>4, <2>1
<1>5. CASE Satisfied(event_set[t], event_info[t], w.flags)
  <2>1. v = [flags |-> IF "CLEAR" \in event_info[t] THEN w.flags \ (event_set[t] \cap w.flags) ELSE w.flags,
             given |-> [w.given EXCEPT ![t] = event_set[t] \cap w.flags],
             woken |-> Append(w.woken, t)]
    BY <1>5 DEF Serve
  <2>2. /\ v.flags \subseteq w.flags /\ v.woken = Append(w.woken, t)
        /\ v.given = [w.given EXCEPT ![t] = event_set[t] \cap w.flags]
    BY <2>1
  <2>3. v.given \in [Thread -> SUBSET Bit] /\ \A x \in Thread \ {t} : v.given[x] = w.given[x]
    BY <1>3, <2>2
  <2>4. v.woken \in Seq(Thread) /\ IsInjective(v.woken) /\ Range(v.woken) = Range(w.woken) \cup {t}
    BY <1>2, <1>3, <2>2, AppendRange
  <2>5. \A x \in upto(k) \ Range(v.woken) : ~Satisfied(event_set[x], event_info[x], v.flags)
    BY <1>2, <1>3, <2>2, <2>4, SatisfiedMonotone
  <2> QED BY <1>2, <1>3, <2>2, <2>3, <2>4, <2>5
<1> QED BY <1>4, <1>5

(* The walk of rt_event_send over the wait list of e, one thread after the *)
(* other.                                                                  *)
LEMMA WalkSteps ==
  ASSUME EventTypeOK, NEW e \in Ev, NEW s \in SUBSET Bit, waitq[e] \in Seq(Thread)
  PROVE  \E F : /\ F[0] = [flags |-> set[e] \cup s, given |-> event_set, woken |-> <<>>]
                /\ \A k \in 1 .. Len(waitq[e]) : F[k] = Serve(F[k - 1], waitq[e][k])
                /\ Walk(e, s) = F[Len(waitq[e])]
<1> DEFINE q == waitq[e]
           n == Len(q)
           first == [flags |-> set[e] \cup s, given |-> event_set, woken |-> <<>>]
           F == CHOOSE f : f = [i \in 0 .. n |-> IF i = 0 THEN first ELSE Serve(f[i - 1], q[i])]
<1>n. n \in Nat /\ \A k \in 1 .. n : q[k] \in Thread
  BY ElementOfSeq
<1>s. first \in Walks
  <2>1. set[e] \cup s \in SUBSET Bit /\ event_set \in [Thread -> SUBSET Bit] /\ <<>> \in Seq(Thread)
    BY DEF EventTypeOK
  <2> QED BY <2>1 DEF Walks
<1>f. F = [i \in 0 .. n |-> IF i = 0 THEN first ELSE Serve(F[i - 1], q[i])]
  <2> DEFINE G == [k \in 1 .. n |-> [w \in Walks |-> Serve(w, q[k])]]
  <2>1. G \in [1 .. n -> [Walks -> Walks]]
    <3> HIDE DEF n, q
    <3> QED BY <1>n, ServeTyped
  <2>2. PICK h : Recursion(n, Walks, first, G, h)
    <3> HIDE DEF G, first, n, q, F
    <3>1. n \in Nat
      BY <1>n
    <3> QED BY <3>1, <1>s, <2>1, RecursionExists
  <2>3. ASSUME NEW k \in 1 .. n PROVE h[k] = Serve(h[k - 1], q[k])
    <3>1. k - 1 \in 0 .. n
      BY <1>n
    <3> HIDE DEF n, q
    <3> QED BY <2>2, <3>1 DEF Recursion
  <2>4. h = [i \in 0 .. n |-> IF i = 0 THEN first ELSE Serve(h[i - 1], q[i])]
    <3> HIDE DEF n, q, first, G
    <3> QED BY <1>n, <2>2, <2>3 DEF Recursion
  <2> HIDE DEF n, q, first, G
  <2> QED BY <2>4
<1>r. Walk(e, s) = F[n]
  BY DEF Walk
<1>0. F[0] = first /\ \A k \in 1 .. n : F[k] = Serve(F[k - 1], q[k])
  <2> HIDE DEF F, first, q, n
  <2> QED BY <1>f, <1>n
<1> QED BY <1>0, <1>r

(* It wakes some of the threads and leaves none whose flags are there.     *)
LEMMA WalkProperties ==
  ASSUME EventTypeOK, NEW e \in Ev, NEW s \in SUBSET Bit,
         waitq[e] \in Seq(Thread), IsInjective(waitq[e])
  PROVE  Served(waitq[e], Len(waitq[e]), Walk(e, s))
<1>q. PICK q : q = waitq[e]
  OBVIOUS
<1>w. PICK n : n = Len(q)
  OBVIOUS
<1>n. n \in Nat /\ q \in Seq(Thread) /\ IsInjective(q) /\ n = Len(q)
  BY <1>q, <1>w
<1>0. PICK F : /\ F[0] = [flags |-> set[e] \cup s, given |-> event_set, woken |-> <<>>]
               /\ \A k \in 1 .. n : F[k] = Serve(F[k - 1], q[k])
               /\ Walk(e, s) = F[n]
  BY <1>q, <1>w, WalkSteps
<1> DEFINE P == {k \in 0 .. n : Served(q, k, F[k])}
<1>1. 0 \in P
  <2>1. {q[j] : j \in 1 .. 0} = {} /\ Range(<<>>) = {} /\ IsInjective(<<>>) /\ <<>> \in Seq(Thread)
    BY DEF Range, IsInjective
  <2>2. F[0].flags = set[e] \cup s /\ F[0].given = event_set /\ F[0].woken = <<>>
    BY <1>0
  <2>3. set[e] \cup s \in SUBSET Bit /\ event_set \in [Thread -> SUBSET Bit]
    BY DEF EventTypeOK
  <2>4. Served(q, 0, F[0])
    BY <2>1, <2>2, <2>3 DEF Served
  <2> QED BY <1>n, <2>4
<1>2. ASSUME NEW k \in 1 .. n, k - 1 \in P PROVE k \in P
  <2>1. Served(q, k - 1, F[k - 1]) /\ F[k] = Serve(F[k - 1], q[k])
    BY <1>0, <1>2
  <2>2. Served(q, k, F[k])
    BY <1>n, <2>1, ServeStep
  <2> QED BY <1>n, <2>2
<1>3. n \in P
  <2>1. 0 .. n \subseteq P
    <3> HIDE DEF P
    <3> QED BY <1>n, <1>1, <1>2, Stepwise
  <2>2. n \in 0 .. n
    BY <1>n
  <2> HIDE DEF P
  <2> QED BY <2>1, <2>2
<1> QED BY <1>0, <1>q, <1>w, <1>3

EvInv == EventTypeOK /\ Gone(Ev) /\ NobodyMissesFlags

(* Steps that have nobody wait. *)
LEMMA EvFrame ==
  ASSUME EvInv, CoreInv, CoreInv', EventTypeOK',
         \A e \in Ev : Range(waitq'[e]) \subseteq Range(waitq[e]),
         \A e \in Ev : \A x \in Range(waitq'[e]) :
           /\ event_set'[x] = event_set[x] /\ event_info'[x] = event_info[x]
           /\ set'[e] \subseteq set[e] \/ ~Satisfied(event_set[x], event_info[x], set'[e]),
         \A e \in Ev : exists'[e] # exists[e] => waitq[e] = <<>>
  PROVE  EvInv'
<1>1. Gone(Ev)'
  <2>1. \A e \in Ev : waitq[e] = <<>> => waitq'[e] = <<>>
    BY StaysEmpty, EventAssumption
  <2> QED BY <2>1 DEF EvInv, Gone
<1>2. NobodyMissesFlags'
  <2> SUFFICES ASSUME NEW e \in Ev, NEW x \in Range(waitq'[e])
               PROVE  ~Satisfied(event_set'[x], event_info'[x], set'[e])
    BY DEF NobodyMissesFlags, Satisfied
  <2>1. event_set'[x] = event_set[x] /\ event_info'[x] = event_info[x]
    OBVIOUS
  <2>2. ~Satisfied(event_set[x], event_info[x], set[e])
    BY DEF EvInv, NobodyMissesFlags
  <2>3. set'[e] \subseteq set[e] \/ ~Satisfied(event_set[x], event_info[x], set'[e])
    OBVIOUS
  <2> QED BY <2>1, <2>2, <2>3, SatisfiedMonotone
<1> QED BY <1>1, <1>2 DEF EvInv

EvDoes(e) == CoreInv' /\ EvInv' /\ \A o \in Obj \ {e} : Apart(o)

(* A call that neither waits nor wakes. *)
LEMMA EvMoveStep ==
  ASSUME CoreInv, EvInv, NEW t \in Thread, NEW l, NEW k, Goes(t, l, k), NEW e \in Ev, l = "got" => k = e,
         UNCHANGED <<queueVars, threadVars, arg, current, nest, due, lag, exists>>,
         EventTypeOK', \A d \in Ev : set'[d] \subseteq set[d],
         \A x \in Thread \ {t} : event_set'[x] = event_set[x] /\ event_info'[x] = event_info[x],
         call[t] \in {e, "none"}
  PROVE  EvDoes(e)
<1>1. CoreInv' /\ Steps(t, {}) /\ UNCHANGED waitq
  BY MoveAct DEF queueVars
<1>2. \A o \in Obj \ {e} : Apart(o)
  <2> SUFFICES ASSUME NEW o \in Obj \ {e} PROVE Apart(o)
    OBVIOUS
  <2>1. call[t] # o
    BY CoreView
  <2>2. ~InWait(t, o)'
    BY GoesTyped, CoreView DEF InWait, Goes
  <2> QED BY <1>1, <2>1, <2>2, ApartSteps
<1>3. \A d \in Ev : \A x \in Range(waitq'[d]) : x \in Thread \ {t}
  <2>1. stat[t] = "READY"
    BY CoreView DEF Goes
  <2> QED BY <1>1, <2>1, CoreView, EventAssumption
<1>4. EvInv'
  BY <1>1, <1>3, EvFrame
<1> QED BY <1>1, <1>2, <1>4 DEF EvDoes

LEMMA EventRecvStep ==
  ASSUME CoreInv, EvInv, NEW t \in Thread \ {Idle}, NEW e \in Ev, NEW r \in Request, EventRecv(t, e, r)
  PROVE  EvDoes(e)
<1> USE DEF EventRecv, InUser, Running, Goto
<1>1. call[t] = "none" /\ e \in Call
  BY EventAssumption DEF CoreInv, WaitInv, PlaceOK, Call
<1>2. Goes(t, "got", e)
  BY <1>1 DEF Goes
<1>3. set \in [Ev -> SUBSET Bit] /\ event_set \in [Thread -> SUBSET Bit] /\ event_info \in [Thread -> SUBSET {"AND", "OR", "CLEAR"}]
  BY DEF EvInv, EventTypeOK
<1>4. set' = [set EXCEPT ![e] = IF "CLEAR" \in r.option THEN set[e] \ r.set ELSE set[e]]
  OBVIOUS
<1>5. PICK s : s = (IF "CLEAR" \in r.option THEN set[e] \ r.set ELSE set[e])
  OBVIOUS
<1>6. s \subseteq set[e] /\ s \in SUBSET Bit
  BY <1>3, <1>5
<1>7. set' \in [Ev -> SUBSET Bit] /\ \A d \in Ev : set'[d] \subseteq set[d]
  BY <1>3, <1>4, <1>5, <1>6
<1>8. PICK g : g = r.set \cap set[e]
  OBVIOUS
<1>9. g \in SUBSET Bit /\ event_set' = [event_set EXCEPT ![t] = g]
  BY <1>3, <1>8
<1>10. EventTypeOK'
  BY <1>3, <1>7, <1>9 DEF EventTypeOK
<1>11. \A x \in Thread \ {t} : event_set'[x] = event_set[x] /\ event_info'[x] = event_info[x]
  BY <1>3, <1>9
<1> QED BY <1>1, <1>2, <1>7, <1>10, <1>11, EvMoveStep

LEMMA EventReturnStep ==
  ASSUME CoreInv, EvInv, NEW t \in Thread, NEW e \in Ev, call[t] = e, EventReturn(t)
  PROVE  EvDoes(e)
<1> USE DEF EventReturn, At, Running, Goto
<1>1. "none" \in Call /\ pc[Idle] = "run"
  BY CoreView DEF Call
<1>2. Goes(t, "run", "none")
  BY <1>1 DEF Goes
<1>3. EventTypeOK' /\ (\A d \in Ev : set'[d] \subseteq set[d])
      /\ \A x \in Thread \ {t} : event_set'[x] = event_set[x] /\ event_info'[x] = event_info[x]
  BY DEF EvInv, EventTypeOK
<1> QED BY <1>2, <1>3, EvMoveStep

(* The thread waits for what is not there.                                 *)
LEMMA EventWaitStep ==
  ASSUME CoreInv, EvInv, NEW t \in Thread \ {Idle}, NEW e \in Ev, NEW r \in Request,
         NEW n \in 0 .. MaxTime, EventWait(t, e, r, n)
  PROVE  EvDoes(e) /\ Range(waitq'[e]) = Range(waitq[e]) \cup {t}
<1> USE DEF EventWait
<1>1. e \in Obj /\ call[t] \notin Obj /\ call[t] = "none"
  BY EventAssumption, CoreView DEF MayBlock, InUser, CoreInv, WaitInv, PlaceOK
<1>2. /\ CoreInv' /\ Range(waitq'[e]) = Range(waitq[e]) \cup {t}
      /\ \A x \in Obj \ {e} : waitq'[x] = waitq[x]
      /\ stat[t] = "READY"
  BY <1>1, BlockAct
<1>3. \A o \in Obj \ {e} : Apart(o)
  BY <1>1, ApartBlock
<1>4. set \in [Ev -> SUBSET Bit] /\ event_set \in [Thread -> SUBSET Bit] /\ event_info \in [Thread -> SUBSET {"AND", "OR", "CLEAR"}]
  BY DEF EvInv, EventTypeOK
<1>5. r.set \in SUBSET Bit /\ r.option \in SUBSET {"AND", "OR", "CLEAR"}
  BY EventAssumption
<1>6. EventTypeOK' /\ event_set'[t] = r.set /\ event_info'[t] = r.option
      /\ \A x \in Thread \ {t} : event_set'[x] = event_set[x] /\ event_info'[x] = event_info[x]
  BY <1>4, <1>5 DEF EventTypeOK
<1>7. Gone(Ev)'
  BY <1>1, <1>2, EventAssumption DEF EvInv, Gone
<1>8. NobodyMissesFlags'
  <2> SUFFICES ASSUME NEW d \in Ev, NEW x \in Range(waitq'[d])
               PROVE  ~Satisfied(event_set'[x], event_info'[x], set[d])
    BY DEF NobodyMissesFlags, Satisfied
  <2>1. CASE x = t
    <3>1. d = e
      <4>1. ASSUME d # e PROVE FALSE
        <5>1. d \in Obj \ {e}
          BY <4>1, EventAssumption
        <5>2. t \in Range(waitq[d])
          BY <1>2, <2>1, <5>1
        <5>3. stat[t] = "SUSPEND"
          BY <5>1, <5>2, CoreView
        <5> QED BY <1>2, <5>3
      <4> QED BY <4>1
    <3> QED BY <1>6, <2>1, <3>1
  <2>2. CASE x # t
    <3>1. x \in Range(waitq[d]) /\ x \in Thread
      <4>1. d \in Obj /\ x \in Range(waitq[d])
        BY <1>2, <2>2, EventAssumption
      <4> QED BY <4>1, CoreView
    <3>2. ~Satisfied(event_set[x], event_info[x], set[d])
      BY <3>1 DEF EvInv, NobodyMissesFlags
    <3> QED BY <1>6, <2>2, <3>1, <3>2
  <2> QED BY <2>1, <2>2
<1> QED BY <1>2, <1>3, <1>6, <1>7, <1>8 DEF EvDoes, EvInv

(* What rt_event_send leaves in the event and in the threads. *)
LEMMA SendSetStep ==
  ASSUME CoreInv, CoreInv', EvInv, NEW e \in Ev, NEW s \in SUBSET Bit, SendSet(e, s),
         \A x \in Obj : Range(waitq'[x]) = Range(waitq[x]) \ Range(Walk(e, s).woken)
  PROVE  EvInv'
<1> USE DEF SendSet
<1>1. PICK w : w = Walk(e, s)
  OBVIOUS
<1>2. PICK q : q = waitq[e]
  OBVIOUS
<1>3. e \in Obj /\ q \in Seq(Thread) /\ IsInjective(q)
  BY <1>2, EventAssumption, CoreView DEF KernelInv, ListsConsistent
<1>4. Served(q, Len(q), w)
  BY <1>1, <1>2, <1>3, WalkProperties DEF EvInv
<1>5. /\ w.flags \in SUBSET Bit /\ w.given \in [Thread -> SUBSET Bit]
      /\ \A t \in Thread \ Range(w.woken) : w.given[t] = event_set[t]
      /\ \A t \in Range(q) \ Range(w.woken) : ~Satisfied(event_set[t], event_info[t], w.flags)
  <2>1. Range(q) = {q[j] : j \in 1 .. Len(q)}
    BY <1>3 DEF Range
  <2> QED BY <1>4, <2>1 DEF Served
<1>6. set \in [Ev -> SUBSET Bit] /\ event_set \in [Thread -> SUBSET Bit] /\ event_info \in [Thread -> SUBSET {"AND", "OR", "CLEAR"}]
  BY DEF EvInv, EventTypeOK
<1>7. /\ set' = [set EXCEPT ![e] = w.flags] /\ event_set' = w.given
      /\ event_info' = [t \in Thread |-> IF t \in Range(w.woken) THEN {} ELSE event_info[t]]
      /\ UNCHANGED exists
  BY <1>1
<1>8. EventTypeOK'
  BY <1>5, <1>6, <1>7 DEF EventTypeOK
<1>9. \A d \in Ev : Range(waitq'[d]) = Range(waitq[d]) \ Range(w.woken)
  BY <1>1, EventAssumption
<1>10. ASSUME NEW d \in Ev, NEW x \in Range(waitq'[d])
       PROVE  /\ event_set'[x] = event_set[x] /\ event_info'[x] = event_info[x]
              /\ set'[d] \subseteq set[d] \/ ~Satisfied(event_set[x], event_info[x], set'[d])
  <2>1. x \in Range(waitq[d]) \ Range(w.woken) /\ x \in Thread
    BY <1>9, CoreView, EventAssumption
  <2>2. event_set'[x] = event_set[x] /\ event_info'[x] = event_info[x]
    BY <1>5, <1>7, <2>1
  <2>3. CASE d = e
    BY <1>2, <1>5, <1>6, <1>7, <2>1, <2>2, <2>3
  <2>4. CASE d # e
    BY <1>6, <1>7, <2>2, <2>4
  <2> QED BY <2>3, <2>4
<1> QED BY ZenonT(60), <1>7, <1>8, <1>9, <1>10, EvFrame

(* The threads a walk wakes wait on the event.                             *)
LEMMA WalkWakes ==
  ASSUME CoreInv, EvInv, NEW e \in Ev, NEW s \in SUBSET Bit
  PROVE  /\ Walk(e, s).woken \in Seq(Thread) /\ IsInjective(Walk(e, s).woken)
         /\ Range(Walk(e, s).woken) \subseteq Range(waitq[e])
         /\ \A x \in Range(Walk(e, s).woken) : call[x] = e
<1>1. PICK w : w = Walk(e, s)
  OBVIOUS
<1>2. PICK q : q = waitq[e]
  OBVIOUS
<1>3. e \in Obj /\ q \in Seq(Thread) /\ IsInjective(q)
  BY <1>2, EventAssumption, CoreView DEF KernelInv, ListsConsistent
<1>4. Served(q, Len(q), w)
  BY <1>1, <1>2, <1>3, WalkProperties DEF EvInv
<1>5. Range(q) = {q[j] : j \in 1 .. Len(q)}
  BY <1>3 DEF Range
<1>6. w.woken \in Seq(Thread) /\ IsInjective(w.woken) /\ Range(w.woken) \subseteq Range(q)
  BY <1>4, <1>5 DEF Served
<1>7. \A x \in Range(q) : call[x] = e
  BY <1>2, <1>3, CoreView
<1> QED BY <1>1, <1>2, <1>6, <1>7

LEMMA EventSendStep ==
  ASSUME CoreInv, EvInv, NEW t \in Thread \ {Idle}, NEW e \in Ev, NEW s \in SUBSET Bit, EventSend(t, e, s)
  PROVE  EvDoes(e) /\ Range(waitq'[e]) = Range(waitq[e]) \ Range(Walk(e, s).woken)
<1> USE DEF EventSend, InUser, Running, Goto
<1>0. /\ call \in [Thread -> Call] /\ "none" \in Call /\ call[t] = "none" /\ e \in Obj
      /\ call' = [call EXCEPT ![t] = "none"] /\ KernelInv /\ due = {}
  BY CoreView, EventAssumption DEF CoreInv, WaitInv, PlaceOK, Call
<1>1. PICK woken : woken = Walk(e, s).woken
  OBVIOUS
<1>2. /\ woken \in Seq(Thread) /\ IsInjective(woken) /\ Range(woken) \subseteq Range(waitq[e])
      /\ \A x \in Range(woken) : call[x] = e
  BY <1>1, WalkWakes
<1>3. WakeEach(woken) /\ UNCHANGED <<defunct, prio, err, slice, arg, current, nest, due, lag>>
      /\ pc' = [pc EXCEPT ![t] = IF woken # <<>> THEN "sched" ELSE "run"]
  BY <1>1 DEF SendSet
<1>4. /\ CoreInv' /\ Steps(t, Range(woken)) /\ pc'[t] \in {"sched", "run"} /\ call'[t] = "none"
      /\ \A x \in Obj : Range(waitq'[x]) = Range(waitq[x]) \ Range(woken)
  <2>1. CASE woken # <<>>
    <3>1. Goes(t, "sched", "none")
      BY <1>0, <1>3, <2>1 DEF Goes
    <3>2. err' \in [Thread -> Err] /\ \A x \in Thread \ Range(woken) : UNCHANGED err[x]
      BY <1>3, CoreView
    <3> HIDE DEF EventSend, InUser, Running, Goto
    <3>3. e \in Obj /\ due = {} /\ WakeEach(woken)
          /\ UNCHANGED <<defunct, prio, slice, arg, current, nest, due, lag>>
      BY <1>0, <1>3
    <3>6. OnLists(Range(woken))
      BY <1>0, <1>2 DEF OnLists
    <3>4. CoreInv' /\ Steps(t, Range(woken)) /\ \A x \in Obj : Range(waitq'[x]) = Range(waitq[x]) \ Range(woken)
      BY <1>2, <3>1, <3>2, <3>3, <3>6, WakeEachAct
    <3>5. pc'[t] = "sched" /\ call'[t] = "none"
      BY <3>1, GoesTyped
    <3> QED BY <3>4, <3>5
  <2>2. CASE woken = <<>>
    <3>1. Goes(t, "run", "none")
      BY <1>0, <1>3, <2>2 DEF Goes
    <3>2. UNCHANGED <<queueVars, threadVars>>
      BY <1>0, <1>3, <2>2, WakeNone DEF queueVars, threadVars
    <3>3. Range(woken) = {}
      BY <2>2 DEF Range
    <3>4. CoreInv' /\ Steps(t, {})
      BY <1>3, <3>1, <3>2, MoveAct
    <3> QED BY <3>1, <3>3, <3>4, GoesTyped DEF Steps
  <2> QED BY <2>1, <2>2
<1>5. EvInv'
  BY <1>1, <1>4, SendSetStep
<1>6. \A o \in Obj \ {e} : Apart(o)
  <2> SUFFICES ASSUME NEW o \in Obj \ {e} PROVE Apart(o)
    OBVIOUS
  <2>1. call[t] # o /\ ~InWait(t, o)'
    BY <1>0, <1>4, CoreView DEF InWait
  <2> QED BY <1>2, <1>4, <2>1, ApartSteps
<1> QED BY <1>0, <1>1, <1>4, <1>5, <1>6 DEF EvDoes

LEMMA IsrEventSendStep ==
  ASSUME CoreInv, EvInv, Guarded, NEW e \in Ev, NEW s \in SUBSET Bit, IsrEventSend(e, s)
  PROVE  EvDoes(e) /\ Range(waitq'[e]) = Range(waitq[e]) \ Range(Walk(e, s).woken)
<1> USE DEF IsrEventSend, IrqEnabled, IsrSchedule
<1>1. PICK woken : woken = Walk(e, s).woken
  OBVIOUS
<1>2. /\ woken \in Seq(Thread) /\ IsInjective(woken) /\ Range(woken) \subseteq Range(waitq[e])
      /\ (\A x \in Range(woken) : call[x] = e) /\ e \in Obj /\ KernelInv /\ due = {}
  BY <1>1, WalkWakes, EventAssumption, CoreView
<1>3. WakeEach(woken) /\ UNCHANGED <<defunct, prio, err, slice, callVars, nest, due>>
  BY <1>1 DEF SendSet
<1>4. /\ CoreInv' /\ (\A o \in Obj \ {e} : Apart(o))
      /\ \A x \in Obj : Range(waitq'[x]) = Range(waitq[x]) \ Range(woken)
  <2>1. CASE woken # <<>>
    <3>1. DoSchedule /\ \A x \in Thread : Flushing(x) => call[x] # e
      BY <1>1, <2>1 DEF Flushing
    <3>2. /\ CoreInv' /\ Steps(current, Range(woken))
          /\ \A x \in Obj : Range(waitq'[x]) = Range(waitq[x]) \ Range(woken)
      BY <1>2, <1>3, <3>1, WakeEachIsr
    <3>3. ASSUME NEW o \in Obj \ {e} PROVE Apart(o)
      <4>1. PICK t \in Thread : t = current
        BY CoreView
      <4>2. UNCHANGED <<pc[t], call[t]>>
        BY <1>3 DEF callVars
      <4> QED BY <1>2, <3>2, <4>1, <4>2, ApartSteps
    <3> QED BY <3>2, <3>3
  <2>2. CASE woken = <<>>
    <3>1. UNCHANGED kernelVars
      BY <1>1, <1>2, <1>3, <2>2, WakeNone DEF kernelVars, queueVars, threadVars, callVars
    <3>2. Range(woken) = {} /\ UNCHANGED waitq
      BY <2>2, <3>1 DEF Range, kernelVars, queueVars
    <3> QED BY <3>1, <3>2, SameAct, ApartSame
  <2> QED BY <2>1, <2>2
<1>5. EvInv'
  BY <1>1, <1>4, SendSetStep
<1> QED BY <1>1, <1>2, <1>4, <1>5 DEF EvDoes

(* All waiting threads are woken with an error. *)
LEMMA EventResetStep ==
  ASSUME CoreInv, EvInv, NEW t \in Thread \ {Idle}, NEW e \in Ev, EventReset(t, e)
  PROVE  EvDoes(e) /\ Range(waitq'[e]) = {}
<1> USE DEF EventReset, InUser, Running, Goto, WakeAllWithError
<1>0. /\ call \in [Thread -> Call] /\ "none" \in Call /\ call[t] = "none" /\ e \in Obj
      /\ call' = [call EXCEPT ![t] = "none"] /\ due = {}
  BY CoreView, EventAssumption DEF CoreInv, WaitInv, PlaceOK, Call
<1>1. PICK woken : woken = waitq[e]
  OBVIOUS
<1>2. /\ woken \in Seq(Thread) /\ IsInjective(woken) /\ Range(woken) \subseteq Range(waitq[e])
      /\ \A x \in Range(woken) : call[x] = e
  BY <1>0, <1>1, CoreView DEF KernelInv, ListsConsistent
<1>3. Goes(t, "sched", "none")
  BY <1>0 DEF Goes
<1>4. WakeEach(woken) /\ err' = [x \in Thread |-> IF x \in Range(woken) THEN "ERROR" ELSE err[x]]
  BY <1>1
<1>5. err' \in [Thread -> Err] /\ \A x \in Thread \ Range(woken) : UNCHANGED err[x]
  BY <1>4, CoreView DEF Err
<1>6. /\ CoreInv' /\ Steps(t, Range(woken))
      /\ \A x \in Obj : Range(waitq'[x]) = Range(waitq[x]) \ Range(woken)
  <2>1. e \in Obj /\ due = {} /\ WakeEach(woken)
        /\ UNCHANGED <<defunct, prio, slice, arg, current, nest, due, lag>>
    BY <1>0, <1>4
  <2> HIDE DEF EventReset, InUser, Running, Goto, WakeAllWithError
  <2>2. OnLists(Range(woken))
    BY <1>0, <1>2 DEF OnLists
  <2> QED BY <1>2, <1>3, <1>5, <2>1, <2>2, WakeEachAct
<1>7. \A o \in Obj \ {e} : Apart(o)
  <2> SUFFICES ASSUME NEW o \in Obj \ {e} PROVE Apart(o)
    OBVIOUS
  <2>1. call[t] # o /\ ~InWait(t, o)'
    BY <1>0, <1>3, GoesTyped, CoreView DEF InWait
  <2> QED BY <1>2, <1>6, <2>1, ApartSteps
<1>8. EventTypeOK' /\ \A d \in Ev : set'[d] \subseteq set[d]
  BY DEF EvInv, EventTypeOK
<1>9. \A d \in Ev : Range(waitq'[d]) \subseteq Range(waitq[d])
  BY <1>6, EventAssumption
<1>10. EvInv'
  BY <1>6, <1>8, <1>9, EvFrame
<1>11. Range(waitq'[e]) = {}
  BY <1>0, <1>1, <1>6
<1> QED BY <1>6, <1>7, <1>10, <1>11 DEF EvDoes

LEMMA EventEndStep ==
  ASSUME CoreInv, EvInv, exists \in [Obj -> BOOLEAN], NEW t \in Thread, NEW e \in Ev, call[t] = e,
         FlushEnd(t), UNCHANGED eventVars
  PROVE  EvDoes(e)
<1> USE DEF FlushEnd, At, Running, Goto, threadVars, eventVars
<1>1. CoreInv' /\ UNCHANGED waitq
  BY FlushEndAct
<1>2. /\ pc'[t] = "run" /\ \A x \in Thread \ {t} : UNCHANGED <<pc[x], call[x]>>
  BY CoreView
<1>3. Steps(t, {})
  BY <1>1, <1>2, CoreView DEF Steps
<1>4. \A o \in Obj \ {e} : Apart(o)
  BY <1>2, <1>3, ApartSteps DEF InWait
<1>5. EventTypeOK'
  BY DEF EvInv, EventTypeOK
<1>6. \A d \in Ev : exists'[d] # exists[d] => waitq[d] = <<>>
  BY EventAssumption
<1> QED BY <1>1, <1>4, <1>5, <1>6, EvFrame DEF EvDoes

LEMMA EventDetachStep ==
  ASSUME CoreInv, EvInv, Guarded, NEW e \in Ev, EventDetach(Main, e)
  PROVE  EvDoes(e)
<1> USE DEF EventDetach, eventVars
<1>0. Main \in Thread \ {Idle} /\ e \in Obj
  BY KernelAssumption, EventAssumption DEF Prio
<1>1. /\ CoreInv' /\ UNCHANGED <<waitq, exists>> /\ Steps(Main, {})
      /\ call[Main] = "none" /\ pc'[Main] = "flush"
  <2>1. FlushAt(e)
    BY DEF FlushAt
  <2> QED BY <1>0, <2>1, DetachAct
<1>4. \A o \in Obj \ {e} : Apart(o)
  <2> SUFFICES ASSUME NEW o \in Obj \ {e} PROVE Apart(o)
    OBVIOUS
  <2>1. call[Main] # o /\ ~InWait(Main, o)'
    BY <1>1, CoreView DEF InWait
  <2> QED BY <1>0, <1>1, <2>1, ApartSteps
<1>5. EventTypeOK'
  BY DEF EvInv, EventTypeOK
<1> QED BY <1>1, <1>4, <1>5, EvFrame DEF EvDoes

LEMMA EventInitStep ==
  ASSUME CoreInv, EvInv, exists \in [Obj -> BOOLEAN], NEW e \in Ev, EventInit(Main, e)
  PROVE  EvDoes(e)
<1> USE DEF EventInit
<1>1. e \in Obj /\ waitq[e] = <<>> /\ Main \in Thread
  BY EventAssumption, KernelAssumption DEF EvInv, Gone, ObjectInit
<1>2. /\ CoreInv' /\ UNCHANGED kernelVars
      /\ \A x \in Obj \ {e} : exists'[x] = exists[x]
  BY <1>1, InitAct
<1>3. \A o \in Obj : Apart(o)
  BY <1>2, ApartSame
<1>4. UNCHANGED waitq
  BY <1>2 DEF kernelVars, queueVars
<1>5. EventTypeOK' /\ \A d \in Ev : set'[d] \subseteq set[d]
  BY DEF EvInv, EventTypeOK
<1>6. \A d \in Ev : exists'[d] # exists[d] => waitq[d] = <<>>
  BY <1>1, <1>2, EventAssumption
<1> QED BY <1>2, <1>3, <1>4, <1>5, <1>6, EvFrame DEF EvDoes

(* All that threads and interrupt handlers do with events. *)
LEMMA EventStep ==
  ASSUME CoreInv, EvInv, Guarded, exists \in [Obj -> BOOLEAN], EventsNext
  PROVE  CoreInv' /\ EvInv' /\ (\A o \in Obj \ Ev : Apart(o)) /\ exists' \in [Obj -> BOOLEAN]
         /\ \A o \in Obj \ Ev : exists'[o] = exists[o]
<1>1. CASE \E t \in Thread : InEventCall(t)
  <2>1. PICK t \in Thread : InEventCall(t)
    BY <1>1
  <2>2. PICK e \in Ev : call[t] = e
    BY <2>1 DEF InEventCall, EventReturn
  <2>4. EvDoes(e)
    BY <2>1, <2>2, EventReturnStep, EventEndStep DEF InEventCall
  <2>3. UNCHANGED exists \/ \E d \in Ev : exists' = [exists EXCEPT ![d] = FALSE]
    BY <2>1 DEF InEventCall, EventReturn, FlushEnd
  <2> QED BY <2>3, <2>4, EventAssumption DEF EvDoes
<1>2. CASE \E t \in Thread \ {Idle} : EventCall(t)
  <2>1. PICK t \in Thread \ {Idle} : EventCall(t)
    BY <1>2
  <2>2. PICK e \in Ev : \/ \E r \in Request : \/ EventRecv(t, e, r)
                                              \/ \E n \in 0 .. MaxTime : EventWait(t, e, r, n)
                        \/ \E b \in Bit : EventSend(t, e, {b})
                        \/ EventReset(t, e)
    BY <2>1 DEF EventCall
  <2>3. EvDoes(e)
    BY <2>2, EventRecvStep, EventWaitStep, EventSendStep, EventResetStep
  <2>4. UNCHANGED exists
    BY <2>2 DEF EventRecv, EventWait, EventSend, EventReset, SendSet
  <2> QED BY <2>3, <2>4 DEF EvDoes
<1>3. CASE \E e \in Ev : EventInit(Main, e) \/ EventDetach(Main, e)
  <2>1. \E e \in Ev : EvDoes(e)
    BY <1>3, EventInitStep, EventDetachStep
  <2>2. UNCHANGED exists \/ \E e \in Ev : exists' = [exists EXCEPT ![e] = TRUE]
    BY <1>3 DEF EventInit, EventDetach, ObjectInit, Detach
  <2> QED BY <2>1, <2>2, EventAssumption DEF EvDoes
<1>4. CASE \E e \in Ev, b \in Bit : IsrEventSend(e, {b})
  <2>1. \E e \in Ev : EvDoes(e)
    BY <1>4, IsrEventSendStep
  <2>2. UNCHANGED exists
    BY <1>4 DEF IsrEventSend, SendSet
  <2> QED BY <2>1, <2>2 DEF EvDoes
<1> QED BY <1>1, <1>2, <1>3, <1>4 DEF EventsNext

(***************************************************************************)
(* Calls with a timeout.                                                   *)
(***************************************************************************)
MbLists == Mb \cup {Tx[mb] : mb \in Mb}
DqLists == Dq \cup {PushList[q] : q \in Dq}

(* Only a call that waits has a timeout. *)
LeftOK ==
  /\ left \in [Thread -> Forever .. MaxTime]
  /\ \A x \in Thread : left[x] # 0 => \E o \in MbLists \cup Mq \cup DqLists : InWait(x, o)

LEMMA CallLists == MbLists \cup Mq \cup DqLists \subseteq Obj
BY MailboxAssumption, MessageQueueAssumption, DataQueueAssumption DEF MbLists, DqLists

(* A thread that does not wait has no time left. *)
LEMMA NoTimeLeft ==
  ASSUME LeftOK, NEW t \in Thread, pc[t] \notin {"sched", "blocked"}
  PROVE  left[t] = 0
BY DEF LeftOK, InWait

(* One thread is given another timeout, or none.                           *)
LEMMA LeftStep ==
  ASSUME LeftOK, NEW t \in Thread, \A x \in Thread \ {t} : UNCHANGED <<pc[x], call[x], left[x]>>,
         left' \in [Thread -> Forever .. MaxTime],
         \/ left'[t] = 0 \/ (\E o \in MbLists \cup Mq \cup DqLists : InWait(t, o)')
         \/ UNCHANGED <<pc[t], call[t], left[t]>>
  PROVE  LeftOK'
<1> SUFFICES ASSUME NEW x \in Thread, left'[x] # 0
             PROVE  \E o \in MbLists \cup Mq \cup DqLists : InWait(x, o)'
  BY DEF LeftOK
<1>1. CASE UNCHANGED <<pc[x], call[x], left[x]>>
  <2>1. PICK o \in MbLists \cup Mq \cup DqLists : InWait(x, o)
    BY <1>1 DEF LeftOK
  <2>2. InWait(x, o)'
    BY <1>1, <2>1 DEF InWait
  <2> QED BY <2>2
<1>2. CASE ~UNCHANGED <<pc[x], call[x], left[x]>>
  <2>1. x = t
    BY <1>2
  <2> QED BY <1>2, <2>1
<1> QED BY <1>1, <1>2

(***************************************************************************)
(* Data queues.                                                            *)
(***************************************************************************)

(* What is in the ring, and who waits to push. *)
RingOK(q) ==
  /\ ~exists[q] => waitq[q] = <<>> /\ waitq[PushList[q]] = <<>>
  /\ put_index[q] \in 0 .. MaxPuts /\ get_index[q] \in 0 .. put_index[q] /\ Length(q) <= DqSize
  /\ items[q] \in [0 .. DqSize - 1 -> Message \cup {Nothing}]
  /\ waiting_lwm[q] \in BOOLEAN
  /\ Range(waitq[PushList[q]]) \subseteq Pusher

(* Nobody is forgotten who waits to pop ...                                *)
PopsOK(q) == waitq[q] # <<>> => Length(q) <= Cardinality(OnTheWay(q))

(* ... or, if only one thread pushes, to push.                             *)
OnePusher == \A t, u \in Pusher : t = u

PushesOK(q) == waitq[PushList[q]] # <<>> => waiting_lwm[q] /\ Length(q) > Lwm

(* If pushes wait for ever, nothing but a pop ends their waiting: the mark *)
(* is set only while there is a thread to wake.                            *)
Patient == PushTimeouts \subseteq {Forever}

MarkOK(q) ==
  /\ \A x \in Range(waitq[PushList[q]]) : timer[x] = 0 /\ x \notin due
  /\ \A x \in Thread : InWait(x, PushList[q]) => left[x] = Forever
  /\ waiting_lwm[q] => waitq[PushList[q]] # <<>>

QueueOK(q) == RingOK(q) /\ PopsOK(q) /\ (OnePusher => PushesOK(q)) /\ (Patient => MarkOK(q))

DqShape ==
  /\ put_index \in [Dq -> Nat] /\ get_index \in [Dq -> Nat]
  /\ items \in [Dq -> [0 .. DqSize - 1 -> Message \cup {Nothing}]]
  /\ waiting_lwm \in [Dq -> BOOLEAN]

DqInv == DqShape /\ \A q \in Dq : QueueOK(q)

(* The two lists of a queue belong to it alone. *)
LEMMA QueueLists ==
  ASSUME NEW q \in Dq
  PROVE  /\ q \in Obj /\ PushList[q] \in Obj /\ PushList[q] # q /\ PushList[q] \notin Dq
         /\ q \in DqLists /\ PushList[q] \in DqLists
         /\ q \notin Ev \cup Cp \cup MbLists \cup Mq /\ PushList[q] \notin Ev \cup Cp \cup MbLists \cup Mq
         /\ q # "none" /\ PushList[q] # "none" /\ q \in Call /\ PushList[q] \in Call
         /\ \A r \in Dq \ {q} : PushList[r] # PushList[q] /\ r # PushList[q]
BY DataQueueAssumption, ObjectsAssumption, KernelAssumption DEF Call, DqLists, MbLists

LEMMA WayFinite ==
  ASSUME NEW o
  PROVE  IsFiniteSet(OnTheWay(o)) /\ Cardinality(OnTheWay(o)) \in Nat
<1>1. OnTheWay(o) \subseteq Thread /\ IsFiniteSet(Thread)
  BY CallAssumption DEF OnTheWay
<1> QED BY <1>1, FS_Subset, FS_CardinalityType

(* Who is on the way stays so while the kernel only goes on, or works on   *)
(* other objects.                                                          *)
LEMMA CalmWay ==
  ASSUME Calm, NEW o \in Obj
  PROVE  OnTheWay(o) \subseteq OnTheWay(o)'
<1> SUFFICES ASSUME NEW x \in OnTheWay(o) PROVE x \in OnTheWay(o)'
  OBVIOUS
<1>1. x \in Thread /\ InWait(x, o) /\ err[x] = "EOK" /\ x \notin Range(waitq[o]) /\ call[x] = o
  BY DEF OnTheWay, InWait
<1>2. InWait(x, o)' /\ UNCHANGED err[x] /\ x \notin Range(waitq'[o])
  BY <1>1 DEF Calm
<1> QED BY <1>1, <1>2 DEF OnTheWay, InWait

LEMMA ApartWay ==
  ASSUME NEW o, Apart(o)
  PROVE  OnTheWay(o) \subseteq OnTheWay(o)'
<1> SUFFICES ASSUME NEW x \in OnTheWay(o) PROVE x \in OnTheWay(o)'
  OBVIOUS
<1>1. x \in Thread /\ InWait(x, o) /\ err[x] = "EOK" /\ x \notin Range(waitq[o])
  BY DEF OnTheWay, InWait
<1>2. InWait(x, o)' /\ UNCHANGED err[x] /\ x \notin Range(waitq'[o])
  BY <1>1 DEF Apart
<1> QED BY <1>1, <1>2 DEF OnTheWay, InWait

(* Nothing is put into the queue or taken from it, and nobody starts to    *)
(* wait.                                                                   *)
LEMMA QueueFrame ==
  ASSUME CoreInv, CoreInv', NEW q \in Dq, QueueOK(q), exists[q] => exists'[q],
         put_index'[q] = put_index[q], get_index'[q] = get_index[q], items'[q] = items[q],
         waiting_lwm'[q] = waiting_lwm[q],
         \A o \in {q, PushList[q]} : Range(waitq'[o]) \subseteq Range(waitq[o]),
         OnTheWay(q) \subseteq OnTheWay(q)',
         Patient => /\ \A x \in Range(waitq[PushList[q]]) :
                         /\ timer[x] = 0 /\ x \notin due =>
                              x \in Range(waitq'[PushList[q]]) /\ timer'[x] = 0 /\ x \notin due'
                    /\ \A x \in Thread : InWait(x, PushList[q])' => InWait(x, PushList[q]) /\ left'[x] = left[x]
  PROVE  QueueOK(q)'
<1>1. waitq[q] = <<>> => waitq'[q] = <<>>
  BY StaysEmpty, QueueLists
<1>2. waitq[PushList[q]] = <<>> => waitq'[PushList[q]] = <<>>
  BY StaysEmpty, QueueLists
<1>3. RingOK(q)'
  BY <1>1, <1>2 DEF QueueOK, RingOK, Length
<1>4. PopsOK(q)'
  <2> SUFFICES ASSUME waitq'[q] # <<>> PROVE Length(q)' <= Cardinality(OnTheWay(q)')
    BY DEF PopsOK
  <2>1. Length(q) <= Cardinality(OnTheWay(q)) /\ Length(q)' = Length(q)
    BY <1>1 DEF QueueOK, PopsOK, Length
  <2>2. IsFiniteSet(OnTheWay(q)')
    <3>1. OnTheWay(q)' \subseteq Thread /\ IsFiniteSet(Thread)
      BY CallAssumption DEF OnTheWay
    <3> QED BY <3>1, FS_Subset
  <2>3. Cardinality(OnTheWay(q)) <= Cardinality(OnTheWay(q)')
    BY <2>2, FS_Subset
  <2>4. Cardinality(OnTheWay(q)') \in Nat /\ Cardinality(OnTheWay(q)) \in Nat /\ Length(q) \in Int
    BY <2>2, WayFinite, FS_CardinalityType DEF QueueOK, RingOK, Length
  <2> QED BY <2>1, <2>3, <2>4
<1>5. OnePusher => PushesOK(q)'
  BY <1>2 DEF QueueOK, PushesOK, Length
<1>6. Patient => MarkOK(q)'
  <2> SUFFICES ASSUME Patient PROVE MarkOK(q)'
    OBVIOUS
  <2>1. MarkOK(q)
    BY DEF QueueOK
  <2>2. Range(waitq'[PushList[q]]) = Range(waitq[PushList[q]])
        /\ \A x \in Range(waitq[PushList[q]]) : timer'[x] = 0 /\ x \notin due'
    BY <2>1 DEF MarkOK
  <2>3. waitq'[PushList[q]] = <<>> => waitq[PushList[q]] = <<>>
    <3>1. waitq[PushList[q]] \in Seq(Thread)
      BY QueueLists, CoreView
    <3>2. waitq'[PushList[q]] = <<>> => Range(waitq'[PushList[q]]) = {}
      BY DEF Range
    <3> QED BY <2>2, <3>1, <3>2, HeadRange
  <2> QED BY <2>1, <2>2, <2>3 DEF MarkOK
<1> QED BY <1>3, <1>4, <1>5, <1>6 DEF QueueOK

(* Steps on other objects. *)
LEMMA QueueApart ==
  ASSUME CoreInv, CoreInv', NEW q \in Dq, QueueOK(q), exists[q] => exists'[q],
         put_index'[q] = put_index[q], get_index'[q] = get_index[q], items'[q] = items[q],
         waiting_lwm'[q] = waiting_lwm[q],
         Apart(q), Apart(PushList[q]), \A x \in Thread : InWait(x, PushList[q]) => left'[x] = left[x]
  PROVE  QueueOK(q)'
<1>1. \A o \in {q, PushList[q]} : Range(waitq'[o]) \subseteq Range(waitq[o])
  BY DEF Apart
<1>2. OnTheWay(q) \subseteq OnTheWay(q)'
  BY ApartWay
<1>3. \A x \in Range(waitq[PushList[q]]) : timer[x] = 0 /\ x \notin due =>
        x \in Range(waitq'[PushList[q]]) /\ timer'[x] = 0 /\ x \notin due'
  BY DEF Apart
<1>4. \A x \in Thread : InWait(x, PushList[q])' => InWait(x, PushList[q]) /\ left'[x] = left[x]
  BY DEF Apart
<1> QED BY <1>1, <1>2, <1>3, <1>4, QueueFrame

(* A step of the thread t, or of an interrupt handler, on the queue q.     *)
LEMMA DqTouches ==
  ASSUME CoreInv, CoreInv', LeftOK, DqInv, DqShape', NEW q \in Dq, NEW t \in Thread,
         \A x \in Thread \ {t} : UNCHANGED <<pc[x], call[x], left[x]>>,
         left' \in [Thread -> Forever .. MaxTime],
         \/ left'[t] = 0 \/ (\E o \in {q, PushList[q]} : InWait(t, o)')
         \/ UNCHANGED <<pc[t], call[t], left[t]>>,
         \A r \in Dq \ {q} : InWait(t, PushList[r]) => left'[t] = left[t],
         \A o \in Obj \ {q, PushList[q]} : Apart(o),
         \A r \in Dq \ {q} : /\ put_index'[r] = put_index[r] /\ get_index'[r] = get_index[r]
                             /\ items'[r] = items[r] /\ waiting_lwm'[r] = waiting_lwm[r]
                             /\ exists[r] => exists'[r],
         QueueOK(q)'
  PROVE  LeftOK' /\ DqInv'
<1>1. \A x \in Thread \ {t}, o \in Obj : InWait(x, o)' <=> InWait(x, o)
  BY DEF InWait
<1>2. ASSUME NEW r \in Dq \ {q} PROVE QueueOK(r)'
  <2>1. Apart(r) /\ Apart(PushList[r])
    <3>1. r \in Obj \ {q, PushList[q]} /\ PushList[r] \in Obj \ {q, PushList[q]}
      BY QueueLists
    <3> QED BY <3>1
  <2>2. \A x \in Thread : InWait(x, PushList[r]) => left'[x] = left[x]
    OBVIOUS
  <2>3. QueueOK(r)
    BY DEF DqInv
  <2> QED BY <2>1, <2>2, <2>3, QueueApart
<1>3. LeftOK'
  <2>1. (\E o \in {q, PushList[q]} : InWait(t, o)') => \E o \in MbLists \cup Mq \cup DqLists : InWait(t, o)'
    BY DEF DqLists
  <2> QED BY <2>1, LeftStep
<1>4. \A r \in Dq : QueueOK(r)'
  BY <1>2
<1> QED BY <1>3, <1>4 DEF DqInv

DqDoes == CoreInv' /\ LeftOK' /\ DqInv' /\ \A o \in Obj \ DqLists : Apart(o)

(* A step between two others of a call: nobody starts to wait.             *)
LEMMA DqPauseStep ==
  ASSUME CoreInv, LeftOK, DqInv, CoreInv', NEW t \in Thread, call[t] \notin Obj \ DqLists,
         \A o \in Obj : InWait(t, o) => err[t] # "EOK", \A o \in Obj : ~InWait(t, o)',
         UNCHANGED <<waitq, threadVars, due, exists, dqVars>>,
         \A x \in Thread \ {t} : UNCHANGED <<pc[x], call[x], left[x]>>,
         left' \in [Thread -> Forever .. MaxTime], left'[t] = 0
  PROVE  DqDoes
<1> USE DEF threadVars, dqVars
<1>1. Steps(t, {})
  BY CoreView DEF Steps
<1>2. \A o \in Obj \ DqLists : Apart(o)
  BY <1>1, ApartSteps, EventAssumption, CompletionAssumption
<1>3. ASSUME NEW q \in Dq PROVE QueueOK(q)'
  <2>1. OnTheWay(q) \subseteq OnTheWay(q)'
    <3> SUFFICES ASSUME NEW x \in OnTheWay(q) PROVE x \in OnTheWay(q)'
      OBVIOUS
    <3>1. x \in Thread /\ InWait(x, q) /\ err[x] = "EOK" /\ x \notin Range(waitq[q])
      BY DEF OnTheWay, InWait
    <3>2. x # t
      BY <3>1, QueueLists
    <3> QED BY <3>1, <3>2 DEF OnTheWay, InWait
  <2>2. \A x \in Thread : InWait(x, PushList[q])' => InWait(x, PushList[q]) /\ left'[x] = left[x]
    BY QueueLists DEF InWait
  <2>3. QueueOK(q)
    BY DEF DqInv
  <2> QED BY <2>1, <2>2, <2>3, QueueFrame
<1>4. LeftOK'
  BY LeftStep
<1>5. DqShape'
  BY DEF DqInv, DqShape
<1> QED BY <1>2, <1>3, <1>4, <1>5 DEF DqDoes, DqInv

LEMMA DqEndStep ==
  ASSUME CoreInv, LeftOK, DqInv, NEW t \in Thread,
         DqPopReturn(t) \/ \E q \in Dq : (CallFails(t, q) \/ CallFails(t, PushList[q])) /\ UNCHANGED dqVars
  PROVE  DqDoes
<1> USE DEF DqPopReturn, CallFails, EndCall, At, Running, Goto
<1>1. PICK q \in Dq : call[t] \in {q, PushList[q]}
  OBVIOUS
<1>2. call[t] \notin Obj \ DqLists /\ "none" \in Call /\ call[t] # "none" /\ "none" \notin Obj
  BY <1>1, QueueLists, KernelAssumption DEF Call
<1>3. PICK l \in {"run", "sched"} : pc' = [pc EXCEPT ![t] = l]
  OBVIOUS
<1>4. pc[t] \in {"got", "blocked"} /\ pc[Idle] = "run" /\ call' = [call EXCEPT ![t] = "none"] /\ current = t
  BY CoreView
<1>5. Goes(t, l, "none")
  BY <1>2, <1>3, <1>4 DEF Goes
<1>6. /\ UNCHANGED <<queueVars, threadVars, arg, current, nest, due, lag, exists, dqVars>>
      /\ left' = [left EXCEPT ![t] = 0]
  OBVIOUS
<1>7. CoreInv' /\ UNCHANGED waitq
  BY <1>5, <1>6, MoveAct DEF queueVars
<1>8. \A o \in Obj : InWait(t, o) => err[t] # "EOK"
  BY DEF InWait
<1>9. call'[t] = "none" /\ \A x \in Thread \ {t} : UNCHANGED <<pc[x], call[x], left[x]>>
  BY <1>5, <1>6, GoesTyped DEF DqInv, LeftOK
<1>10. \A o \in Obj : ~InWait(t, o)'
  BY <1>2, <1>9 DEF InWait
<1>11. left' \in [Thread -> Forever .. MaxTime] /\ left'[t] = 0
  <2>1. left \in [Thread -> Forever .. MaxTime] /\ 0 \in Forever .. MaxTime
    BY KernelAssumption DEF DqInv, LeftOK, Forever
  <2> QED BY <1>6, <2>1
<1> QED BY <1>2, <1>6, <1>7, <1>8, <1>9, <1>10, <1>11, DqPauseStep

(* rt_data_queue_reset, from its first step to its last. *)
LEMMA DqResetStep ==
  ASSUME CoreInv, LeftOK, DqInv, Guarded, NEW t \in Thread, NEW q \in Dq,
         (t # Idle /\ DqReset(t, q)) \/ DqFlushPushers(t, q) \/ DqResetEnd(t, q)
  PROVE  DqDoes
<1> USE DEF DqReset, DqFlushPushers, DqResetEnd, InUser, At, Running, Goto, ipcCallVars, queueVars
<1>1. /\ KernelInv /\ pc \in [Thread -> Pc] /\ call \in [Thread -> Call] /\ pc[Idle] = "run" /\ "none" \in Call
      /\ q \in Obj /\ PushList[q] \in Obj /\ "none" \notin Obj
  BY CoreView, QueueLists DEF Call
<1>2. CoreInv'
  <2>1. CASE t # Idle /\ DqReset(t, q)
    BY <2>1, DqResetAct
  <2>2. CASE DqFlushPushers(t, q)
    BY <2>2, DqFlushPushersAct
  <2>3. CASE DqResetEnd(t, q)
    <3>1. Goes(t, "sched", "none")
      BY <1>1, <2>3 DEF Goes
    <3>2. nest > 0 /\ nest' = nest - 1
      BY <2>3 DEF CoreInv, FlushOK, Flushing
    <3>3. UNCHANGED <<queueVars, threadVars, arg, current, due, lag>>
      BY <2>3
    <3> QED BY <3>1, <3>2, <3>3, MoveAct
  <2> QED BY <2>1, <2>2, <2>3
<1>3. call[t] \notin Obj \ DqLists
  <2>1. call[t] \in {"none", q, PushList[q]}
    BY DEF CoreInv, WaitInv, PlaceOK
  <2> QED BY <1>1, <2>1, QueueLists, EventAssumption, CompletionAssumption
<1>4. \A o \in Obj : ~InWait(t, o)
  BY DEF InWait
<1>5. pc'[t] \in {"flush", "sched"} /\ (pc'[t] = "sched" => call'[t] = "none")
  BY <1>1
<1>6. \A o \in Obj : ~InWait(t, o)'
  BY <1>1, <1>5 DEF InWait
<1>7. left' \in [Thread -> Forever .. MaxTime] /\ left'[t] = 0
  <2>1. left[t] = 0
    BY NoTimeLeft
  <2> QED BY <2>1 DEF DqInv, LeftOK
<1>8. \A x \in Thread \ {t} : UNCHANGED <<pc[x], call[x], left[x]>>
  BY <1>1
<1> QED BY <1>2, <1>3, <1>4, <1>6, <1>7, <1>8, DqPauseStep

(* The thread WakeOne wakes. *)
Woken(o) == IF waitq[o] = <<>> THEN {} ELSE {Head(waitq[o])}

LEMMA WokenFacts ==
  ASSUME CoreInv, NEW o \in Obj, NEW u \in Woken(o)
  PROVE  /\ u \in Range(waitq[o]) /\ u \in Thread /\ InWait(u, o) /\ err[u] = "EOK" /\ call[u] = o
         /\ stat[u] = "SUSPEND" /\ waitq[o] # <<>>
<1>1. u \in Range(waitq[o]) /\ waitq[o] # <<>>
  BY CoreView, HeadRange DEF Woken
<1> QED BY <1>1, CoreView DEF InWait

(* The thread t wakes the first waiter of o, if there is one, and moves on. *)
LEMMA WakeOneAct ==
  ASSUME CoreInv, NEW t \in Thread, NEW l, NEW k, Goes(t, l, k), due = {},
         NEW o \in Obj, WakeOne(o),
         IF waitq[o] # <<>> THEN (UNCHANGED lag /\ l = "sched") \/ lag' = TRUE ELSE UNCHANGED lag,
         UNCHANGED <<defunct, prio, err, slice, arg, current, nest, due>>
  PROVE  /\ CoreInv' /\ Steps(t, Woken(o))
         /\ \A x \in Obj : Range(waitq'[x]) = Range(waitq[x]) \ Woken(o)
<1>1. CASE waitq[o] # <<>>
  <2>1. Wake(Head(waitq[o])) /\ Woken(o) = {Head(waitq[o])}
    BY <1>1 DEF WakeOne, Woken
  <2> QED BY <1>1, <2>1, WakeAct
<1>2. CASE waitq[o] = <<>>
  <2>1. UNCHANGED <<ready, mask, waitq, stat, timer>> /\ Woken(o) = {}
    BY <1>2 DEF WakeOne, Woken
  <2>2. UNCHANGED <<queueVars, threadVars, arg, current, due, lag, nest>>
    BY <1>2, <2>1 DEF queueVars, threadVars
  <2>3. CoreInv' /\ Steps(t, {})
    BY <2>2, MoveAct
  <2> QED BY <2>1, <2>3
<1> QED BY <1>1, <1>2

(* Where a thread goes that does not wait, it is in no wait.               *)
LEMMA GoesNowhere ==
  ASSUME CoreInv, NEW t \in Thread, NEW l, NEW k, Goes(t, l, k)
  PROVE  \A o \in Obj : ~InWait(t, o)'
BY GoesTyped, CoreView DEF InWait, Goes

(* One more, or one less, on the way. *)
LEMMA WayGrows ==
  ASSUME NEW q, NEW u \in OnTheWay(q)', u \notin OnTheWay(q), OnTheWay(q) \subseteq OnTheWay(q)'
  PROVE  Cardinality(OnTheWay(q)) + 1 <= Cardinality(OnTheWay(q)')
<1> DEFINE A == OnTheWay(q)
           B == OnTheWay(q)'
<1>1. IsFiniteSet(A) /\ Cardinality(A) \in Nat
  BY WayFinite
<1>2. IsFiniteSet(B)
  <2>1. B \subseteq Thread /\ IsFiniteSet(Thread)
    BY CallAssumption DEF OnTheWay
  <2> QED BY <2>1, FS_Subset
<1> HIDE DEF A, B
<1>3. A \cup {u} \subseteq B /\ u \notin A
  BY DEF A, B
<1>4. Cardinality(A \cup {u}) = Cardinality(A) + 1
  BY <1>1, <1>3, FS_AddElement
<1>5. Cardinality(A \cup {u}) <= Cardinality(B)
  BY <1>2, <1>3, FS_Subset
<1>6. Cardinality(A) + 1 <= Cardinality(B)
  BY <1>4, <1>5
<1> QED BY <1>6 DEF A, B

LEMMA WayShrinks ==
  ASSUME NEW q, NEW t, OnTheWay(q) \ {t} \subseteq OnTheWay(q)'
  PROVE  Cardinality(OnTheWay(q)) - 1 <= Cardinality(OnTheWay(q)')
<1> DEFINE A == OnTheWay(q)
           B == OnTheWay(q)'
<1>1. IsFiniteSet(A) /\ Cardinality(A) \in Nat
  BY WayFinite
<1>2. IsFiniteSet(B)
  <2>1. B \subseteq Thread /\ IsFiniteSet(Thread)
    BY CallAssumption DEF OnTheWay
  <2> QED BY <2>1, FS_Subset
<1> HIDE DEF A, B
<1>3. A \ {t} \subseteq B
  BY DEF A, B
<1>4. Cardinality(A \ {t}) \in Nat /\ Cardinality(A \ {t}) >= Cardinality(A) - 1
  <2>1. CASE t \in A
    <3>1. IsFiniteSet(A \ {t}) /\ Cardinality(A \ {t}) = Cardinality(A) - 1
      BY <1>1, <2>1, FS_RemoveElement
    <3>2. Cardinality(A \ {t}) \in Nat
      BY <3>1, FS_CardinalityType
    <3> QED BY <3>1, <3>2
  <2>2. CASE t \notin A
    <3>1. A \ {t} = A
      BY <2>2
    <3> QED BY <1>1, <3>1
  <2> QED BY <2>1, <2>2
<1>5. Cardinality(A \ {t}) <= Cardinality(B) /\ Cardinality(B) \in Nat
  BY <1>2, <1>3, FS_Subset, FS_CardinalityType
<1>6. Cardinality(A) - 1 <= Cardinality(B)
  BY <1>1, <1>4, <1>5
<1> QED BY <1>6 DEF A, B

(***************************************************************************)
(* rt_data_queue_push.                                                     *)
(***************************************************************************)
LEMMA PushKeeps ==
  ASSUME CoreInv, CoreInv', LeftOK, DqInv, NEW t \in Thread \ {Idle}, NEW q \in Dq, NEW m \in Sends[t], DqPush(t, q, m),
         Steps(t, Woken(q)), \A x \in Obj : Range(waitq'[x]) = Range(waitq[x]) \ Woken(q),
         \A x \in Thread \ {t} : UNCHANGED <<pc[x], call[x], left[x]>>,
         \A o \in Obj : ~InWait(t, o)'
  PROVE  QueueOK(q)' /\ DqShape'
<1> USE DEF DqPush
<1>0. /\ QueueOK(q) /\ RingOK(q) /\ call[t] \in {"none", PushList[q]}
      /\ put_index \in [Dq -> Nat] /\ get_index \in [Dq -> Nat]
      /\ items \in [Dq -> [0 .. DqSize - 1 -> Message \cup {Nothing}]]
      /\ waiting_lwm \in [Dq -> BOOLEAN] /\ DqSize \in Nat /\ Lwm \in Int /\ MaxPuts \in Nat
  BY DataQueueAssumption
     DEF DqInv, DqShape, QueueOK, Pushing, InUser, Retrying, At, Running, CoreInv, WaitInv, PlaceOK
<1>1. m \in Message
  BY CallAssumption
<1>2. PICK i : i = put_index[q] % DqSize
  OBVIOUS
<1>3. items'[q] = [items[q] EXCEPT ![i] = m] /\ \A r \in Dq \ {q} : items'[r] = items[r]
  BY <1>0, <1>2
<1>4. items' \in [Dq -> [0 .. DqSize - 1 -> Message \cup {Nothing}]]
  BY <1>0, <1>1, <1>2
<1>5. /\ put_index'[q] = put_index[q] + 1 /\ put_index[q] \in Nat /\ get_index[q] \in Nat
      /\ get_index' = get_index /\ waiting_lwm' = waiting_lwm /\ put_index' \in [Dq -> Nat]
      /\ Length(q)' = Length(q) + 1 /\ Length(q) \in Int /\ Length(q) <= DqSize - 1
      /\ exists' = exists
  <2>1. /\ put_index' = [put_index EXCEPT ![q] = put_index[q] + 1] /\ get_index' = get_index
        /\ waiting_lwm' = waiting_lwm /\ exists' = exists
    OBVIOUS
  <2>2. put_index[q] \in Nat /\ get_index[q] \in Nat
    BY <1>0
  <2>3. put_index' \in [Dq -> Nat] /\ put_index'[q] = put_index[q] + 1
    BY <1>0, <2>1, <2>2
  <2>4. Length(q)' = Length(q) + 1 /\ Length(q) \in Int
    BY <2>1, <2>2, <2>3 DEF Length
  <2>5. Length(q) <= DqSize /\ Length(q) # DqSize
    BY <1>0 DEF RingOK
  <2>6. Length(q) <= DqSize - 1
    BY <1>0, <2>4, <2>5
  <2> QED BY <2>1, <2>2, <2>3, <2>4, <2>6
<1>6. DqShape'
  BY <1>0, <1>4, <1>5 DEF DqShape
<1>7. \A u \in Woken(q) : u \notin Range(waitq[PushList[q]])
  <2> SUFFICES ASSUME NEW u \in Woken(q), u \in Range(waitq[PushList[q]]) PROVE FALSE
    OBVIOUS
  <2> QED BY WokenFacts, CoreView, QueueLists
<1>8. Range(waitq'[PushList[q]]) = Range(waitq[PushList[q]])
  <2>1. Range(waitq'[PushList[q]]) = Range(waitq[PushList[q]]) \ Woken(q)
    BY QueueLists
  <2> QED BY <1>7, <2>1
<1>9. waitq'[PushList[q]] = <<>> <=> waitq[PushList[q]] = <<>>
  <2>1. waitq[PushList[q]] \in Seq(Thread) /\ Range(<<>>) = {}
    BY QueueLists, CoreView DEF Range
  <2> QED BY <1>8, <2>1, HeadRange, QueueLists, StaysEmpty
<1>10. RingOK(q)'
  <2>1. put_index'[q] \in 0 .. MaxPuts /\ get_index'[q] \in 0 .. put_index'[q] /\ Length(q)' <= DqSize
    BY <1>0, <1>5 DEF RingOK
  <2> QED BY <1>0, <1>4, <1>5, <1>8, <2>1 DEF RingOK
<1>11. PopsOK(q)'
  <2> SUFFICES ASSUME waitq'[q] # <<>> PROVE Length(q)' <= Cardinality(OnTheWay(q)')
    BY DEF PopsOK
  <2>1. waitq[q] # <<>>
    BY QueueLists, StaysEmpty
  <2>2. PICK u : u \in Woken(q)
    BY <2>1 DEF Woken
  <2>3. /\ u \in Range(waitq[q]) /\ u \in Thread /\ InWait(u, q) /\ err[u] = "EOK" /\ u # t
        /\ u \notin Range(waitq'[q])
    BY <1>0, <2>2, WokenFacts, QueueLists
  <2>4. u \in OnTheWay(q)' /\ u \notin OnTheWay(q)
    BY <2>3 DEF OnTheWay, InWait
  <2>5. OnTheWay(q) \subseteq OnTheWay(q)'
    <3> SUFFICES ASSUME NEW x \in OnTheWay(q) PROVE x \in OnTheWay(q)'
      OBVIOUS
    <3>1. x \in Thread /\ call[x] = q /\ x \notin Range(waitq[q]) /\ pc[x] \in {"sched", "blocked"} /\ err[x] = "EOK"
      BY DEF OnTheWay
    <3>2. x # t /\ x \notin Woken(q)
      BY <1>0, <3>1, QueueLists, WokenFacts
    <3>3. x \notin Range(waitq'[q]) /\ UNCHANGED <<pc[x], call[x], err[x]>>
      BY <3>1, <3>2, QueueLists DEF Steps
    <3> QED BY <3>1, <3>3 DEF OnTheWay
  <2>6. Cardinality(OnTheWay(q)) + 1 <= Cardinality(OnTheWay(q)')
    BY <2>4, <2>5, WayGrows
  <2>7. Cardinality(OnTheWay(q)') \in Nat
    <3>1. OnTheWay(q)' \subseteq Thread /\ IsFiniteSet(Thread)
      BY CallAssumption DEF OnTheWay
    <3> QED BY <3>1, FS_Subset, FS_CardinalityType
  <2>8. Length(q) <= Cardinality(OnTheWay(q))
    BY <1>0, <2>1 DEF QueueOK, PopsOK
  <2> QED BY <1>5, <2>6, <2>7, <2>8, WayFinite
<1>12. OnePusher => PushesOK(q)'
  BY <1>0, <1>5, <1>9 DEF QueueOK, PushesOK
<1>13. Patient => MarkOK(q)'
  <2> SUFFICES ASSUME Patient PROVE MarkOK(q)'
    OBVIOUS
  <2>1. MarkOK(q)
    BY <1>0 DEF QueueOK
  <2>2. \A x \in Range(waitq[PushList[q]]) : x \in Thread \ Woken(q)
    BY <1>7, QueueLists, CoreView
  <2>3. \A x \in Range(waitq'[PushList[q]]) : timer'[x] = 0 /\ x \notin due'
    BY <1>8, <2>1, <2>2 DEF Steps, MarkOK
  <2>4. \A x \in Thread : InWait(x, PushList[q])' => left'[x] = Forever
    BY <2>1, QueueLists DEF MarkOK, InWait
  <2> QED BY <1>5, <1>9, <2>1, <2>3, <2>4 DEF MarkOK
<1> QED BY <1>6, <1>10, <1>11, <1>12, <1>13 DEF QueueOK

LEMMA DqPushStep ==
  ASSUME CoreInv, LeftOK, DqInv, NEW t \in Thread \ {Idle}, NEW q \in Dq, NEW m \in Sends[t], DqPush(t, q, m)
  PROVE  DqDoes
<1> USE DEF DqPush, EndCall, Pushing, InUser, Retrying, At, Running, Goto
<1>1. /\ call[t] \in {"none", PushList[q]} /\ "none" \in Call /\ call \in [Thread -> Call] /\ due = {}
      /\ q \in Obj
  BY CoreView, QueueLists DEF CoreInv, WaitInv, PlaceOK, Call
<1>2. PICK l : l = IF waitq[q] # <<>> THEN "sched" ELSE "run"
  OBVIOUS
<1>3. Goes(t, l, "none")
  BY <1>1, <1>2 DEF Goes
<1>4. UNCHANGED <<defunct, prio, err, slice, arg, current, nest, due, lag>> /\ WakeOne(q)
  OBVIOUS
<1>5. /\ CoreInv' /\ Steps(t, Woken(q))
      /\ \A x \in Obj : Range(waitq'[x]) = Range(waitq[x]) \ Woken(q)
  <2>1. IF waitq[q] # <<>> THEN (UNCHANGED lag /\ l = "sched") \/ lag' = TRUE ELSE UNCHANGED lag
    BY <1>2, <1>4
  <2> HIDE DEF DqPush, EndCall, Pushing, InUser, Retrying, At, Running, Goto
  <2> QED BY <1>1, <1>3, <1>4, <2>1, WakeOneAct
<1>6. left' = [left EXCEPT ![t] = 0]
  OBVIOUS
<1>7. left' \in [Thread -> Forever .. MaxTime] /\ left'[t] = 0
  <2>1. left \in [Thread -> Forever .. MaxTime] /\ 0 \in Forever .. MaxTime
    BY KernelAssumption DEF DqInv, LeftOK, Forever
  <2> QED BY <1>6, <2>1
<1>8. \A x \in Thread \ {t} : UNCHANGED <<pc[x], call[x], left[x]>>
  BY <1>3, <1>6, GoesTyped DEF DqInv, LeftOK
<1>9. \A o \in Obj : ~InWait(t, o)'
  BY <1>3, GoesNowhere
<1>10. QueueOK(q)' /\ DqShape'
  BY <1>5, <1>8, <1>9, PushKeeps
<1>11. \A o \in Obj \ {q, PushList[q]} : Apart(o)
  <2> SUFFICES ASSUME NEW o \in Obj \ {q, PushList[q]} PROVE Apart(o)
    OBVIOUS
  <2>1. (\A x \in Woken(q) : call[x] # o) /\ call[t] # o /\ ~InWait(t, o)'
    BY <1>1, <1>9, WokenFacts, CoreView
  <2> QED BY <1>5, <2>1, ApartSteps
<1>12. \A r \in Dq \ {q} : /\ put_index'[r] = put_index[r] /\ get_index'[r] = get_index[r]
                           /\ items'[r] = items[r] /\ waiting_lwm'[r] = waiting_lwm[r]
                           /\ exists[r] => exists'[r]
  BY DEF DqInv, DqShape
<1>13. \A r \in Dq \ {q} : ~InWait(t, PushList[r])
  BY <1>1, QueueLists DEF InWait
<1>14. LeftOK' /\ DqInv'
  BY <1>5, <1>7, <1>8, <1>10, <1>11, <1>12, <1>13, DqTouches
<1>15. \A o \in Obj \ DqLists : o \in Obj \ {q, PushList[q]}
  BY QueueLists, EventAssumption, CompletionAssumption
<1> QED BY <1>5, <1>11, <1>14, <1>15 DEF DqDoes

(***************************************************************************)
(* rt_data_queue_pop.                                                      *)
(***************************************************************************)
WokenByPop(q) == IF AtMark(q) THEN Woken(PushList[q]) ELSE {}

LEMMA TakeKeeps ==
  ASSUME CoreInv, CoreInv', LeftOK, DqInv, NEW t \in Thread, NEW q \in Dq, UNCHANGED <<exists, err>>,
         exists[q], Length(q) # 0, TakeItem(q), Steps(t, WokenByPop(q)),
         \A x \in Thread \ {t} : UNCHANGED <<pc[x], call[x], left[x]>>,
         UNCHANGED <<pc[t], call[t], left[t]>> \/ \A o \in Obj : ~InWait(t, o)'
  PROVE  QueueOK(q)' /\ DqShape'
<1> USE DEF TakeItem
<1>0. /\ QueueOK(q) /\ RingOK(q)
      /\ put_index \in [Dq -> Nat] /\ get_index \in [Dq -> Nat]
      /\ items \in [Dq -> [0 .. DqSize - 1 -> Message \cup {Nothing}]]
      /\ waiting_lwm \in [Dq -> BOOLEAN] /\ DqSize \in Nat /\ Lwm \in Int /\ MaxPuts \in Nat
  BY DataQueueAssumption DEF DqInv, DqShape, QueueOK
<1>2. PICK i : i = get_index[q] % DqSize
  OBVIOUS
<1>3. items' \in [Dq -> [0 .. DqSize - 1 -> Message \cup {Nothing}]]
  BY <1>0, <1>2
<1>4. waiting_lwm' \in [Dq -> BOOLEAN] /\ waiting_lwm'[q] = (waiting_lwm[q] /\ ~AtMark(q))
  <2>1. PICK b \in BOOLEAN : b = (waiting_lwm[q] /\ ~AtMark(q))
    OBVIOUS
  <2>2. waiting_lwm' = [waiting_lwm EXCEPT ![q] = b]
    BY <2>1
  <2> QED BY <1>0, <2>1, <2>2
<1>5. /\ get_index'[q] \in 0 .. put_index'[q] /\ put_index' = put_index /\ get_index' \in [Dq -> Nat]
      /\ Length(q)' = Length(q) - 1 /\ Length(q) \in Nat
  <2>1. get_index' = [get_index EXCEPT ![q] = get_index[q] + 1] /\ put_index' = put_index
    OBVIOUS
  <2>2. put_index[q] \in Nat /\ get_index[q] \in Nat /\ get_index[q] <= put_index[q]
    BY <1>0 DEF RingOK
  <2>3. get_index' \in [Dq -> Nat] /\ get_index'[q] = get_index[q] + 1
    BY <1>0, <2>1, <2>2
  <2>4. put_index[q] # get_index[q]
    BY <2>2 DEF Length
  <2>5. get_index'[q] \in 0 .. put_index'[q]
    BY <2>1, <2>2, <2>3, <2>4
  <2> QED BY <2>1, <2>2, <2>3, <2>5 DEF Length
<1>6. DqShape'
  BY <1>0, <1>3, <1>4, <1>5 DEF DqShape
<1> DEFINE k == PushList[q]
           w == WokenByPop(q)
<1>7. \A u \in w : /\ u \in Range(waitq[k]) /\ u \in Thread /\ call[u] = k
                   /\ u \notin Range(waitq[q]) /\ InWait(u, k)
  <2> SUFFICES ASSUME NEW u \in Woken(k)
               PROVE  /\ u \in Range(waitq[k]) /\ u \in Thread /\ call[u] = k
                      /\ u \notin Range(waitq[q]) /\ InWait(u, k)
    BY DEF WokenByPop
  <2>1. u \in Range(waitq[k]) /\ u \in Thread /\ call[u] = k /\ InWait(u, k)
    BY WokenFacts, QueueLists
  <2>2. u \notin Range(waitq[q])
    BY <2>1, QueueLists, CoreView
  <2> QED BY <2>1, <2>2
<1>8. /\ k \in Obj /\ q \in Obj /\ k # q /\ waitq[k] \in Seq(Thread) /\ waitq[q] \in Seq(Thread)
      /\ Range(waitq[k]) \subseteq Thread
  BY QueueLists, CoreView
<1> HIDE DEF k, w
<1>9. /\ Range(waitq'[k]) = Range(waitq[k]) \ w /\ Range(waitq'[q]) = Range(waitq[q])
      /\ \A x \in Thread \ w : UNCHANGED timer[x]
      /\ UNCHANGED due
  <2>1. Range(waitq'[k]) = Range(waitq[k]) \ w /\ Range(waitq'[q]) = Range(waitq[q]) \ w
    BY <1>8 DEF Steps, w
  <2>2. Range(waitq'[q]) = Range(waitq[q])
    BY <1>7, <2>1
  <2>3. \A x \in Thread \ w : UNCHANGED timer[x]
    BY DEF Steps, w
  <2> QED BY <2>1, <2>2, <2>3 DEF Steps
<1>10. (waitq[k] = <<>> => waitq'[k] = <<>>) /\ (waitq[q] = <<>> => waitq'[q] = <<>>)
  BY <1>8, <1>9, StaysEmpty
<1>11. RingOK(q)'
  <2>1. put_index'[q] \in 0 .. MaxPuts /\ Length(q)' <= DqSize
    BY <1>0, <1>5 DEF RingOK
  <2>2. Range(waitq'[k]) \subseteq Pusher
    BY <1>0, <1>9 DEF RingOK, k
  <2> QED BY <1>0, <1>3, <1>4, <1>5, <2>1, <2>2 DEF RingOK, k
<1>12. PopsOK(q)'
  <2> SUFFICES ASSUME waitq'[q] # <<>> PROVE Length(q)' <= Cardinality(OnTheWay(q)')
    BY DEF PopsOK
  <2>1. Length(q) <= Cardinality(OnTheWay(q))
    BY <1>0, <1>10 DEF QueueOK, PopsOK
  <2>2. OnTheWay(q) \ {t} \subseteq OnTheWay(q)'
    BY <1>9 DEF OnTheWay
  <2>3. Cardinality(OnTheWay(q)) - 1 <= Cardinality(OnTheWay(q)')
    BY <2>2, WayShrinks
  <2>4. Cardinality(OnTheWay(q)') \in Nat
    <3>1. OnTheWay(q)' \subseteq Thread /\ IsFiniteSet(Thread)
      BY CallAssumption DEF OnTheWay
    <3> QED BY <3>1, FS_Subset, FS_CardinalityType
  <2> QED BY <1>5, <2>1, <2>3, <2>4, WayFinite
<1>13. OnePusher => PushesOK(q)'
  <2> SUFFICES ASSUME OnePusher, waitq'[k] # <<>> PROVE waiting_lwm'[q] /\ Length(q)' > Lwm
    BY DEF PushesOK, k
  <2>1. waitq[k] # <<>> /\ waiting_lwm[q]
    BY <1>0, <1>10 DEF QueueOK, PushesOK, k
  <2>2. ~AtMark(q)
    <3> SUFFICES ASSUME AtMark(q) PROVE FALSE
      OBVIOUS
    <3>1. w = {Head(waitq[k])} /\ Head(waitq[k]) \in Range(waitq[k])
      BY <1>8, <2>1, HeadRange DEF w, WokenByPop, Woken, k
    <3>2. Range(waitq[k]) \subseteq Pusher
      BY <1>0 DEF RingOK, k
    <3>3. Range(waitq'[k]) = {}
      BY <1>9, <3>1, <3>2 DEF OnePusher
    <3>4. waitq' \in [Obj -> Seq(Thread)]
      BY DEF CoreInv, WaitInv, KernelInv, KernelTypeOK
    <3> QED BY <1>8, <2>1, <3>3, <3>4, HeadRange
  <2>3. Length(q) - 1 > Lwm
    BY <1>0, <1>5, <2>1, <2>2 DEF AtMark
  <2> QED BY <1>4, <1>5, <2>1, <2>2, <2>3
<1>14. Patient => MarkOK(q)'
  <2> SUFFICES ASSUME Patient PROVE MarkOK(q)'
    OBVIOUS
  <2>1. MarkOK(q)
    BY <1>0 DEF QueueOK
  <2>2. \A x \in Range(waitq'[k]) : timer'[x] = 0 /\ x \notin due'
    BY <1>8, <1>9, <2>1 DEF MarkOK, k
  <2>3. \A x \in Thread : InWait(x, k)' => left'[x] = Forever
    <3> SUFFICES ASSUME NEW x \in Thread, InWait(x, k)' PROVE left'[x] = Forever
      OBVIOUS
    <3>1. UNCHANGED <<pc[x], call[x], left[x]>>
      BY <1>8
    <3>2. InWait(x, k)
      BY <3>1 DEF InWait
    <3> QED BY <2>1, <3>1, <3>2 DEF MarkOK, k
  <2>4. ASSUME waiting_lwm'[q] PROVE waitq'[k] # <<>>
    <3>1. waiting_lwm[q] /\ ~AtMark(q)
      BY <1>4, <2>4
    <3>2. waitq[k] # <<>> /\ w = {}
      BY <2>1, <3>1 DEF MarkOK, k, w, WokenByPop
    <3>3. Range(waitq'[k]) # {}
      BY <1>8, <1>9, <3>2, HeadRange
    <3> QED BY <3>3 DEF Range
  <2> QED BY <2>2, <2>3, <2>4 DEF MarkOK, k
<1> QED BY <1>6, <1>11, <1>12, <1>13, <1>14 DEF QueueOK

(* What a pop leaves to the other objects. *)
LEMMA PopSpreads ==
  ASSUME CoreInv, CoreInv', LeftOK, DqInv, NEW t \in Thread, NEW q \in Dq, UNCHANGED exists,
         TakeItem(q), Steps(t, WokenByPop(q)), QueueOK(q)', DqShape',
         \A x \in Thread \ {t} : UNCHANGED <<pc[x], call[x], left[x]>>,
         left' \in [Thread -> Forever .. MaxTime],
         \/ UNCHANGED <<pc[t], call[t], left[t]>>
         \/ left'[t] = 0 /\ call[t] \in {"none", q} /\ \A o \in Obj : ~InWait(t, o)'
  PROVE  DqDoes
<1>1. \A o \in Obj \ {q, PushList[q]} : Apart(o)
  <2> SUFFICES ASSUME NEW o \in Obj \ {q, PushList[q]} PROVE Apart(o)
    OBVIOUS
  <2>1. \A x \in WokenByPop(q) : call[x] # o
    BY QueueLists, WokenFacts DEF WokenByPop
  <2>2. (call[t] # o /\ ~InWait(t, o)') \/ UNCHANGED <<pc[t], call[t]>>
    BY CoreView
  <2> QED BY <2>1, <2>2, ApartSteps
<1>2. \A r \in Dq \ {q} : /\ put_index'[r] = put_index[r] /\ get_index'[r] = get_index[r]
                          /\ items'[r] = items[r] /\ waiting_lwm'[r] = waiting_lwm[r]
                          /\ exists[r] => exists'[r]
  BY DEF DqInv, DqShape, TakeItem
<1>3. \A r \in Dq \ {q} : InWait(t, PushList[r]) => left'[t] = left[t]
  BY QueueLists DEF InWait
<1>4. \/ left'[t] = 0 \/ (\E o \in {q, PushList[q]} : InWait(t, o)')
      \/ UNCHANGED <<pc[t], call[t], left[t]>>
  OBVIOUS
<1>5. LeftOK' /\ DqInv'
  BY <1>1, <1>2, <1>3, <1>4, DqTouches
<1>6. \A o \in Obj \ DqLists : o \in Obj \ {q, PushList[q]}
  BY QueueLists, EventAssumption, CompletionAssumption
<1> QED BY <1>1, <1>5, <1>6 DEF DqDoes

LEMMA DqPopStep ==
  ASSUME CoreInv, LeftOK, DqInv, NEW t \in Thread \ {Idle}, NEW q \in Dq, DqPop(t, q)
  PROVE  DqDoes
<1> USE DEF DqPop, TakeItem, InUser, Retrying, At, Running, Goto
<1>1. /\ call[t] \in {"none", q} /\ q \in Call /\ call \in [Thread -> Call] /\ due = {}
      /\ q \in Obj /\ PushList[q] \in Obj
  BY CoreView, QueueLists DEF CoreInv, WaitInv, PlaceOK
<1>2. Goes(t, "got", q)
  BY <1>1 DEF Goes
<1>3. UNCHANGED <<defunct, prio, err, slice, arg, current, nest, due>> /\ lag' = (lag \/ WakesPusher(q))
  OBVIOUS
<1>4. CoreInv' /\ Steps(t, WokenByPop(q))
  <2>1. CASE AtMark(q)
    <3>1. WakeOne(PushList[q]) /\ WokenByPop(q) = Woken(PushList[q])
      BY <2>1 DEF WokenByPop
    <3>2. IF waitq[PushList[q]] # <<>> THEN lag' = TRUE ELSE UNCHANGED lag
      BY <1>3, <2>1, CoreView DEF WakesPusher, KernelInv, KernelTypeOK
    <3>3. WakeOne(PushList[q]) /\ UNCHANGED <<defunct, prio, err, slice, arg, current, nest, due>>
      BY <1>3, <3>1
    <3>4. PushList[q] \in Obj /\ due = {}
      BY <1>1
    <3>5. IF waitq[PushList[q]] # <<>> THEN (UNCHANGED lag /\ "got" = "sched") \/ lag' = TRUE
                                       ELSE UNCHANGED lag
      BY <3>2
    <3> HIDE DEF DqPop, TakeItem, InUser, Retrying, At, Running, Goto
    <3>6. CoreInv' /\ Steps(t, Woken(PushList[q]))
      BY <1>2, <3>3, <3>4, <3>5, WakeOneAct
    <3> QED BY <3>1, <3>6
  <2>2. CASE ~AtMark(q)
    <3>1. WokenByPop(q) = {}
      BY <2>2 DEF WokenByPop
    <3>2. UNCHANGED lag
      BY <1>3, <2>2, CoreView DEF WakesPusher, KernelInv, KernelTypeOK
    <3>3. UNCHANGED <<queueVars, threadVars>>
      BY <1>3, <2>2 DEF queueVars, threadVars
    <3> QED BY <1>2, <1>3, <3>1, <3>2, <3>3, MoveAct
  <2> QED BY <2>1, <2>2
<1>5. left' = [left EXCEPT ![t] = 0]
  OBVIOUS
<1>6. left' \in [Thread -> Forever .. MaxTime] /\ left'[t] = 0
  <2>1. left \in [Thread -> Forever .. MaxTime] /\ 0 \in Forever .. MaxTime
    BY KernelAssumption DEF DqInv, LeftOK, Forever
  <2> QED BY <1>5, <2>1
<1>7. \A x \in Thread \ {t} : UNCHANGED <<pc[x], call[x], left[x]>>
  BY <1>2, <1>5, GoesTyped DEF DqInv, LeftOK
<1>8. \A o \in Obj : ~InWait(t, o)'
  BY <1>2, GoesNowhere
<1>9. exists[q] /\ Length(q) # 0 /\ UNCHANGED <<exists, err>> /\ TakeItem(q)
  OBVIOUS
<1>10. QueueOK(q)' /\ DqShape'
  BY <1>4, <1>7, <1>8, <1>9, TakeKeeps
<1> QED BY <1>1, <1>4, <1>6, <1>7, <1>8, <1>9, <1>10, PopSpreads

(* ... called from an interrupt handler.                                   *)
LEMMA IsrDqPopStep ==
  ASSUME CoreInv, LeftOK, DqInv, Guarded, NEW q \in Dq, IsrDqPop(q)
  PROVE  DqDoes
<1> USE DEF IsrDqPop, IrqEnabled, IsrSchedule
<1>1. PICK t \in Thread : t = current
  BY CoreView
<1>2. exists[q] /\ Length(q) # 0 /\ UNCHANGED <<exists, err, left, pc, call>> /\ TakeItem(q)
  BY DEF callVars, ipcCallVars
<1>3. CoreInv' /\ Steps(t, WokenByPop(q))
  <2>1. CASE WakesPusher(q)
    <3>1. /\ waitq[PushList[q]] # <<>> /\ WokenByPop(q) = {Head(waitq[PushList[q]])}
          /\ Wake(Head(waitq[PushList[q]])) /\ DoSchedule
      BY <2>1 DEF WakesPusher, WokenByPop, Woken, TakeItem, WakeOne
    <3>2. \A x \in Thread : Flushing(x) => call[x] # PushList[q]
      <4> SUFFICES ASSUME NEW x \in Thread, Flushing(x), call[x] = PushList[q] PROVE FALSE
        OBVIOUS
      <4>1. FlushAt(PushList[q])
        BY DEF CoreInv, FlushPlace
      <4> QED BY <3>1, <4>1, DqPlace
    <3> QED BY <1>1, <3>1, <3>2, WakeIsr, QueueLists
  <2>2. CASE ~WakesPusher(q)
    <3>1. UNCHANGED kernelVars /\ WokenByPop(q) = {}
      BY <2>2 DEF WakesPusher, WokenByPop, Woken, TakeItem, WakeOne, kernelVars, queueVars, threadVars, callVars
    <3>2. Steps(t, {})
      BY <3>1, CoreView DEF Steps, kernelVars, queueVars, threadVars, callVars
    <3> QED BY <3>1, <3>2, SameAct
  <2> QED BY <2>1, <2>2
<1>4. (\A x \in Thread : UNCHANGED <<pc[x], call[x], left[x]>>) /\ left' \in [Thread -> Forever .. MaxTime]
  BY <1>2 DEF DqInv, LeftOK
<1>5. QueueOK(q)' /\ DqShape'
  BY <1>2, <1>3, <1>4, TakeKeeps
<1> QED BY <1>2, <1>3, <1>4, <1>5, PopSpreads

(***************************************************************************)
(* Waiting to pop, or to push.                                             *)
(***************************************************************************)
LEMMA DqPopWaitStep ==
  ASSUME CoreInv, LeftOK, DqInv, NEW t \in Thread \ {Idle}, NEW q \in Dq, NEW n \in Timeouts \cup {left[t]},
         DqPopWait(t, q, n)
  PROVE  DqDoes
<1> USE DEF DqPopWait, WaitFor, dqVars
<1>1. /\ call[t] \in {"none", q} /\ q \in Obj /\ PushList[q] \in Obj /\ pc[t] \in {"run", "blocked"}
      /\ MayBlock(t) \/ (At(t, "blocked") /\ call[t] \in Obj)
  BY QueueLists DEF MayBlock, InUser, Retrying, At, CoreInv, WaitInv, PlaceOK
<1>2. n \in Forever .. MaxTime /\ left \in [Thread -> Forever .. MaxTime]
  <2>1. left \in [Thread -> Forever .. MaxTime]
    BY DEF DqInv, LeftOK
  <2>2. left[t] \in Forever .. MaxTime
    BY <2>1
  <2>3. {Forever} \cup 1 .. MaxTime \subseteq Forever .. MaxTime
    BY KernelAssumption DEF Forever
  <2>4. n \in Forever .. MaxTime
    BY <2>2, <2>3, CallAssumption
  <2> QED BY <2>1, <2>4
<1>3. PICK m \in 0 .. MaxTime : m = (IF n = Forever THEN 0 ELSE n)
  BY <1>2, KernelAssumption DEF Forever
<1>4. Block(t, q, "FIFO", m)
  BY <1>3
<1>5. /\ CoreInv' /\ Range(waitq'[q]) = Range(waitq[q]) \cup {t}
      /\ \A x \in Obj \ {q} : waitq'[x] = waitq[x]
      /\ pc' = [pc EXCEPT ![t] = "sched"] /\ call' = [call EXCEPT ![t] = q]
  BY <1>1, <1>4, BlockAct
<1>6. \A o \in Obj \ {q} : Apart(o)
  BY <1>1, <1>4, CoreView, ApartBlock
<1>7. (\A x \in Thread \ {t} : UNCHANGED <<pc[x], call[x], left[x]>>) /\ InWait(t, q)' /\ ~InWait(t, PushList[q])'
  BY <1>2, <1>5, CoreView, QueueLists DEF InWait
<1>8. left' \in [Thread -> Forever .. MaxTime]
  BY <1>2
<1>9. exists[q] /\ Length(q) = 0 /\ UNCHANGED <<exists, put_index, get_index, items, waiting_lwm>>
  OBVIOUS
<1>10. QueueOK(q)'
  <2>1. RingOK(q) /\ QueueOK(q) /\ waitq'[PushList[q]] = waitq[PushList[q]]
    BY <1>1, <1>5, QueueLists DEF DqInv, QueueOK
  <2>2. RingOK(q)'
    BY <1>9, <2>1 DEF RingOK, Length
  <2>3. PopsOK(q)'
    <3>1. Cardinality(OnTheWay(q)') \in Nat
      <4>1. OnTheWay(q)' \subseteq Thread /\ IsFiniteSet(Thread)
        BY CallAssumption DEF OnTheWay
      <4> QED BY <4>1, FS_Subset, FS_CardinalityType
    <3>2. Length(q)' = 0
      BY <1>9 DEF Length
    <3> QED BY <3>1, <3>2 DEF PopsOK
  <2>4. OnePusher => PushesOK(q)'
    BY <1>9, <2>1 DEF QueueOK, PushesOK, Length
  <2>5. Patient => MarkOK(q)'
    <3> SUFFICES ASSUME Patient PROVE MarkOK(q)'
      OBVIOUS
    <3>1. MarkOK(q) /\ Apart(PushList[q])
      BY <1>1, <1>6, <2>1, QueueLists DEF QueueOK
    <3>2. \A x \in Range(waitq'[PushList[q]]) : timer'[x] = 0 /\ x \notin due'
      BY <2>1, <3>1 DEF MarkOK, Apart
    <3>3. \A x \in Thread : InWait(x, PushList[q])' => left'[x] = Forever
      BY <1>7, <3>1 DEF MarkOK, InWait
    <3> QED BY <1>9, <2>1, <3>1, <3>2, <3>3 DEF MarkOK
  <2> QED BY <2>2, <2>3, <2>4, <2>5 DEF QueueOK
<1>11. DqShape'
  BY <1>9 DEF DqInv, DqShape
<1>12. \A r \in Dq \ {q} : ~InWait(t, PushList[r])
  BY <1>1, QueueLists DEF InWait
<1>13. LeftOK' /\ DqInv'
  BY <1>5, <1>6, <1>7, <1>8, <1>9, <1>10, <1>11, <1>12, DqTouches
<1>14. \A o \in Obj \ DqLists : o \in Obj \ {q}
  BY QueueLists, EventAssumption, CompletionAssumption
<1> QED BY <1>5, <1>6, <1>13, <1>14 DEF DqDoes

LEMMA DqPushWaitStep ==
  ASSUME CoreInv, LeftOK, DqInv, NEW t \in Thread \ {Idle}, NEW q \in Dq, NEW m \in Sends[t],
         NEW n \in PushTimeouts \cup {left[t]}, DqPushWait(t, q, m, n)
  PROVE  DqDoes
<1> USE DEF DqPushWait, WaitFor
<1>0. PICK k : k = PushList[q]
  OBVIOUS
<1>1. /\ call[t] \in {"none", k} /\ q \in Obj /\ k \in Obj /\ k # q
      /\ MayBlock(t) \/ (At(t, "blocked") /\ call[t] \in Obj)
      /\ (pc[t] = "run" /\ left[t] = 0) \/ (InWait(t, k) /\ n = left[t])
  BY <1>0, QueueLists, NoTimeLeft DEF MayBlock, InUser, Retrying, At, CoreInv, WaitInv, PlaceOK, InWait
<1>2. n \in Forever .. MaxTime /\ left \in [Thread -> Forever .. MaxTime]
  <2>1. left \in [Thread -> Forever .. MaxTime]
    BY DEF DqInv, LeftOK
  <2>2. left[t] \in Forever .. MaxTime
    BY <2>1
  <2>3. {Forever} \cup 0 .. MaxTime \subseteq Forever .. MaxTime
    BY KernelAssumption DEF Forever
  <2>4. n \in Forever .. MaxTime
    BY <2>2, <2>3, DataQueueAssumption
  <2> QED BY <2>1, <2>4
<1>3. PICK j \in 0 .. MaxTime : j = (IF n = Forever THEN 0 ELSE n)
  BY <1>2, KernelAssumption DEF Forever
<1>4. Block(t, k, "FIFO", j)
  BY <1>0, <1>3
<1>5. /\ CoreInv' /\ Range(waitq'[k]) = Range(waitq[k]) \cup {t} /\ stat[t] = "READY"
      /\ \A x \in Obj \ {k} : waitq'[x] = waitq[x]
      /\ pc' = [pc EXCEPT ![t] = "sched"] /\ call' = [call EXCEPT ![t] = k]
      /\ timer' = [timer EXCEPT ![t] = j] /\ UNCHANGED due
  <2>1. t \in Thread /\ k \in Obj /\ (MayBlock(t) \/ (At(t, "blocked") /\ call[t] \in Obj))
    BY <1>1
  <2> HIDE DEF DqPushWait
  <2> QED BY SMTT(60), <2>1, <1>4, BlockAct
<1>6. \A o \in Obj \ {k} : Apart(o)
  BY <1>1, <1>4, CoreView, ApartBlock
<1>7. (\A x \in Thread \ {t} : UNCHANGED <<pc[x], call[x], left[x], timer[x]>>) /\ InWait(t, k)'
      /\ timer'[t] = j /\ left'[t] = n
  BY <1>2, <1>5, CoreView, QueueLists DEF InWait
<1>8. left' \in [Thread -> Forever .. MaxTime]
  BY <1>2
<1>9. /\ exists[q] /\ Length(q) = DqSize /\ UNCHANGED <<exists, put_index, get_index, items>>
      /\ waiting_lwm' = [waiting_lwm EXCEPT ![q] = TRUE] /\ t \in Pusher
  OBVIOUS
<1>10. DqShape' /\ waiting_lwm'[q] = TRUE /\ \A r \in Dq \ {q} : waiting_lwm'[r] = waiting_lwm[r]
  BY <1>9 DEF DqInv, DqShape
<1>11. QueueOK(q)'
  <2>1. RingOK(q) /\ QueueOK(q)
    BY DEF DqInv, QueueOK
  <2>2. RingOK(q)'
    <3>1. Range(waitq'[k]) \subseteq Pusher
      BY <1>0, <1>5, <1>9, <2>1 DEF RingOK
    <3> QED BY <1>0, <1>9, <1>10, <2>1, <3>1 DEF RingOK, Length
  <2>3. PopsOK(q)'
    <3>1. waitq'[q] = waitq[q]
      BY <1>1, <1>5
    <3>2. OnTheWay(q) \subseteq OnTheWay(q)'
      BY <1>1, <1>6, ApartWay
    <3>3. Cardinality(OnTheWay(q)) <= Cardinality(OnTheWay(q)') /\ Cardinality(OnTheWay(q)') \in Nat
      <4>1. OnTheWay(q)' \subseteq Thread /\ IsFiniteSet(Thread)
        BY CallAssumption DEF OnTheWay
      <4>2. IsFiniteSet(OnTheWay(q)')
        BY <4>1, FS_Subset
      <4> QED BY <3>2, <4>2, FS_Subset, FS_CardinalityType
    <3>4. Length(q)' = Length(q) /\ Length(q) \in Int
      BY <1>9, DataQueueAssumption DEF Length
    <3>5. waitq[q] # <<>> => Length(q) <= Cardinality(OnTheWay(q))
      BY <2>1 DEF QueueOK, PopsOK
    <3>6. Cardinality(OnTheWay(q)) \in Nat
      BY WayFinite
    <3> QED BY <3>1, <3>3, <3>4, <3>5, <3>6 DEF PopsOK
  <2>4. PushesOK(q)'
    <3>1. Length(q)' > Lwm
      BY <1>9, DataQueueAssumption DEF Length
    <3> QED BY <1>10, <3>1 DEF PushesOK
  <2>5. Patient => MarkOK(q)'
    <3> SUFFICES ASSUME Patient PROVE MarkOK(q)'
      OBVIOUS
    <3>1. MarkOK(q) /\ n # 0
      BY <2>1 DEF QueueOK
    <3>2. n = Forever
      BY <1>0, <1>1, <3>1 DEF MarkOK, Patient
    <3>3. j = 0 /\ due = {}
      BY <1>3, <3>2, <1>1 DEF MayBlock, InUser, At, Running
    <3>4. \A x \in Range(waitq'[k]) : timer'[x] = 0 /\ x \notin due'
      <4> SUFFICES ASSUME NEW x \in Range(waitq'[k]), x # t PROVE timer'[x] = 0
        BY <1>5, <1>7, <3>3
      <4>1. x \in Range(waitq[k]) /\ x \in Thread
        BY <1>1, <1>5, CoreView
      <4> QED BY <1>0, <1>7, <3>1, <4>1 DEF MarkOK
    <3>5. \A x \in Thread : InWait(x, k)' => left'[x] = Forever
      BY <1>0, <1>7, <3>1, <3>2 DEF MarkOK, InWait
    <3>6. waitq'[k] # <<>>
      <4>1. Range(<<>>) = {}
        BY DEF Range
      <4> QED BY <1>5, <4>1
    <3> QED BY <1>0, <3>4, <3>5, <3>6 DEF MarkOK
  <2> QED BY <2>2, <2>3, <2>4, <2>5 DEF QueueOK
<1>12. \A r \in Dq \ {q} : ~InWait(t, PushList[r])
  BY <1>0, <1>1, QueueLists DEF InWait
<1>13. LeftOK' /\ DqInv'
  <2>1. \A o \in Obj \ {q, PushList[q]} : Apart(o)
    BY <1>0, <1>6
  <2>2. \E o \in {q, PushList[q]} : InWait(t, o)'
    BY <1>0, <1>7
  <2> QED BY ZenonT(60), <1>5, <1>7, <1>8, <1>9, <1>10, <1>11, <1>12, <2>1, <2>2, DqTouches
<1>14. \A o \in Obj \ DqLists : o \in Obj \ {k}
  BY <1>0, QueueLists, EventAssumption, CompletionAssumption
<1> QED BY <1>5, <1>6, <1>13, <1>14 DEF DqDoes

(* A push that does not wait leaves the mark; patient pushes do not.       *)
LEMMA DqPushFullStep ==
  ASSUME CoreInv, LeftOK, DqInv, NEW t \in Thread \ {Idle}, NEW q \in Dq, DqPushFull(t, q)
  PROVE  DqDoes
<1> USE DEF DqPushFull
<1>1. CoreInv' /\ \A o \in Obj : Apart(o)
  BY SameAct, ApartSame
<1>2. UNCHANGED <<waitq, pc, call, err, timer, due, left, exists, put_index, get_index, items>>
  BY DEF kernelVars, queueVars, threadVars, callVars, ipcCallVars
<1>3. DqShape' /\ waiting_lwm'[q] = TRUE /\ \A r \in Dq \ {q} : waiting_lwm'[r] = waiting_lwm[r]
  BY <1>2 DEF DqInv, DqShape
<1>4. ~Patient
  BY DEF Patient, Forever
<1>5. QueueOK(q)'
  <2>1. RingOK(q) /\ QueueOK(q) /\ Length(q) = DqSize
    BY DEF DqInv, QueueOK
  <2>2. RingOK(q)' /\ PopsOK(q)'
    BY <1>2, <1>3, <2>1 DEF QueueOK, RingOK, PopsOK, Length, OnTheWay
  <2>3. PushesOK(q)'
    <3>1. Length(q)' > Lwm
      BY <1>2, <2>1, DataQueueAssumption DEF Length
    <3> QED BY <1>3, <3>1 DEF PushesOK
  <2> QED BY <1>4, <2>2, <2>3 DEF QueueOK
<1>6. (\A x \in Thread : UNCHANGED <<pc[x], call[x], left[x]>>) /\ left' \in [Thread -> Forever .. MaxTime]
  BY <1>2 DEF DqInv, LeftOK
<1>7. LeftOK' /\ DqInv'
  BY <1>1, <1>2, <1>3, <1>5, <1>6, DqTouches
<1> QED BY <1>1, <1>7, EventAssumption, CompletionAssumption DEF DqDoes

LEMMA DqInitStep ==
  ASSUME CoreInv, LeftOK, DqInv, exists \in [Obj -> BOOLEAN], NEW q \in Dq, DqInit(Main, q)
  PROVE  DqDoes
<1> USE DEF DqInit, ipcCallVars
<1>1. /\ q \in Obj /\ PushList[q] \in Obj /\ Main \in Thread /\ RingOK(q) /\ QueueOK(q)
      /\ waitq[q] = <<>> /\ waitq[PushList[q]] = <<>>
  BY QueueLists, KernelAssumption DEF DqInv, QueueOK, RingOK, ObjectInit
<1>2. CoreInv' /\ UNCHANGED kernelVars /\ \A x \in Obj \ {q} : exists'[x] = exists[x]
  BY <1>1, InitAct
<1>3. \A o \in Obj : Apart(o)
  BY <1>2, ApartSame
<1>4. UNCHANGED <<waitq, pc, call, timer, due, left>>
  BY <1>2 DEF kernelVars, queueVars, threadVars, callVars
<1>5. PICK none : none = [i \in 0 .. DqSize - 1 |-> Nothing]
  OBVIOUS
<1>6. /\ put_index' = [put_index EXCEPT ![q] = 0] /\ get_index' = [get_index EXCEPT ![q] = 0]
      /\ items' = [items EXCEPT ![q] = none] /\ waiting_lwm' = [waiting_lwm EXCEPT ![q] = FALSE]
      /\ none \in [0 .. DqSize - 1 -> Message \cup {Nothing}]
  BY <1>5
<1>7. /\ DqShape' /\ put_index'[q] = 0 /\ get_index'[q] = 0 /\ items'[q] = none /\ waiting_lwm'[q] = FALSE
      /\ \A r \in Dq \ {q} : /\ put_index'[r] = put_index[r] /\ get_index'[r] = get_index[r]
                             /\ items'[r] = items[r] /\ waiting_lwm'[r] = waiting_lwm[r]
  BY <1>6 DEF DqInv, DqShape
<1>8. QueueOK(q)'
  <2>1. Length(q)' = 0 /\ MaxPuts \in Nat /\ DqSize \in Nat
    BY <1>7, DataQueueAssumption DEF Length
  <2>2. RingOK(q)'
    <3>1. 0 \in 0 .. MaxPuts /\ 0 \in 0 .. 0 /\ 0 <= DqSize
      BY <2>1
    <3>2. Range(waitq'[PushList[q]]) \subseteq Pusher /\ waitq'[q] = <<>> /\ waitq'[PushList[q]] = <<>>
      BY <1>1, <1>4 DEF RingOK
    <3>3. waiting_lwm'[q] \in BOOLEAN
      BY <1>7
    <3>4. put_index'[q] \in 0 .. MaxPuts /\ get_index'[q] \in 0 .. put_index'[q] /\ Length(q)' <= DqSize
      BY <1>7, <2>1, <3>1
    <3> QED BY <1>6, <1>7, <3>2, <3>3, <3>4 DEF RingOK
  <2>3. PopsOK(q)' /\ PushesOK(q)'
    BY <1>1, <1>4 DEF PopsOK, PushesOK
  <2>4. Patient => MarkOK(q)'
    BY <1>1, <1>4, <1>7 DEF QueueOK, MarkOK, InWait
  <2> QED BY <2>2, <2>3, <2>4 DEF QueueOK
<1>9. (\A x \in Thread : UNCHANGED <<pc[x], call[x], left[x]>>) /\ left' \in [Thread -> Forever .. MaxTime]
  BY <1>4 DEF DqInv, LeftOK
<1>10. \A r \in Dq \ {q} : exists[r] => exists'[r]
  BY <1>2, DataQueueAssumption
<1>11. LeftOK' /\ DqInv'
  BY ZenonT(60), <1>1, <1>2, <1>3, <1>7, <1>8, <1>9, <1>10, DqTouches
<1> QED BY <1>2, <1>3, <1>11, EventAssumption, CompletionAssumption DEF DqDoes

(* All that threads and interrupt handlers do with data queues. *)
LEMMA DqStep ==
  ASSUME CoreInv, LeftOK, DqInv, Guarded, exists \in [Obj -> BOOLEAN], DataQueueNext
  PROVE  DqDoes /\ exists' \in [Obj -> BOOLEAN] /\ \A o \in Obj \ Dq : exists'[o] = exists[o]
<1>1. CASE \E t \in Thread \ {Idle} : DqCall(t)
  <2>1. PICK t \in Thread \ {Idle}, q \in Dq :
          \/ \E m \in Sends[t] : \/ DqPush(t, q, m)
                                 \/ \E n \in PushTimeouts \cup {left[t]} : DqPushWait(t, q, m, n)
          \/ DqPushFull(t, q)
          \/ DqPop(t, q) \/ (\E n \in Timeouts \cup {left[t]} : DqPopWait(t, q, n))
          \/ DqReset(t, q)
    BY <1>1 DEF DqCall
  <2>2. DqDoes
    BY <2>1, DqPushStep, DqPushWaitStep, DqPushFullStep, DqPopStep, DqPopWaitStep, DqResetStep
  <2>3. UNCHANGED exists
    BY <2>1 DEF DqPush, DqPushWait, DqPushFull, DqPop, DqPopWait, DqReset
  <2> QED BY <2>2, <2>3
<1>2. CASE \/ \E t \in Thread : DqPopReturn(t) \/ \E q \in Dq : DqFlushPushers(t, q) \/ DqResetEnd(t, q)
           \/ \E t \in Thread, q \in Dq : /\ CallFails(t, q) \/ CallFails(t, PushList[q])
                                          /\ UNCHANGED dqVars
  <2>1. DqDoes
    BY <1>2, DqEndStep, DqResetStep
  <2>2. UNCHANGED exists
    BY <1>2 DEF DqPopReturn, DqFlushPushers, DqResetEnd, CallFails
  <2> QED BY <2>1, <2>2
<1>3. CASE \E q \in Dq : DqInit(Main, q) \/ IsrDqPop(q)
  <2>1. DqDoes
    BY <1>3, DqInitStep, IsrDqPopStep
  <2>2. UNCHANGED exists \/ \E q \in Dq : exists' = [exists EXCEPT ![q] = TRUE]
    BY <1>3 DEF DqInit, IsrDqPop, ObjectInit
  <2>3. exists' \in [Obj -> BOOLEAN] /\ \A o \in Obj \ Dq : exists'[o] = exists[o]
    <3>1. CASE UNCHANGED exists
      BY <3>1
    <3>2. CASE \E q \in Dq : exists' = [exists EXCEPT ![q] = TRUE]
      <4>1. PICK q \in Dq : exists' = [exists EXCEPT ![q] = TRUE]
        BY <3>2
      <4>2. exists' \in [Obj -> BOOLEAN]
        BY <4>1
      <4>3. \A o \in Obj \ Dq : exists'[o] = exists[o]
        BY <4>1
      <4> QED BY <4>2, <4>3
    <3> QED BY <2>2, <3>1, <3>2
  <2> QED BY <2>1, <2>3
<1> QED BY <1>1, <1>2, <1>3 DEF DataQueueNext

(***************************************************************************)
(* A call on a mailbox or a message queue: what it means for the lists of  *)
(* other objects, and for those of its own on which threads wait.          *)
(***************************************************************************)
Does(S) ==
  /\ CoreInv' /\ LeftOK'
  /\ \A o \in Obj \ S : Apart(o) /\ \A x \in Thread : InWait(x, o) => left'[x] = left[x]

(* The thread t moves in its call, or is interrupted; threads of w wake.   *)
LEMMA MovingDoes ==
  ASSUME CoreInv, CoreInv', LeftOK, NEW S, NEW t \in Thread, NEW w, Steps(t, w), \A x \in w : call[x] \in S,
         \A x \in Thread \ {t} : UNCHANGED left[x], left' \in [Thread -> Forever .. MaxTime],
         \/ UNCHANGED <<pc[t], call[t], left[t]>>
         \/ left'[t] = 0 /\ call[t] \notin Obj \ S /\ \A o \in Obj : ~InWait(t, o)'
  PROVE  Does(S)
<1>1. \A x \in Thread \ {t} : UNCHANGED <<pc[x], call[x], left[x]>>
  BY DEF Steps
<1>2. LeftOK'
  BY <1>1, LeftStep
<1>3. ASSUME NEW o \in Obj \ S PROVE Apart(o) /\ \A x \in Thread : InWait(x, o) => left'[x] = left[x]
  <2>1. \A x \in w : call[x] # o
    OBVIOUS
  <2>2. (call[t] # o /\ ~InWait(t, o)') \/ UNCHANGED <<pc[t], call[t]>>
    OBVIOUS
  <2>3. Apart(o)
    BY <2>1, <2>2, ApartSteps
  <2>4. call[t] = o => left'[t] = left[t]
    OBVIOUS
  <2> QED BY <2>3, <2>4 DEF InWait
<1> QED BY <1>2, <1>3 DEF Does

(* The thread t waits on s. *)
LEMMA WaitingDoes ==
  ASSUME CoreInv, LeftOK, NEW t \in Thread, NEW s \in MbLists \cup Mq, NEW order,
         NEW n \in Timeouts \cup {left[t]}, MayBlock(t) \/ Retrying(t, s), WaitFor(t, s, order, n)
  PROVE  /\ Does({s}) /\ Range(waitq'[s]) = Range(waitq[s]) \cup {t}
         /\ \A o \in Obj \ {s} : waitq'[o] = waitq[o]
<1> USE DEF WaitFor
<1>1. s \in Obj /\ s \in MbLists \cup Mq \cup DqLists
  BY CallLists
<1>2. /\ call[t] \in {"none", s}
      /\ MayBlock(t) \/ (At(t, "blocked") /\ call[t] \in Obj)
  BY <1>1 DEF MayBlock, InUser, Retrying, At, CoreInv, WaitInv, PlaceOK
<1>3. n \in Forever .. MaxTime /\ left \in [Thread -> Forever .. MaxTime]
  <2>1. left \in [Thread -> Forever .. MaxTime]
    BY DEF LeftOK
  <2>2. left[t] \in Forever .. MaxTime
    BY <2>1
  <2>3. {Forever} \cup 1 .. MaxTime \subseteq Forever .. MaxTime
    BY KernelAssumption DEF Forever
  <2>4. n \in Forever .. MaxTime
    BY <2>2, <2>3, CallAssumption
  <2> QED BY <2>1, <2>4
<1>4. PICK m \in 0 .. MaxTime : m = (IF n = Forever THEN 0 ELSE n)
  BY <1>3, KernelAssumption DEF Forever
<1>5. Block(t, s, order, m)
  BY <1>4
<1>6. /\ CoreInv' /\ Range(waitq'[s]) = Range(waitq[s]) \cup {t}
      /\ \A x \in Obj \ {s} : waitq'[x] = waitq[x]
      /\ pc' = [pc EXCEPT ![t] = "sched"] /\ call' = [call EXCEPT ![t] = s]
  BY ZenonT(60), <1>1, <1>2, <1>5, BlockAct
<1>7. \A o \in Obj \ {s} : Apart(o)
  BY <1>1, <1>2, <1>5, CoreView, ApartBlock
<1>8. (\A x \in Thread \ {t} : UNCHANGED <<pc[x], call[x], left[x]>>) /\ InWait(t, s)'
  BY <1>3, <1>6, CoreView DEF InWait
<1>9. left' \in [Thread -> Forever .. MaxTime]
  BY <1>3
<1>10. LeftOK'
  BY <1>1, <1>8, <1>9, LeftStep
<1>11. \A o \in Obj \ {s} : \A x \in Thread : InWait(x, o) => left'[x] = left[x]
  BY <1>2, <1>8, CoreView DEF InWait
<1> QED BY <1>6, <1>7, <1>10, <1>11 DEF Does

(* Who is on the way to o stays so when t moves, unless it is t itself.    *)
LEMMA WayMoves ==
  ASSUME CoreInv, NEW t \in Thread, NEW w, Steps(t, w), NEW o \in Obj
  PROVE  /\ OnTheWay(o) \ {t} \subseteq OnTheWay(o)'
         /\ t \notin OnTheWay(o) \/ UNCHANGED <<pc[t], call[t]>> => OnTheWay(o) \subseteq OnTheWay(o)'
<1>1. ASSUME NEW x \in OnTheWay(o), x # t \/ UNCHANGED <<pc[t], call[t]>> PROVE x \in OnTheWay(o)'
  <2>1. x \in Thread /\ call[x] = o /\ pc[x] \in {"sched", "blocked"} /\ err[x] = "EOK" /\ x \notin Range(waitq[o])
    BY DEF OnTheWay
  <2>2. x \notin w
    <3> SUFFICES ASSUME x \in w PROVE FALSE
      OBVIOUS
    <3>1. PICK s \in Obj : x \in Range(waitq[s])
      BY DEF Steps
    <3> QED BY <2>1, <3>1, CoreView
  <2>3. x \notin Range(waitq'[o]) /\ UNCHANGED err[x]
    BY <2>1, <2>2 DEF Steps
  <2>4. UNCHANGED <<pc[x], call[x]>>
    BY <1>1, <2>1 DEF Steps
  <2> QED BY <2>1, <2>3, <2>4 DEF OnTheWay
<1> QED BY <1>1

(* The first waiter of o is on the way once it is woken. *)
LEMMA WayWoken ==
  ASSUME CoreInv, NEW t \in Thread, NEW o \in Obj, Steps(t, Woken(o)), UNCHANGED err, waitq[o] # <<>>,
         ~InWait(t, o) \/ UNCHANGED <<pc[t], call[t]>>
  PROVE  \E u \in OnTheWay(o)' : u \notin OnTheWay(o)
<1>1. PICK u : u \in Woken(o)
  BY DEF Woken
<1>2. u \in Range(waitq[o]) /\ u \in Thread /\ InWait(u, o) /\ err[u] = "EOK"
  BY <1>1, WokenFacts
<1>3. u \notin Range(waitq'[o]) /\ UNCHANGED <<pc[u], call[u], err[u]>>
  BY <1>1, <1>2 DEF Steps
<1> QED BY <1>2, <1>3 DEF OnTheWay, InWait

(* Enough threads are on the way to o, if any go on waiting there: n of    *)
(* them before a step and m of them after it.                              *)
LEMMA WayServes ==
  ASSUME CoreInv, CoreInv', NEW o \in Obj, NEW n \in Int, NEW m \in Int,
         waitq[o] # <<>> => n <= Cardinality(OnTheWay(o)), Range(waitq'[o]) \subseteq Range(waitq[o]),
         \/ m <= n /\ OnTheWay(o) \subseteq OnTheWay(o)'
         \/ m <= n - 1 /\ \E t : OnTheWay(o) \ {t} \subseteq OnTheWay(o)'
         \/ /\ m <= n + 1 /\ OnTheWay(o) \subseteq OnTheWay(o)'
            /\ waitq[o] # <<>> => \E u \in OnTheWay(o)' : u \notin OnTheWay(o)
         \/ m <= 0
  PROVE  waitq'[o] # <<>> => m <= Cardinality(OnTheWay(o)')
<1> SUFFICES ASSUME waitq'[o] # <<>> PROVE m <= Cardinality(OnTheWay(o)')
  OBVIOUS
<1>1. waitq[o] # <<>>
  BY StaysEmpty
<1>2. IsFiniteSet(OnTheWay(o)')
  <2>1. OnTheWay(o)' \subseteq Thread /\ IsFiniteSet(Thread)
    BY CallAssumption DEF OnTheWay
  <2> QED BY <2>1, FS_Subset
<1>3. n <= Cardinality(OnTheWay(o)) /\ Cardinality(OnTheWay(o)) \in Nat /\ Cardinality(OnTheWay(o)') \in Nat
  BY <1>1, <1>2, WayFinite, FS_CardinalityType
<1>4. CASE m <= n /\ OnTheWay(o) \subseteq OnTheWay(o)'
  <2>1. Cardinality(OnTheWay(o)) <= Cardinality(OnTheWay(o)')
    BY <1>2, <1>4, FS_Subset
  <2> QED BY <1>3, <1>4, <2>1
<1>5. CASE m <= n - 1 /\ \E t : OnTheWay(o) \ {t} \subseteq OnTheWay(o)'
  <2>1. PICK t : OnTheWay(o) \ {t} \subseteq OnTheWay(o)'
    BY <1>5
  <2>2. Cardinality(OnTheWay(o)) - 1 <= Cardinality(OnTheWay(o)')
    BY <2>1, WayShrinks
  <2> QED BY <1>3, <1>5, <2>2
<1>6. CASE /\ m <= n + 1 /\ OnTheWay(o) \subseteq OnTheWay(o)'
           /\ waitq[o] # <<>> => \E u \in OnTheWay(o)' : u \notin OnTheWay(o)
  <2>1. PICK u \in OnTheWay(o)' : u \notin OnTheWay(o)
    BY <1>1, <1>6
  <2>2. Cardinality(OnTheWay(o)) + 1 <= Cardinality(OnTheWay(o)')
    BY <1>6, <2>1, WayGrows
  <2> QED BY <1>3, <1>6, <2>2
<1>7. CASE m <= 0
  BY <1>3, <1>7
<1> QED BY <1>4, <1>5, <1>6, <1>7

(* How n threads needed on the way to o become m.                          *)
Attends(o, n, m) ==
  \/ m <= n /\ OnTheWay(o) \subseteq OnTheWay(o)'
  \/ m <= n - 1 /\ \E t : OnTheWay(o) \ {t} \subseteq OnTheWay(o)'
  \/ /\ m <= n + 1 /\ OnTheWay(o) \subseteq OnTheWay(o)'
     /\ waitq[o] # <<>> => \E u \in OnTheWay(o)' : u \notin OnTheWay(o)
  \/ m <= 0

(* The thread WakeOne wakes, if an interrupt handler calls it.             *)
LEMMA WakeOneIsr ==
  ASSUME CoreInv, IrqEnabled, NEW o \in Obj, WakeOne(o), IsrSchedule(waitq[o] # <<>>),
         UNCHANGED <<defunct, prio, err, slice, callVars, nest, due>>,
         \A x \in Thread : Flushing(x) => call[x] # o
  PROVE  /\ CoreInv' /\ Steps(current, Woken(o)) /\ current \in Thread
         /\ UNCHANGED <<pc, call, err>>
<1>1. due = {} /\ current \in Thread /\ UNCHANGED <<pc, call, err>>
  BY CoreView DEF IrqEnabled, callVars
<1>2. CASE waitq[o] # <<>>
  <2>1. Wake(Head(waitq[o])) /\ DoSchedule /\ Woken(o) = {Head(waitq[o])}
    BY <1>2 DEF WakeOne, IsrSchedule, Woken
  <2>2. CoreInv' /\ Steps(current, {Head(waitq[o])})
    BY <1>1, <1>2, <2>1, WakeIsr
  <2> QED BY <1>1, <2>1, <2>2
<1>3. CASE waitq[o] = <<>>
  <2>1. UNCHANGED kernelVars /\ Woken(o) = {}
    BY <1>3 DEF WakeOne, IsrSchedule, Woken, kernelVars, queueVars, threadVars, callVars
  <2>2. Steps(current, {})
    BY <2>1, CoreView DEF Steps, kernelVars, queueVars, threadVars, callVars
  <2> QED BY <1>1, <2>1, <2>2, SameAct
<1> QED BY <1>2, <1>3

(***************************************************************************)
(* Mailboxes.                                                              *)
(***************************************************************************)
MbShape ==
  /\ msg_pool \in [Mb -> [0 .. Size - 1 -> Message \cup {Nothing}]]
  /\ entry \in [Mb -> 0 .. Size]
  /\ in_offset \in [Mb -> 0 .. Size - 1] /\ out_offset \in [Mb -> 0 .. Size - 1]

(* Nobody is forgotten who waits to receive, or to send. *)
BoxOK(mb) ==
  /\ ~exists[mb] => waitq[mb] = <<>> /\ waitq[Tx[mb]] = <<>>
  /\ waitq[mb] # <<>> => entry[mb] <= Cardinality(OnTheWay(mb))
  /\ waitq[Tx[mb]] # <<>> => Size - entry[mb] <= Cardinality(OnTheWay(Tx[mb]))

MbInv == MbShape /\ \A mb \in Mb : BoxOK(mb)

(* The two lists of a mailbox belong to it alone. *)
LEMMA BoxLists ==
  ASSUME NEW mb \in Mb
  PROVE  /\ mb \in Obj /\ Tx[mb] \in Obj /\ Tx[mb] # mb /\ mb \in MbLists /\ Tx[mb] \in MbLists
         /\ mb \notin Ev \cup Cp \cup Mq \cup DqLists /\ Tx[mb] \notin Ev \cup Cp \cup Mq \cup DqLists
         /\ mb # "none" /\ Tx[mb] # "none" /\ mb \in Call /\ Tx[mb] \in Call
         /\ \A b \in Mb \ {mb} : b \in Obj \ {mb, Tx[mb]} /\ Tx[b] \in Obj \ {mb, Tx[mb]}
BY MailboxAssumption, ObjectsAssumption, KernelAssumption DEF Call, DqLists, MbLists

(* What a step leaves of those who wait at a mailbox.                      *)
LEMMA BoxServed ==
  ASSUME CoreInv, CoreInv', MbShape, MbShape', NEW mb \in Mb, BoxOK(mb),
         exists'[mb] \/ (waitq'[mb] = <<>> /\ waitq'[Tx[mb]] = <<>>),
         Range(waitq'[mb]) \subseteq Range(waitq[mb]), Range(waitq'[Tx[mb]]) \subseteq Range(waitq[Tx[mb]]),
         NEW n, n = entry[mb], NEW m, m = entry'[mb], Attends(mb, n, m), Attends(Tx[mb], Size - n, Size - m)
  PROVE  BoxOK(mb)'
<1>1. n \in Int /\ m \in Int /\ Size \in Int
  BY MailboxAssumption DEF MbShape
<1>2. Size - n \in Int /\ Size - m \in Int
  BY <1>1
<1>3. waitq'[mb] # <<>> => m <= Cardinality(OnTheWay(mb)')
  <2>1. waitq[mb] # <<>> => n <= Cardinality(OnTheWay(mb))
    BY DEF BoxOK
  <2> QED BY <1>1, <2>1, BoxLists, WayServes DEF Attends
<1>4. waitq'[Tx[mb]] # <<>> => Size - m <= Cardinality(OnTheWay(Tx[mb])')
  <2>1. PICK s \in Obj : s = Tx[mb]
    BY BoxLists
  <2>2. PICK a \in Int, b \in Int : a = Size - n /\ b = Size - m
    BY <1>2
  <2>3. waitq[s] # <<>> => a <= Cardinality(OnTheWay(s))
    BY <2>1, <2>2 DEF BoxOK
  <2>4. Attends(s, a, b) /\ Range(waitq'[s]) \subseteq Range(waitq[s])
    BY <2>1, <2>2
  <2>5. waitq'[s] # <<>> => b <= Cardinality(OnTheWay(s)')
    BY <2>3, <2>4, WayServes DEF Attends
  <2> QED BY <2>1, <2>2, <2>5
<1> QED BY <1>3, <1>4 DEF BoxOK

(* Steps on other objects. *)
LEMMA BoxApart ==
  ASSUME CoreInv, CoreInv', MbShape, MbShape', NEW mb \in Mb, BoxOK(mb), exists[mb] => exists'[mb],
         entry'[mb] = entry[mb], Apart(mb), Apart(Tx[mb])
  PROVE  BoxOK(mb)'
<1>1. OnTheWay(mb) \subseteq OnTheWay(mb)' /\ OnTheWay(Tx[mb]) \subseteq OnTheWay(Tx[mb])'
  <2>1. PICK s : s = Tx[mb]
    OBVIOUS
  <2>2. OnTheWay(s) \subseteq OnTheWay(s)'
    BY <2>1, ApartWay
  <2> QED BY <2>1, <2>2, ApartWay
<1>2. Range(waitq'[mb]) \subseteq Range(waitq[mb]) /\ Range(waitq'[Tx[mb]]) \subseteq Range(waitq[Tx[mb]])
  BY DEF Apart
<1>3. exists'[mb] \/ (waitq'[mb] = <<>> /\ waitq'[Tx[mb]] = <<>>)
  BY <1>2, BoxLists, StaysEmpty DEF BoxOK
<1>4. PICK n \in Int : n = entry[mb]
  BY DEF MbShape
<1>5. Size - n <= Size - n /\ n <= n
  BY <1>4, MailboxAssumption
<1>6. Attends(mb, n, n) /\ Attends(Tx[mb], Size - n, Size - n)
  BY <1>1, <1>5 DEF Attends
<1> QED BY <1>2, <1>3, <1>4, <1>6, BoxServed

MbDoes(mb) == Does({mb, Tx[mb]}) /\ MbInv'

(* A step on the mailbox mb. *)
LEMMA MbTouches ==
  ASSUME CoreInv, MbInv, MbShape', NEW mb \in Mb, Does({mb, Tx[mb]}), BoxOK(mb)',
         \A b \in Mb \ {mb} : entry'[b] = entry[b] /\ exists'[b] = exists[b]
  PROVE  MbDoes(mb)
<1>1. CoreInv'
  BY DEF Does
<1>2. ASSUME NEW b \in Mb \ {mb} PROVE BoxOK(b)'
  <2>1. Apart(b) /\ Apart(Tx[b])
    BY BoxLists DEF Does
  <2> QED BY <1>1, <2>1, BoxApart DEF MbInv
<1> QED BY <1>1, <1>2 DEF MbDoes, MbInv

(* The thread goes on, or goes away, and nobody else is concerned.         *)
LEMMA MbMoveStep ==
  ASSUME CoreInv, LeftOK, MbInv, CoreInv', MbShape', NEW mb \in Mb, NEW t \in Thread, Steps(t, {}),
         call[t] \in {"none", mb, Tx[mb]}, \A o \in Obj : ~InWait(t, o)',
         \A x \in Thread \ {t} : UNCHANGED left[x], left' \in [Thread -> Forever .. MaxTime], left'[t] = 0,
         \A b \in Mb \ {mb} : entry'[b] = entry[b] /\ exists'[b] = exists[b],
         \/ entry'[mb] = entry[mb] /\ exists'[mb] = exists[mb]
         \/ waitq[mb] = <<>> /\ waitq[Tx[mb]] = <<>>,
         t \notin OnTheWay(mb) \/ entry[mb] = 0, t \notin OnTheWay(Tx[mb]) \/ entry[mb] = Size
  PROVE  MbDoes(mb)
<1>1. call[t] \notin Obj \ {mb, Tx[mb]}
  BY CoreView
<1>2. Does({mb, Tx[mb]})
  <2>1. PICK w : w = {} /\ Steps(t, w)
    OBVIOUS
  <2>2. \A x \in w : call[x] \in {mb, Tx[mb]}
    BY <2>1
  <2>3. PICK s : s = {mb, Tx[mb]}
    OBVIOUS
  <2>4. Does(s)
    BY <1>1, <2>1, <2>2, <2>3, MovingDoes
  <2> QED BY <2>3, <2>4
<1>3. \A s \in Obj : Range(waitq'[s]) \subseteq Range(waitq[s])
  BY DEF Steps
<1>4. waitq[mb] = <<>> => waitq'[mb] = <<>>
  BY <1>3, BoxLists, StaysEmpty
<1>5. waitq[Tx[mb]] = <<>> => waitq'[Tx[mb]] = <<>>
  BY <1>3, BoxLists, StaysEmpty
<1>6. BoxOK(mb)'
  <2>1. CASE waitq[mb] = <<>> /\ waitq[Tx[mb]] = <<>>
    BY <1>4, <1>5, <2>1 DEF BoxOK
  <2>2. CASE entry'[mb] = entry[mb] /\ exists'[mb] = exists[mb]
    <3>1. BoxOK(mb) /\ MbShape
      BY DEF MbInv
    <3>2. PICK n \in 0 .. Size : n = entry[mb]
      BY <3>1 DEF MbShape
    <3>3. n <= n /\ Size - n <= Size - n /\ (n = 0 => n <= 0) /\ (n = Size => Size - n <= 0)
      BY <3>2, MailboxAssumption
    <3>4. t \notin OnTheWay(mb) => OnTheWay(mb) \subseteq OnTheWay(mb)'
      BY BoxLists, WayMoves
    <3>5. t \notin OnTheWay(Tx[mb]) => OnTheWay(Tx[mb]) \subseteq OnTheWay(Tx[mb])'
      <4>1. PICK s \in Obj : s = Tx[mb]
        BY BoxLists
      <4>2. t \notin OnTheWay(s) => OnTheWay(s) \subseteq OnTheWay(s)'
        BY WayMoves
      <4> QED BY <4>1, <4>2
    <3>6. Attends(mb, n, n) /\ Attends(Tx[mb], Size - n, Size - n)
      BY <3>2, <3>3, <3>4, <3>5 DEF Attends
    <3>7. exists'[mb] \/ (waitq'[mb] = <<>> /\ waitq'[Tx[mb]] = <<>>)
      BY <1>4, <1>5, <2>2, <3>1 DEF BoxOK
    <3>8. entry'[mb] = n
      BY <2>2, <3>2
    <3> QED BY <1>3, <3>1, <3>2, <3>6, <3>7, <3>8, BoxLists, BoxServed
  <2> QED BY <2>1, <2>2
<1> QED BY <1>2, <1>6, MbTouches

(* A call ends that neither sends nor receives any more.                   *)
LEMMA MbEndStep ==
  ASSUME CoreInv, LeftOK, MbInv, NEW t \in Thread, NEW mb \in Mb,
         \/ (MbRecvReturn(t) /\ call[t] = mb) \/ MbTimeIsUp(t, mb)
         \/ (CallFails(t, mb) \/ CallFails(t, Tx[mb])) /\ UNCHANGED mbVars
  PROVE  MbDoes(mb)
<1> USE DEF MbRecvReturn, MbTimeIsUp, CallFails, EndCall, Retrying, At, Running, Goto
<1>1. /\ call[t] \in {mb, Tx[mb]}
      /\ \/ pc[t] = "got" \/ err[t] # "EOK"
         \/ call[t] = Tx[mb] /\ entry[mb] = Size
         \/ call[t] = mb /\ entry[mb] = 0
  OBVIOUS
<1>2. call[t] # "none" /\ "none" \in Call
  BY <1>1, BoxLists DEF Call
<1>3. PICK l \in {"run", "sched"} : pc' = [pc EXCEPT ![t] = l]
  OBVIOUS
<1>4. pc[t] \in {"got", "blocked"} /\ pc[Idle] = "run" /\ call' = [call EXCEPT ![t] = "none"] /\ current = t
  BY CoreView
<1>5. Goes(t, l, "none")
  BY <1>2, <1>3, <1>4 DEF Goes
<1>6. /\ UNCHANGED <<queueVars, threadVars, arg, current, nest, due, lag, exists, mbVars>>
      /\ left' = [left EXCEPT ![t] = 0]
  OBVIOUS
<1>7. CoreInv' /\ Steps(t, {}) /\ \A o \in Obj : ~InWait(t, o)'
  BY <1>5, <1>6, MoveAct, GoesNowhere
<1>8. /\ \A x \in Thread \ {t} : UNCHANGED left[x]
      /\ left' \in [Thread -> Forever .. MaxTime] /\ left'[t] = 0
  <2>1. left \in [Thread -> Forever .. MaxTime] /\ 0 \in Forever .. MaxTime
    BY KernelAssumption DEF LeftOK, Forever
  <2> QED BY <1>6, <2>1
<1>9. t \notin OnTheWay(mb) \/ entry[mb] = 0
  BY <1>1, BoxLists DEF OnTheWay
<1>10. t \notin OnTheWay(Tx[mb]) \/ entry[mb] = Size
  BY <1>1, BoxLists DEF OnTheWay
<1>11. MbShape' /\ \A b \in Mb : entry'[b] = entry[b] /\ exists'[b] = exists[b]
  BY <1>6 DEF MbInv, MbShape, mbVars
<1>12. call[t] \in {"none", mb, Tx[mb]}
  BY <1>1
<1> QED BY <1>7, <1>8, <1>9, <1>10, <1>11, <1>12, MbMoveStep

(* rt_mb_send: the message has a thread on its way, and takes one place.   *)
LEMMA StoreShape ==
  ASSUME MbShape, NEW mb \in Mb, NEW m \in Message, Store(mb, m), entry[mb] < Size
  PROVE  MbShape' /\ entry'[mb] = entry[mb] + 1 /\ \A b \in Mb \ {mb} : entry'[b] = entry[b]
<1>1. \A i \in 0 .. Size - 1 : Advance(i) \in 0 .. Size - 1
  BY MailboxAssumption DEF Advance
<1>2. entry[mb] \in 0 .. Size /\ entry[mb] + 1 \in 0 .. Size /\ Size \in Nat
  <2>1. entry[mb] \in 0 .. Size
    BY DEF MbShape
  <2> QED BY <2>1, MailboxAssumption
<1>3. entry' = [entry EXCEPT ![mb] = entry[mb] + 1] /\ UNCHANGED out_offset
  BY DEF Store
<1>4. in_offset' \in [Mb -> 0 .. Size - 1]
  BY <1>1 DEF MbShape, Store
<1>5. msg_pool' \in [Mb -> [0 .. Size - 1 -> Message \cup {Nothing}]]
  BY DEF MbShape, Store
<1>6. entry' \in [Mb -> 0 .. Size] /\ entry'[mb] = entry[mb] + 1 /\ \A b \in Mb \ {mb} : entry'[b] = entry[b]
  BY <1>2, <1>3 DEF MbShape
<1> QED BY <1>3, <1>4, <1>5, <1>6 DEF MbShape

LEMMA MbSentStep ==
  ASSUME CoreInv, LeftOK, MbInv, CoreInv', NEW mb \in Mb, NEW m \in Message, Store(mb, m), entry[mb] < Size,
         exists[mb], UNCHANGED exists, NEW t \in Thread, Steps(t, Woken(mb)), UNCHANGED err,
         \/ UNCHANGED <<pc[t], call[t], left[t]>>
         \/ left'[t] = 0 /\ call[t] \in {"none", Tx[mb]} /\ \A o \in Obj : ~InWait(t, o)',
         \A x \in Thread \ {t} : UNCHANGED left[x], left' \in [Thread -> Forever .. MaxTime]
  PROVE  MbDoes(mb)
<1>1. /\ MbShape /\ BoxOK(mb) /\ MbShape' /\ entry'[mb] = entry[mb] + 1
      /\ \A b \in Mb \ {mb} : entry'[b] = entry[b]
  <2>1. MbShape /\ BoxOK(mb)
    BY DEF MbInv
  <2> QED BY <2>1, StoreShape
<1>2. Does({mb, Tx[mb]})
  <2>1. \A x \in Woken(mb) : call[x] \in {mb, Tx[mb]}
    BY BoxLists, WokenFacts
  <2>2. \/ UNCHANGED <<pc[t], call[t], left[t]>>
        \/ left'[t] = 0 /\ call[t] \notin Obj \ {mb, Tx[mb]} /\ \A o \in Obj : ~InWait(t, o)'
    BY CoreView
  <2> QED BY <2>1, <2>2, MovingDoes
<1>3. PICK n \in 0 .. Size : n = entry[mb]
  BY <1>1 DEF MbShape
<1>4. Attends(mb, n, n + 1)
  <2>1. t \notin OnTheWay(mb) \/ UNCHANGED <<pc[t], call[t]>>
    BY BoxLists DEF OnTheWay
  <2>2. OnTheWay(mb) \subseteq OnTheWay(mb)'
    BY <2>1, BoxLists, WayMoves
  <2>3. ~InWait(t, mb) \/ UNCHANGED <<pc[t], call[t]>>
    BY BoxLists DEF InWait
  <2>4. waitq[mb] # <<>> => \E u \in OnTheWay(mb)' : u \notin OnTheWay(mb)
    BY <2>3, BoxLists, WayWoken
  <2>5. n + 1 <= n + 1
    BY <1>3
  <2> QED BY <2>2, <2>4, <2>5 DEF Attends
<1>5. Attends(Tx[mb], Size - n, Size - (n + 1))
  <2>1. PICK s \in Obj : s = Tx[mb]
    BY BoxLists
  <2>2. OnTheWay(s) \ {t} \subseteq OnTheWay(s)'
    BY WayMoves
  <2>3. Size - (n + 1) <= (Size - n) - 1
    BY <1>3, MailboxAssumption
  <2>4. Attends(s, Size - n, Size - (n + 1))
    BY <2>2, <2>3 DEF Attends
  <2> QED BY <2>1, <2>4
<1>6. Range(waitq'[mb]) \subseteq Range(waitq[mb]) /\ Range(waitq'[Tx[mb]]) \subseteq Range(waitq[Tx[mb]])
  <2>1. \A s \in Obj : Range(waitq'[s]) \subseteq Range(waitq[s])
    BY DEF Steps
  <2> QED BY <2>1, BoxLists
<1>7. entry'[mb] = n + 1 /\ exists'[mb]
  BY <1>1, <1>3
<1>8. BoxOK(mb)'
  BY <1>1, <1>3, <1>4, <1>5, <1>6, <1>7, BoxServed
<1> QED BY <1>1, <1>2, <1>8, MbTouches

LEMMA MbSendStep ==
  ASSUME CoreInv, LeftOK, MbInv, NEW t \in Thread \ {Idle}, NEW mb \in Mb, NEW m \in Sends[t], MbSend(t, mb, m)
  PROVE  MbDoes(mb)
<1> USE DEF MbSend, EndCall, Goto
<1>1. /\ call[t] \in {"none", Tx[mb]} /\ current = t /\ due = {} /\ pc[t] \in {"run", "blocked"}
      /\ "none" \in Call /\ m \in Message
  BY CallAssumption DEF InUser, Retrying, At, Running, CoreInv, WaitInv, PlaceOK, Call
<1>2. PICK l : l = IF waitq[mb] # <<>> THEN "sched" ELSE "run"
  OBVIOUS
<1>3. Goes(t, l, "none")
  BY <1>1, <1>2 DEF Goes
<1>4. IF waitq[mb] # <<>> THEN (UNCHANGED lag /\ l = "sched") \/ lag' = TRUE ELSE UNCHANGED lag
  BY <1>2
<1>5. WakeOne(mb) /\ mb \in Obj /\ UNCHANGED <<defunct, prio, err, slice, arg, current, nest, due>>
  BY BoxLists
<1>6. CoreInv' /\ Steps(t, Woken(mb)) /\ \A o \in Obj : ~InWait(t, o)'
  BY <1>1, <1>3, <1>4, <1>5, WakeOneAct, GoesNowhere
<1>7. /\ \A x \in Thread \ {t} : UNCHANGED left[x]
      /\ left' \in [Thread -> Forever .. MaxTime] /\ left'[t] = 0
  <2>1. left \in [Thread -> Forever .. MaxTime] /\ 0 \in Forever .. MaxTime
    BY KernelAssumption DEF LeftOK, Forever
  <2> QED BY <2>1
<1>8. Store(mb, m) /\ entry[mb] < Size /\ exists[mb] /\ UNCHANGED <<exists, err>>
  OBVIOUS
<1> QED BY <1>1, <1>6, <1>7, <1>8, MbSentStep

(* ... called from an interrupt handler.                                   *)
LEMMA IsrMbSendStep ==
  ASSUME CoreInv, LeftOK, MbInv, Guarded, NEW mb \in Mb, NEW m \in IsrSends, IsrMbSend(mb, m)
  PROVE  MbDoes(mb)
<1> USE DEF IsrMbSend
<1>1. IrqEnabled /\ WakeOne(mb) /\ IsrSchedule(waitq[mb] # <<>>) /\ mb \in Obj
      /\ UNCHANGED <<defunct, prio, err, slice, callVars, nest, due>>
  BY BoxLists
<1>2. \A x \in Thread : Flushing(x) => call[x] # mb
  BY DEF Flushing
<1>3. CoreInv' /\ Steps(current, Woken(mb)) /\ current \in Thread /\ UNCHANGED <<pc, call, err>>
  BY <1>1, <1>2, WakeOneIsr
<1>4. UNCHANGED left /\ left' \in [Thread -> Forever .. MaxTime]
  BY DEF ipcCallVars, LeftOK
<1>5. Store(mb, m) /\ entry[mb] < Size /\ exists[mb] /\ UNCHANGED <<exists, err>> /\ m \in Message
  BY CallAssumption
<1> QED BY <1>3, <1>4, <1>5, MbSentStep

(* rt_mb_recv: a message less, and a place that has a sender on its way.   *)
LEMMA MbRecvStep ==
  ASSUME CoreInv, LeftOK, MbInv, NEW t \in Thread \ {Idle}, NEW mb \in Mb, MbRecv(t, mb)
  PROVE  MbDoes(mb)
<1> USE DEF MbRecv, Goto
<1>1. /\ call[t] \in {"none", mb} /\ current = t /\ due = {} /\ pc[t] \in {"run", "blocked"}
      /\ mb \in Call /\ Tx[mb] \in Obj
  BY BoxLists DEF InUser, Retrying, At, Running, CoreInv, WaitInv, PlaceOK
<1>2. Goes(t, "got", mb)
  BY <1>1 DEF Goes
<1>3. IF waitq[Tx[mb]] # <<>> THEN (UNCHANGED lag /\ "got" = "sched") \/ lag' = TRUE ELSE UNCHANGED lag
  <2>1. lag \in BOOLEAN /\ lag' = (lag \/ waitq[Tx[mb]] # <<>>)
    BY CoreView DEF KernelInv, KernelTypeOK
  <2> HIDE DEF MbRecv
  <2> QED BY <2>1
<1>4. WakeOne(Tx[mb]) /\ UNCHANGED <<defunct, prio, err, slice, arg, current, nest, due>>
  OBVIOUS
<1>5. PICK s \in Obj : s = Tx[mb]
  BY <1>1
<1>6. CoreInv' /\ Steps(t, Woken(s)) /\ \A o \in Obj : ~InWait(t, o)'
  <2>1. WakeOne(s) /\ IF waitq[s] # <<>> THEN (UNCHANGED lag /\ "got" = "sched") \/ lag' = TRUE ELSE UNCHANGED lag
    BY <1>3, <1>4, <1>5
  <2> HIDE DEF MbRecv
  <2> QED BY <1>1, <1>2, <1>4, <2>1, WakeOneAct, GoesNowhere
<1>7. /\ \A x \in Thread \ {t} : UNCHANGED left[x]
      /\ left' \in [Thread -> Forever .. MaxTime] /\ left'[t] = 0
  <2>1. left \in [Thread -> Forever .. MaxTime] /\ 0 \in Forever .. MaxTime
    BY KernelAssumption DEF LeftOK, Forever
  <2> QED BY <2>1
<1>8. MbShape /\ BoxOK(mb)
  BY DEF MbInv
<1>9. PICK n \in 1 .. Size : n = entry[mb]
  <2>1. entry[mb] \in 0 .. Size /\ entry[mb] > 0
    BY <1>8 DEF MbShape
  <2> QED BY <2>1, MailboxAssumption
<1>10. MbShape' /\ entry'[mb] = n - 1 /\ \A b \in Mb \ {mb} : entry'[b] = entry[b]
  <2>1. \A i \in 0 .. Size - 1 : Advance(i) \in 0 .. Size - 1
    BY MailboxAssumption DEF Advance
  <2>2. n - 1 \in 0 .. Size /\ entry' = [entry EXCEPT ![mb] = n - 1]
    BY <1>9, MailboxAssumption
  <2>3. out_offset' \in [Mb -> 0 .. Size - 1]
    BY <1>8, <2>1 DEF MbShape
  <2>4. msg_pool' \in [Mb -> [0 .. Size - 1 -> Message \cup {Nothing}]]
    BY <1>8 DEF MbShape
  <2>5. entry' \in [Mb -> 0 .. Size] /\ entry'[mb] = n - 1 /\ \A b \in Mb \ {mb} : entry'[b] = entry[b]
    BY <1>8, <2>2 DEF MbShape
  <2> QED BY <1>8, <2>3, <2>4, <2>5 DEF MbShape
<1>11. Does({mb, Tx[mb]})
  <2>1. \A x \in Woken(s) : call[x] \in {mb, Tx[mb]}
    BY <1>5, WokenFacts
  <2>2. left'[t] = 0 /\ call[t] \notin Obj \ {mb, Tx[mb]} /\ \A o \in Obj : ~InWait(t, o)'
    BY <1>1, <1>6, <1>7, CoreView
  <2> HIDE DEF MbRecv
  <2> QED BY <1>6, <1>7, <2>1, <2>2, MovingDoes
<1>12. Attends(s, Size - n, Size - (n - 1))
  <2>1. t \notin OnTheWay(s) /\ ~InWait(t, s)
    BY <1>1, <1>5, BoxLists DEF OnTheWay, InWait
  <2>2. OnTheWay(s) \subseteq OnTheWay(s)'
    BY <1>6, <2>1, WayMoves
  <2>3. waitq[s] # <<>> => \E u \in OnTheWay(s)' : u \notin OnTheWay(s)
    BY <1>4, <1>6, <2>1, WayWoken
  <2>4. Size - (n - 1) <= (Size - n) + 1
    BY <1>9, MailboxAssumption
  <2> QED BY <2>2, <2>3, <2>4 DEF Attends
<1>13. Attends(mb, n, n - 1)
  <2>1. OnTheWay(mb) \ {t} \subseteq OnTheWay(mb)'
    BY <1>6, BoxLists, WayMoves
  <2>2. n - 1 <= n - 1
    BY <1>9
  <2> QED BY <2>1, <2>2 DEF Attends
<1>14. Range(waitq'[mb]) \subseteq Range(waitq[mb]) /\ Range(waitq'[Tx[mb]]) \subseteq Range(waitq[Tx[mb]])
  <2>1. \A x \in Obj : Range(waitq'[x]) \subseteq Range(waitq[x])
    BY <1>6 DEF Steps
  <2> QED BY <2>1, BoxLists
<1>15. exists'[mb] /\ UNCHANGED exists
  OBVIOUS
<1> HIDE DEF MbRecv
<1>16. BoxOK(mb)'
  BY <1>5, <1>6, <1>8, <1>9, <1>10, <1>12, <1>13, <1>14, <1>15, BoxServed
<1> QED BY <1>10, <1>11, <1>15, <1>16, MbTouches

(* Waiting to receive while there is no message, to send while no room.    *)
LEMMA MbWaitStep ==
  ASSUME CoreInv, LeftOK, MbInv, NEW t \in Thread, NEW mb \in Mb, NEW s \in {mb, Tx[mb]}, NEW order,
         NEW n \in Timeouts \cup {left[t]}, MayBlock(t) \/ Retrying(t, s), WaitFor(t, s, order, n),
         exists[mb], s = mb => entry[mb] = 0, s = Tx[mb] => entry[mb] = Size,
         UNCHANGED <<exists, mbVars>>
  PROVE  MbDoes(mb)
<1> USE DEF mbVars
<1>1. s \in MbLists \cup Mq /\ s \in Obj
  BY BoxLists
<1>2. Does({s}) /\ \A o \in Obj \ {s} : waitq'[o] = waitq[o] /\ Apart(o)
  <2>1. Does({s}) /\ \A o \in Obj \ {s} : waitq'[o] = waitq[o]
    BY <1>1, WaitingDoes
  <2> QED BY <2>1 DEF Does
<1>3. Does({mb, Tx[mb]}) /\ CoreInv'
  BY <1>2 DEF Does
<1>4. MbShape /\ BoxOK(mb) /\ MbShape' /\ entry'[mb] = entry[mb] /\ exists'[mb]
  BY DEF MbInv, MbShape
<1>5. PICK k \in 0 .. Size : k = entry[mb]
  BY <1>4 DEF MbShape
<1>6. waitq'[mb] # <<>> => k <= Cardinality(OnTheWay(mb)')
  <2>1. CASE s = mb
    <3>1. Cardinality(OnTheWay(mb)') \in Nat
      <4>1. OnTheWay(mb)' \subseteq Thread /\ IsFiniteSet(Thread)
        BY CallAssumption DEF OnTheWay
      <4> QED BY <4>1, FS_Subset, FS_CardinalityType
    <3> QED BY <1>5, <2>1, <3>1
  <2>2. CASE s # mb
    <3>1. Apart(mb) /\ waitq'[mb] = waitq[mb]
      BY <1>2, <2>2, BoxLists
    <3>2. OnTheWay(mb) \subseteq OnTheWay(mb)' /\ k <= k
      BY <1>5, <3>1, ApartWay
    <3>3. waitq[mb] # <<>> => k <= Cardinality(OnTheWay(mb))
      BY <1>4, <1>5 DEF BoxOK
    <3> QED BY <1>3, <1>5, <3>1, <3>2, <3>3, BoxLists, WayServes
  <2> QED BY <2>1, <2>2
<1>7. waitq'[Tx[mb]] # <<>> => Size - k <= Cardinality(OnTheWay(Tx[mb])')
  <2>1. PICK x \in Obj : x = Tx[mb]
    BY BoxLists
  <2>2. PICK a \in Int : a = Size - k
    BY <1>5, MailboxAssumption
  <2>3. CASE s = x
    <3>1. Cardinality(OnTheWay(x)') \in Nat
      <4>1. OnTheWay(x)' \subseteq Thread /\ IsFiniteSet(Thread)
        BY CallAssumption DEF OnTheWay
      <4> QED BY <4>1, FS_Subset, FS_CardinalityType
    <3>2. a = 0
      BY <1>5, <2>1, <2>2, <2>3, MailboxAssumption
    <3>3. a <= Cardinality(OnTheWay(x)')
      BY <3>1, <3>2
    <3> QED BY <2>1, <2>2, <3>3
  <2>4. CASE s # x
    <3>1. Apart(x) /\ waitq'[x] = waitq[x]
      BY <1>2, <2>4
    <3>2. OnTheWay(x) \subseteq OnTheWay(x)' /\ a <= a
      BY <3>1, ApartWay
    <3>3. waitq[x] # <<>> => a <= Cardinality(OnTheWay(x))
      BY <1>4, <1>5, <2>1, <2>2 DEF BoxOK
    <3>4. waitq'[x] # <<>> => a <= Cardinality(OnTheWay(x)')
      BY <1>3, <3>1, <3>2, <3>3, WayServes
    <3> QED BY <2>1, <2>2, <3>4
  <2> QED BY <2>3, <2>4
<1>8. BoxOK(mb)'
  BY <1>4, <1>5, <1>6, <1>7 DEF BoxOK
<1> QED BY <1>3, <1>4, <1>8, MbTouches

LEMMA MbEmptiedStep ==
  ASSUME MbShape, NEW mb \in Mb, Emptied(mb)
  PROVE  MbShape' /\ entry'[mb] = 0 /\ \A b \in Mb \ {mb} : entry'[b] = entry[b]
<1>1. PICK none : none = [i \in 0 .. Size - 1 |-> Nothing]
  OBVIOUS
<1>2. none \in [0 .. Size - 1 -> Message \cup {Nothing}] /\ 0 \in 0 .. Size /\ 0 \in 0 .. Size - 1
  BY <1>1, MailboxAssumption
<1>3. /\ msg_pool' = [msg_pool EXCEPT ![mb] = none] /\ entry' = [entry EXCEPT ![mb] = 0]
      /\ in_offset' = [in_offset EXCEPT ![mb] = 0] /\ out_offset' = [out_offset EXCEPT ![mb] = 0]
  BY <1>1 DEF Emptied
<1>4. /\ msg_pool' \in [Mb -> [0 .. Size - 1 -> Message \cup {Nothing}]]
      /\ entry' \in [Mb -> 0 .. Size] /\ in_offset' \in [Mb -> 0 .. Size - 1] /\ out_offset' \in [Mb -> 0 .. Size - 1]
  BY <1>2, <1>3 DEF MbShape
<1>5. entry'[mb] = 0 /\ \A b \in Mb \ {mb} : entry'[b] = entry[b]
  BY <1>3 DEF MbShape
<1> QED BY <1>4, <1>5 DEF MbShape

(* Two lists that share nobody. *)
LEMMA JoinedLists ==
  ASSUME NEW S, NEW p \in Seq(S), NEW q \in Seq(S), IsInjective(p), IsInjective(q), Range(p) \cap Range(q) = {}
  PROVE  p \o q \in Seq(S) /\ IsInjective(p \o q) /\ Range(p \o q) = Range(p) \cup Range(q)
<1>1. /\ p \o q \in Seq(S) /\ Len(p) \in Nat /\ Len(q) \in Nat
      /\ DOMAIN p = 1 .. Len(p) /\ DOMAIN q = 1 .. Len(q) /\ DOMAIN (p \o q) = 1 .. (Len(p) + Len(q))
  OBVIOUS
<1>2. PICK r : r = p \o q
  OBVIOUS
<1>3. /\ \A i \in 1 .. Len(p) : r[i] = p[i]
      /\ \A i \in (Len(p) + 1) .. (Len(p) + Len(q)) : i - Len(p) \in 1 .. Len(q) /\ r[i] = q[i - Len(p)]
  BY <1>1, <1>2
<1>4. DOMAIN r = 1 .. (Len(p) + Len(q)) /\ \A i \in DOMAIN r : i \in 1 .. Len(p) \/ i \in (Len(p) + 1) .. (Len(p) + Len(q))
  BY <1>1, <1>2
<1>5. IsInjective(r)
  <2> SUFFICES ASSUME NEW i \in DOMAIN r, NEW j \in DOMAIN r, r[i] = r[j] PROVE i = j
    BY DEF IsInjective
  <2>1. CASE i \in 1 .. Len(p) /\ j \in 1 .. Len(p)
    <3>1. p[i] = p[j]
      BY <1>3, <2>1
    <3> QED BY <1>1, <2>1, <3>1 DEF IsInjective
  <2>2. CASE i \notin 1 .. Len(p) /\ j \notin 1 .. Len(p)
    <3>1. /\ i - Len(p) \in DOMAIN q /\ j - Len(p) \in DOMAIN q /\ q[i - Len(p)] = q[j - Len(p)]
          /\ i \in Int /\ j \in Int
      BY <1>1, <1>3, <1>4, <2>2
    <3>2. i - Len(p) = j - Len(p)
      BY <3>1 DEF IsInjective
    <3> QED BY <1>1, <3>1, <3>2
  <2>3. CASE (i \in 1 .. Len(p) /\ j \notin 1 .. Len(p)) \/ (j \in 1 .. Len(p) /\ i \notin 1 .. Len(p))
    <3>1. PICK a \in 1 .. Len(p), b \in (Len(p) + 1) .. (Len(p) + Len(q)) : r[a] = r[b]
      BY <1>4, <2>3
    <3>2. p[a] \in Range(p) /\ p[a] = q[b - Len(p)] /\ b - Len(p) \in DOMAIN q
      BY <1>1, <1>3, <3>1 DEF Range
    <3>3. p[a] \in Range(q)
      BY <3>2 DEF Range
    <3> QED BY <3>2, <3>3
  <2> QED BY <2>1, <2>2, <2>3
<1>6. Range(r) = Range(p) \cup Range(q)
  <2>1. ASSUME NEW i \in DOMAIN r PROVE r[i] \in Range(p) \cup Range(q)
    BY <1>1, <1>3, <1>4 DEF Range
  <2>2. ASSUME NEW i \in DOMAIN p PROVE i \in DOMAIN r /\ p[i] = r[i]
    BY <1>1, <1>3, <1>4
  <2>3. ASSUME NEW i \in DOMAIN q PROVE i + Len(p) \in DOMAIN r /\ q[i] = r[i + Len(p)]
    <3>1. i + Len(p) \in (Len(p) + 1) .. (Len(p) + Len(q)) /\ (i + Len(p)) - Len(p) = i
      BY <1>1
    <3> QED BY <1>3, <1>4, <3>1
  <2> QED BY <2>1, <2>2, <2>3 DEF Range
<1> QED BY <1>1, <1>2, <1>5, <1>6

(* RT_IPC_CMD_RESET leaves an empty mailbox at which nobody waits. *)
LEMMA MbResetStep ==
  ASSUME CoreInv, LeftOK, MbInv, NEW t \in Thread \ {Idle}, NEW mb \in Mb, MbReset(t, mb)
  PROVE  MbDoes(mb)
<1> USE DEF MbReset, InUser, Running, Goto, WakeAllWithError
<1>1. /\ "none" \in Call /\ call[t] = "none" /\ mb \in Obj /\ Tx[mb] \in Obj /\ mb # Tx[mb] /\ due = {}
      /\ call' = [call EXCEPT ![t] = "none"]
  BY CoreView, BoxLists DEF CoreInv, WaitInv, PlaceOK, Call
<1>2. Goes(t, "sched", "none")
  BY <1>1 DEF Goes
<1>3. PICK woken : woken = waitq[mb] \o waitq[Tx[mb]]
  OBVIOUS
<1>4. woken \in Seq(Thread) /\ IsInjective(woken) /\ Range(woken) = Range(waitq[mb]) \cup Range(waitq[Tx[mb]])
  <2>1. /\ waitq[mb] \in Seq(Thread) /\ waitq[Tx[mb]] \in Seq(Thread)
        /\ IsInjective(waitq[mb]) /\ IsInjective(waitq[Tx[mb]])
    BY <1>1, CoreView DEF KernelInv, ListsConsistent
  <2>2. Range(waitq[mb]) \cap Range(waitq[Tx[mb]]) = {}
    BY <1>1, CoreView
  <2> HIDE DEF MbReset, InUser, Running, Goto, WakeAllWithError
  <2> QED BY <1>3, <2>1, <2>2, JoinedLists
<1>5. WakeEach(woken) /\ err' = [x \in Thread |-> IF x \in Range(woken) THEN "ERROR" ELSE err[x]]
  BY <1>3
<1>6. err' \in [Thread -> Err] /\ \A x \in Thread \ Range(woken) : UNCHANGED err[x]
  BY <1>5, CoreView DEF Err
<1>7. /\ CoreInv' /\ Steps(t, Range(woken)) /\ \A o \in Obj : ~InWait(t, o)'
      /\ \A x \in Obj : Range(waitq'[x]) = Range(waitq[x]) \ Range(woken)
  <2>1. UNCHANGED <<defunct, prio, slice, arg, current, nest, due, lag>>
    OBVIOUS
  <2> HIDE DEF MbReset, InUser, Running, Goto, WakeAllWithError
  <2>2. OnLists(Range(woken))
    BY <1>1, <1>4 DEF OnLists
  <2>3. CoreInv' /\ Steps(t, Range(woken)) /\ \A x \in Obj : Range(waitq'[x]) = Range(waitq[x]) \ Range(woken)
    BY <1>1, <1>2, <1>4, <1>5, <1>6, <2>1, <2>2, WakeEachAct
  <2> QED BY <1>2, <2>3, GoesNowhere
<1>8. UNCHANGED left /\ left' \in [Thread -> Forever .. MaxTime] /\ left'[t] = 0
  <2>1. left[t] = 0 /\ UNCHANGED left
    BY NoTimeLeft DEF ipcCallVars
  <2> QED BY <2>1 DEF LeftOK
<1>9. UNCHANGED exists /\ Emptied(mb)
  OBVIOUS
<1> HIDE DEF MbReset, InUser, Running, Goto, WakeAllWithError
<1>10. Does({mb, Tx[mb]})
  <2>1. \A x \in Range(woken) : call[x] \in {mb, Tx[mb]}
    BY <1>1, <1>4, CoreView
  <2>2. call[t] \notin Obj \ {mb, Tx[mb]}
    BY <1>1, CoreView
  <2> QED BY <1>7, <1>8, <2>1, <2>2, MovingDoes
<1>11. waitq'[mb] = <<>> /\ waitq'[Tx[mb]] = <<>>
  <2>1. Range(waitq'[mb]) = {} /\ Range(waitq'[Tx[mb]]) = {}
    BY <1>1, <1>4, <1>7
  <2>2. waitq'[mb] \in Seq(Thread) /\ waitq'[Tx[mb]] \in Seq(Thread)
    BY <1>1, <1>7 DEF CoreInv, WaitInv, KernelInv, KernelTypeOK
  <2> QED BY <2>1, <2>2, HeadRange
<1>12. BoxOK(mb)'
  BY <1>11 DEF BoxOK
<1>13. MbShape' /\ \A b \in Mb \ {mb} : entry'[b] = entry[b]
  BY <1>9, MbEmptiedStep DEF MbInv
<1> QED BY <1>9, <1>10, <1>12, <1>13, MbTouches

(* rt_mb_detach, from its first step to its last.                          *)
LEMMA MbDetachStep ==
  ASSUME CoreInv, LeftOK, MbInv, Guarded, NEW mb \in Mb, NEW t \in Thread, exists \in [Obj -> BOOLEAN],
         (MbDetach(t, mb) /\ t # Idle) \/ MbFlushSenders(t, mb) \/ MbFlushEnd(t, mb)
  PROVE  MbDoes(mb)
<1> USE DEF MbDetach, MbFlushSenders, MbFlushEnd
<1>1. /\ call \in [Thread -> Call] /\ "none" \in Call /\ pc[t] \in {"run", "flush"} /\ current = t
      /\ call[t] \in {"none", mb, Tx[mb]} /\ mb \in Obj /\ Tx[mb] \in Obj
      /\ pc[Idle] = "run" /\ MbShape
  BY CoreView, BoxLists DEF Detach, InUser, At, Running, CoreInv, WaitInv, PlaceOK, Call, MbInv
<1>2. /\ CoreInv' /\ Steps(t, {}) /\ \A o \in Obj : ~InWait(t, o)'
      /\ MbShape' /\ \A b \in Mb \ {mb} : entry'[b] = entry[b] /\ exists'[b] = exists[b]
      /\ \/ entry'[mb] = entry[mb] /\ exists'[mb] = exists[mb]
         \/ waitq[mb] = <<>> /\ waitq[Tx[mb]] = <<>>
  <2>1. CASE MbDetach(t, mb) /\ t # Idle
    <3>1. FlushAt(mb)
      <4>1. due = {} /\ \A u \in Range(waitq[Tx[mb]]) : timer[u] = 0
        BY <2>1 DEF Quiet, Detach, InUser, Running
      <4> QED BY <4>1 DEF FlushAt
    <3>2. Detach(t, mb) /\ UNCHANGED mbVars
      BY <2>1
    <3>3. CoreInv' /\ UNCHANGED exists /\ Steps(t, {}) /\ pc'[t] = "flush"
      BY <1>1, <2>1, <3>1, <3>2, DetachAct
    <3> QED BY <1>1, <3>2, <3>3 DEF mbVars, MbShape, InWait
  <2>2. CASE MbFlushSenders(t, mb)
    <3>1. At(t, "flush") /\ call[t] = mb /\ waitq[mb] = <<>> /\ call' = [call EXCEPT ![t] = Tx[mb]]
          /\ UNCHANGED <<queueVars, threadVars, pc, arg, current, nest, due, lag, exists, mbVars>>
      BY <2>2
    <3>2. PICK k \in Obj : k = Tx[mb]
      BY <1>1
    <3>3. FlushAt(k)
      BY <3>1, <3>2 DEF FlushAt
    <3>4. \A u \in Range(waitq[k]) : timer[u] = 0
      <4>1. FlushAt(mb)
        BY <1>1, <3>1 DEF CoreInv, FlushPlace, Flushing, At
      <4>2. mb \notin Ev \cup Mq /\ (\A b \in Mb : mb # Tx[b]) /\ \A q \in Dq : mb \notin {q, PushList[q]}
        BY BoxLists, QueueLists, MailboxAssumption
      <4> QED BY <3>2, <4>1, <4>2 DEF FlushAt
    <3>5. call' = [call EXCEPT ![t] = k]
      BY <3>1, <3>2
    <3>6. CoreInv' /\ Steps(t, {})
      BY <3>1, <3>3, <3>4, <3>5, FlushOnAct
    <3>7. pc'[t] = "flush"
      BY <3>1 DEF At
    <3> QED BY <1>1, <3>1, <3>6, <3>7 DEF mbVars, MbShape, InWait
  <2>3. CASE MbFlushEnd(t, mb)
    <3>1. /\ At(t, "flush") /\ call[t] = Tx[mb] /\ waitq[Tx[mb]] = <<>> /\ Emptied(mb)
          /\ exists' = [exists EXCEPT ![mb] = FALSE] /\ pc' = [pc EXCEPT ![t] = "run"]
          /\ call' = [call EXCEPT ![t] = "none"]
          /\ UNCHANGED <<queueVars, threadVars, arg, current, nest, due, lag>>
      BY <2>3 DEF Goto
    <3>2. waitq[mb] = <<>>
      <4>1. FlushAt(Tx[mb])
        <5>1. PICK k : k = Tx[mb] /\ call[t] = k /\ Flushing(t)
          BY <1>1, <3>1 DEF Flushing, At
        <5>2. FlushAt(k)
          BY <5>1 DEF CoreInv, FlushPlace
        <5> QED BY <5>1, <5>2
      <4>2. Tx[mb] \notin Ev \cup Mq \cup Mb /\ \A q \in Dq : Tx[mb] \notin {q, PushList[q]}
        BY BoxLists, QueueLists, MailboxAssumption
      <4>3. \A b \in Mb : Tx[mb] = Tx[b] => b = mb
        BY ObjectsAssumption
      <4> QED BY <4>1, <4>2, <4>3 DEF FlushAt
    <3>3. Goes(t, "run", "none")
      BY <1>1, <3>1 DEF Goes, At
    <3>4. CoreInv' /\ Steps(t, {}) /\ \A o \in Obj : ~InWait(t, o)'
      BY <3>1, <3>3, MoveAct, GoesNowhere
    <3>5. MbShape' /\ \A b \in Mb \ {mb} : entry'[b] = entry[b]
      BY <1>1, <3>1, MbEmptiedStep
    <3>6. \A b \in Mb \ {mb} : exists'[b] = exists[b]
      BY <3>1, MailboxAssumption
    <3> QED BY <3>1, <3>2, <3>4, <3>5, <3>6
  <2> QED BY <2>1, <2>2, <2>3
<1>3. /\ \A x \in Thread \ {t} : UNCHANGED left[x]
      /\ left' \in [Thread -> Forever .. MaxTime] /\ left'[t] = 0
  <2>1. UNCHANGED left /\ left[t] = 0
    BY <1>1, NoTimeLeft DEF ipcCallVars
  <2> QED BY <2>1 DEF LeftOK
<1> HIDE DEF MbDetach, MbFlushSenders, MbFlushEnd
<1>4. t \notin OnTheWay(mb) /\ t \notin OnTheWay(Tx[mb])
  BY <1>1 DEF OnTheWay
<1> QED BY <1>1, <1>2, <1>3, <1>4, MbMoveStep

LEMMA MbInitStep ==
  ASSUME CoreInv, LeftOK, MbInv, exists \in [Obj -> BOOLEAN], NEW mb \in Mb, MbInit(Main, mb)
  PROVE  MbDoes(mb)
<1> USE DEF MbInit, ipcCallVars
<1>1. /\ mb \in Obj /\ Tx[mb] \in Obj /\ Main \in Thread /\ MbShape /\ BoxOK(mb)
      /\ waitq[mb] = <<>> /\ waitq[Tx[mb]] = <<>>
  BY BoxLists, KernelAssumption DEF MbInv, BoxOK, ObjectInit
<1>2. CoreInv' /\ UNCHANGED kernelVars /\ \A x \in Obj \ {mb} : exists'[x] = exists[x]
  BY <1>1, InitAct
<1>3. \A o \in Obj : Apart(o)
  BY <1>2, ApartSame
<1>4. UNCHANGED <<waitq, pc, call, left>>
  BY <1>2 DEF kernelVars, queueVars, threadVars, callVars
<1>5. Does({mb, Tx[mb]})
  <2>1. LeftOK'
    BY <1>4 DEF LeftOK, InWait
  <2> QED BY <1>2, <1>3, <1>4, <2>1 DEF Does
<1>6. MbShape' /\ \A b \in Mb \ {mb} : entry'[b] = entry[b]
  BY <1>1, MbEmptiedStep
<1>7. BoxOK(mb)'
  BY <1>1, <1>4 DEF BoxOK
<1>8. \A b \in Mb \ {mb} : exists'[b] = exists[b]
  BY <1>2, MailboxAssumption
<1> QED BY <1>5, <1>6, <1>7, <1>8, MbTouches

(* All that threads and interrupt handlers do with the mailbox mb.         *)
MbEnds(t, mb) ==
  \/ (MbRecvReturn(t) /\ call[t] = mb) \/ MbTimeIsUp(t, mb)
  \/ (CallFails(t, mb) \/ CallFails(t, Tx[mb])) /\ UNCHANGED mbVars

MbCalls(t, mb) ==
  \/ \E m \in Sends[t] : MbSend(t, mb, m) \/ \E n \in Timeouts \cup {left[t]} : MbSendWait(t, mb, m, n)
  \/ MbRecv(t, mb) \/ (\E n \in Timeouts \cup {left[t]} : MbRecvWait(t, mb, n))
  \/ MbReset(t, mb)

MbActs(mb) ==
  \/ \E t \in Thread : MbEnds(t, mb) \/ MbFlushSenders(t, mb) \/ MbFlushEnd(t, mb)
  \/ \E t \in Thread \ {Idle} : MbCalls(t, mb)
  \/ MbInit(Main, mb) \/ MbDetach(Main, mb) \/ \E m \in IsrSends : IsrMbSend(mb, m)

LEMMA MbOne == MailboxNext => \E mb \in Mb : MbActs(mb)
<1> SUFFICES ASSUME MailboxNext PROVE \E mb \in Mb : MbActs(mb)
  OBVIOUS
<1>1. CASE \E t \in Thread : InMbCall(t)
  <2>1. PICK t \in Thread : InMbCall(t)
    BY <1>1
  <2>2. CASE MbRecvReturn(t)
    <3>1. call[t] \in Mb
      BY <2>2 DEF MbRecvReturn
    <3> QED BY <2>2, <3>1 DEF MbActs, MbEnds
  <2>3. CASE ~MbRecvReturn(t)
    BY <2>1, <2>3 DEF InMbCall, MbActs, MbEnds
  <2> QED BY <2>2, <2>3
<1>2. CASE \E t \in Thread \ {Idle} : MbCall(t)
  BY <1>2 DEF MbCall, MbActs, MbCalls
<1>3. CASE \E mb \in Mb : MbInit(Main, mb) \/ MbDetach(Main, mb) \/ \E m \in IsrSends : IsrMbSend(mb, m)
  BY <1>3 DEF MbActs
<1> QED BY <1>1, <1>2, <1>3 DEF MailboxNext

LEMMA MbActsStep ==
  ASSUME CoreInv, LeftOK, MbInv, Guarded, exists \in [Obj -> BOOLEAN], NEW mb \in Mb, MbActs(mb)
  PROVE  MbDoes(mb) /\ exists' \in [Obj -> BOOLEAN] /\ \A o \in Obj \ {mb} : exists'[o] = exists[o]
<1>0. Main \in Thread \ {Idle}
  BY KernelAssumption DEF Prio
<1>1. CASE \E t \in Thread : MbEnds(t, mb) \/ MbFlushSenders(t, mb) \/ MbFlushEnd(t, mb)
  <2>1. PICK t \in Thread : MbEnds(t, mb) \/ MbFlushSenders(t, mb) \/ MbFlushEnd(t, mb)
    BY <1>1
  <2>2. MbDoes(mb)
    BY <2>1, MbEndStep, MbDetachStep DEF MbEnds
  <2>3. mb \in Obj /\ (UNCHANGED exists \/ exists' = [exists EXCEPT ![mb] = FALSE])
    BY <2>1, BoxLists DEF MbEnds, MbRecvReturn, CallFails, MbTimeIsUp, MbFlushSenders, MbFlushEnd
  <2> QED BY <2>2, <2>3
<1>2. CASE \E t \in Thread \ {Idle} : MbCalls(t, mb)
  <2>1. PICK t \in Thread \ {Idle} : MbCalls(t, mb)
    BY <1>2
  <2>2. CASE \E m \in Sends[t], n \in Timeouts \cup {left[t]} : MbSendWait(t, mb, m, n)
    <3>1. PICK m \in Sends[t], n \in Timeouts \cup {left[t]} : MbSendWait(t, mb, m, n)
      BY <2>2
    <3>2. /\ exists[mb] /\ entry[mb] = Size /\ (MayBlock(t) \/ Retrying(t, Tx[mb]))
          /\ WaitFor(t, Tx[mb], MbFlag[mb], n) /\ UNCHANGED <<exists, mbVars>> /\ Tx[mb] # mb
      BY <3>1, BoxLists DEF MbSendWait
    <3> QED BY <3>2, MbWaitStep
  <2>3. CASE \E n \in Timeouts \cup {left[t]} : MbRecvWait(t, mb, n)
    <3>1. PICK n \in Timeouts \cup {left[t]} : MbRecvWait(t, mb, n)
      BY <2>3
    <3>2. /\ exists[mb] /\ entry[mb] = 0 /\ (MayBlock(t) \/ Retrying(t, mb))
          /\ WaitFor(t, mb, MbFlag[mb], n) /\ UNCHANGED <<exists, mbVars>> /\ Tx[mb] # mb
      BY <3>1, BoxLists DEF MbRecvWait
    <3> QED BY <3>2, MbWaitStep
  <2>4. CASE (\E m \in Sends[t] : MbSend(t, mb, m)) \/ MbRecv(t, mb) \/ MbReset(t, mb)
    <3>1. MbDoes(mb)
      BY <2>4, MbSendStep, MbRecvStep, MbResetStep
    <3>2. UNCHANGED exists
      BY <2>4 DEF MbSend, MbRecv, MbReset
    <3> QED BY <3>1, <3>2
  <2> QED BY <2>1, <2>2, <2>3, <2>4 DEF MbCalls
<1>3. CASE MbInit(Main, mb) \/ MbDetach(Main, mb) \/ \E m \in IsrSends : IsrMbSend(mb, m)
  <2>1. MbDoes(mb)
    BY <1>0, <1>3, MbInitStep, MbDetachStep, IsrMbSendStep
  <2>2. mb \in Obj /\ (UNCHANGED exists \/ exists' = [exists EXCEPT ![mb] = TRUE])
    BY <1>3, BoxLists DEF MbInit, MbDetach, IsrMbSend, ObjectInit, Detach
  <2> QED BY <2>1, <2>2
<1> QED BY <1>1, <1>2, <1>3 DEF MbActs

LEMMA MbStep ==
  ASSUME CoreInv, LeftOK, MbInv, Guarded, exists \in [Obj -> BOOLEAN], MailboxNext
  PROVE  /\ Does(MbLists) /\ MbInv'
         /\ exists' \in [Obj -> BOOLEAN] /\ \A o \in Obj \ MbLists : exists'[o] = exists[o]
<1>1. PICK mb \in Mb : MbActs(mb)
  BY MbOne
<1>2. MbDoes(mb) /\ exists' \in [Obj -> BOOLEAN] /\ \A o \in Obj \ {mb} : exists'[o] = exists[o]
  BY <1>1, MbActsStep
<1>3. mb \in MbLists /\ Tx[mb] \in MbLists
  BY BoxLists
<1>4. Does(MbLists)
  BY <1>2, <1>3 DEF MbDoes, Does
<1> QED BY <1>2, <1>3, <1>4 DEF MbDoes

(***************************************************************************)
(* Message queues: nobody is forgotten who waits to receive.               *)
(***************************************************************************)
MqOK(q) ==
  /\ ~exists[q] => waitq[q] = <<>>
  /\ waitq[q] # <<>> => count[q] <= Cardinality(OnTheWay(q))

MqInv == count \in [Mq -> Nat] /\ \A q \in Mq : MqOK(q)

LEMMA MqLists ==
  ASSUME NEW q \in Mq
  PROVE  /\ q \in Obj /\ q \notin Ev \cup Cp \cup MbLists \cup DqLists /\ q # "none" /\ q \in Call
BY MessageQueueAssumption, ObjectsAssumption, KernelAssumption DEF Call, DqLists, MbLists

MqDoes == Does(Mq) /\ MqInv'

(* A step on the queue q that serves those who wait there.                 *)
LEMMA MqTouches ==
  ASSUME CoreInv, MqInv, count' \in [Mq -> Nat], NEW q \in Mq, Does({q}), MqOK(q)',
         \A r \in Mq \ {q} : count'[r] = count[r] /\ exists'[r] = exists[r]
  PROVE  MqDoes
<1>1. Does(Mq) /\ CoreInv'
  BY DEF Does
<1>2. ASSUME NEW r \in Mq \ {q} PROVE MqOK(r)'
  <2>1. r \in Obj /\ Apart(r) /\ MqOK(r) /\ count[r] \in Nat
    BY MqLists DEF Does, MqInv
  <2>2. OnTheWay(r) \subseteq OnTheWay(r)' /\ Range(waitq'[r]) \subseteq Range(waitq[r])
    BY <2>1, ApartWay DEF Apart
  <2>3. PICK n \in Int : n = count[r] /\ n <= n
    BY <2>1
  <2>4. waitq'[r] # <<>> => n <= Cardinality(OnTheWay(r)')
    BY <1>1, <2>1, <2>2, <2>3, WayServes DEF MqOK
  <2>5. waitq[r] = <<>> => waitq'[r] = <<>>
    BY <1>1, <2>1, <2>2, StaysEmpty
  <2> QED BY <2>1, <2>3, <2>4, <2>5 DEF MqOK
<1> QED BY <1>1, <1>2 DEF MqDoes, MqInv

LEMMA MqServed ==
  ASSUME CoreInv, CoreInv', MqInv, count' \in [Mq -> Nat], NEW q \in Mq, Does({q}),
         \A r \in Mq \ {q} : count'[r] = count[r], UNCHANGED exists,
         Range(waitq'[q]) \subseteq Range(waitq[q]), NEW n, n = count[q], NEW m, m = count'[q], Attends(q, n, m)
  PROVE  MqDoes
<1>1. n \in Int /\ m \in Int /\ MqOK(q) /\ q \in Obj
  BY MqLists DEF MqInv
<1>2. waitq'[q] # <<>> => m <= Cardinality(OnTheWay(q)')
  <2>1. waitq[q] # <<>> => n <= Cardinality(OnTheWay(q))
    BY <1>1 DEF MqOK
  <2> QED BY <1>1, <2>1, WayServes DEF Attends
<1>3. waitq[q] = <<>> => waitq'[q] = <<>>
  BY <1>1, StaysEmpty
<1>4. MqOK(q)'
  BY <1>1, <1>2, <1>3 DEF MqOK
<1> QED BY <1>4, MqTouches

(* The thread takes a message from a list, or puts it back: no list of     *)
(* threads changes.                                                        *)
LEMMA MqMoveStep ==
  ASSUME CoreInv, LeftOK, MqInv, CoreInv', NEW q \in Mq, NEW t \in Thread, Steps(t, {}),
         call[t] \in {"none", q}, \A o \in Obj : ~InWait(t, o)',
         \A x \in Thread \ {t} : UNCHANGED left[x], left' \in [Thread -> Forever .. MaxTime], left'[t] = 0,
         UNCHANGED exists,
         \/ UNCHANGED count /\ (t \notin OnTheWay(q) \/ count[q] = 0)
         \/ count[q] > 0 /\ count' = [count EXCEPT ![q] = @ - 1]
  PROVE  MqDoes
<1>1. q \in Obj /\ MqOK(q) /\ count \in [Mq -> Nat]
  BY MqLists DEF MqInv
<1>2. Does({q})
  <2>1. PICK w : w = {} /\ Steps(t, w)
    OBVIOUS
  <2>2. \A x \in w : call[x] \in {q}
    BY <2>1
  <2>3. call[t] \notin Obj \ {q}
    BY CoreView
  <2> QED BY <2>1, <2>2, <2>3, MovingDoes
<1>3. PICK n \in Nat : n = count[q]
  BY <1>1
<1>4. OnTheWay(q) \ {t} \subseteq OnTheWay(q)' /\ (t \notin OnTheWay(q) => OnTheWay(q) \subseteq OnTheWay(q)')
  BY <1>1, WayMoves
<1>5. Range(waitq'[q]) \subseteq Range(waitq[q])
  BY <1>1 DEF Steps
<1>6. CASE UNCHANGED count /\ (t \notin OnTheWay(q) \/ count[q] = 0)
  <2>1. Attends(q, n, n)
    <3>1. n <= n /\ (n = 0 => n <= 0)
      BY <1>3
    <3> QED BY <1>3, <1>4, <1>6, <3>1 DEF Attends
  <2> QED BY <1>1, <1>2, <1>3, <1>5, <1>6, <2>1, MqServed
<1>7. CASE count[q] > 0 /\ count' = [count EXCEPT ![q] = @ - 1]
  <2>1. n - 1 \in Nat /\ n - 1 <= n - 1 /\ count' = [count EXCEPT ![q] = n - 1]
    BY <1>3, <1>7
  <2>2. Attends(q, n, n - 1)
    BY <1>4, <2>1 DEF Attends
  <2>3. count' \in [Mq -> Nat] /\ count'[q] = n - 1 /\ \A r \in Mq \ {q} : count'[r] = count[r]
    BY <1>1, <2>1
  <2> QED BY <1>2, <1>3, <1>5, <2>2, <2>3, MqServed
<1> QED BY <1>6, <1>7

(* rt_mq_send, rt_mq_urgent and rt_mq_recv, from their first steps to      *)
(* their last, but for those that wake a thread.                           *)
LEMMA MqCallStep ==
  ASSUME CoreInv, LeftOK, MqInv, NEW t \in Thread, NEW q \in Mq,
         \/ \E m, how : MqAlloc(t, q, m, how) /\ t # Idle
         \/ MqUnlink(t, q) /\ t # Idle
         \/ MqFree(t, q) \/ MqTimeIsUp(t, q) \/ (CallFails(t, q) /\ UNCHANGED mqVars)
  PROVE  MqDoes
<1> USE DEF MqAlloc, MqUnlink, MqFree, MqTimeIsUp, CallFails, EndCall, InUser, Retrying, At, Running, Goto, mqVars
<1>1. /\ "none" \in Call /\ q \in Call /\ call[t] \in {"none", q} /\ current = t /\ pc[t] \in {"run", "blocked", "got"}
      /\ pc[Idle] = "run" /\ (call[t] = "none" <=> pc[t] = "run")
  BY CoreView, MqLists DEF CoreInv, WaitInv, PlaceOK, Call
<1>2. PICK l \in {"run", "got"}, k \in {"none", q} : /\ k = IF l = "run" THEN "none" ELSE q
                                     /\ pc' = [pc EXCEPT ![t] = l] /\ call' = [call EXCEPT ![t] = k]
  OBVIOUS
<1>3. t # Idle
  BY <1>1
<1>4. Goes(t, l, k)
  BY <1>1, <1>2, <1>3 DEF Goes
<1>5. /\ UNCHANGED <<queueVars, threadVars, arg, current, nest, due, lag, exists>>
      /\ left' = [left EXCEPT ![t] = 0] \/ (UNCHANGED left /\ pc[t] = "run")
  OBVIOUS
<1>6. \/ UNCHANGED count /\ (pc[t] \notin {"sched", "blocked"} \/ err[t] # "EOK" \/ count[q] = 0)
      \/ count[q] > 0 /\ count' = [count EXCEPT ![q] = @ - 1]
  OBVIOUS
<1> HIDE DEF MqAlloc, MqUnlink, MqFree, MqTimeIsUp, CallFails, EndCall, InUser, Retrying, At, Running, Goto, mqVars
<1>7. CoreInv' /\ Steps(t, {}) /\ \A o \in Obj : ~InWait(t, o)'
  BY <1>4, <1>5, MoveAct, GoesNowhere
<1>8. (\A x \in Thread \ {t} : UNCHANGED left[x]) /\ left' \in [Thread -> Forever .. MaxTime] /\ left'[t] = 0
  <2>1. left \in [Thread -> Forever .. MaxTime] /\ 0 \in Forever .. MaxTime
    BY KernelAssumption DEF LeftOK, Forever
  <2>2. pc[t] = "run" => left[t] = 0
    BY NoTimeLeft
  <2> QED BY <1>5, <2>1, <2>2
<1>9. \/ UNCHANGED count /\ (t \notin OnTheWay(q) \/ count[q] = 0)
      \/ count[q] > 0 /\ count' = [count EXCEPT ![q] = @ - 1]
  BY <1>6 DEF OnTheWay
<1> QED BY <1>1, <1>5, <1>7, <1>8, <1>9, MqMoveStep

(* The message is in the queue, and has a thread on its way to take it.    *)
LEMMA MqLinkedStep ==
  ASSUME CoreInv, LeftOK, MqInv, CoreInv', NEW q \in Mq, count' = [count EXCEPT ![q] = @ + 1],
         UNCHANGED exists, NEW t \in Thread, Steps(t, Woken(q)), UNCHANGED err,
         \/ UNCHANGED <<pc[t], call[t], left[t]>>
         \/ left'[t] = 0 /\ call[t] = q /\ pc[t] = "got" /\ \A o \in Obj : ~InWait(t, o)',
         \A x \in Thread \ {t} : UNCHANGED left[x], left' \in [Thread -> Forever .. MaxTime]
  PROVE  MqDoes
<1>1. q \in Obj /\ count \in [Mq -> Nat]
  BY MqLists DEF MqInv
<1>2. PICK n \in Nat : n = count[q]
  BY <1>1
<1>3. count' \in [Mq -> Nat] /\ count'[q] = n + 1 /\ \A r \in Mq \ {q} : count'[r] = count[r]
  BY <1>1, <1>2
<1>4. Does({q})
  <2>1. \A x \in Woken(q) : call[x] \in {q}
    BY <1>1, WokenFacts
  <2>2. \/ UNCHANGED <<pc[t], call[t], left[t]>>
        \/ left'[t] = 0 /\ call[t] \notin Obj \ {q} /\ \A o \in Obj : ~InWait(t, o)'
    OBVIOUS
  <2> QED BY <2>1, <2>2, MovingDoes
<1>5. Attends(q, n, n + 1)
  <2>1. t \notin OnTheWay(q) \/ UNCHANGED <<pc[t], call[t]>>
    BY DEF OnTheWay
  <2>2. OnTheWay(q) \subseteq OnTheWay(q)'
    BY <1>1, <2>1, WayMoves
  <2>3. ~InWait(t, q) \/ UNCHANGED <<pc[t], call[t]>>
    BY DEF InWait
  <2>4. waitq[q] # <<>> => \E u \in OnTheWay(q)' : u \notin OnTheWay(q)
    BY <1>1, <2>3, WayWoken
  <2>5. n + 1 <= n + 1
    BY <1>2
  <2> QED BY <2>2, <2>4, <2>5 DEF Attends
<1>6. Range(waitq'[q]) \subseteq Range(waitq[q])
  BY <1>1 DEF Steps
<1> QED BY <1>2, <1>3, <1>4, <1>5, <1>6, MqServed

LEMMA MqLinkStep ==
  ASSUME CoreInv, LeftOK, MqInv, NEW t \in Thread, NEW q \in Mq, MqLink(t, q)
  PROVE  MqDoes
<1> USE DEF MqLink, EndCall, Goto
<1>1. /\ call[t] = q /\ current = t /\ due = {} /\ pc[t] = "got" /\ "none" \in Call /\ t # Idle /\ q \in Obj
  BY CoreView, MqLists DEF At, Running, Call
<1>2. PICK l : l = IF waitq[q] # <<>> THEN "sched" ELSE "run"
  OBVIOUS
<1>3. Goes(t, l, "none")
  BY <1>1, <1>2 DEF Goes
<1>4. IF waitq[q] # <<>> THEN (UNCHANGED lag /\ l = "sched") \/ lag' = TRUE ELSE UNCHANGED lag
  BY <1>2
<1>5. WakeOne(q) /\ UNCHANGED <<defunct, prio, err, slice, arg, current, nest, due>>
  OBVIOUS
<1>6. CoreInv' /\ Steps(t, Woken(q)) /\ \A o \in Obj : ~InWait(t, o)'
  BY <1>1, <1>3, <1>4, <1>5, WakeOneAct, GoesNowhere
<1>7. (\A x \in Thread \ {t} : UNCHANGED left[x]) /\ left' \in [Thread -> Forever .. MaxTime] /\ left'[t] = 0
  <2>1. left \in [Thread -> Forever .. MaxTime] /\ 0 \in Forever .. MaxTime
    BY KernelAssumption DEF LeftOK, Forever
  <2> QED BY <2>1
<1>8. count' = [count EXCEPT ![q] = @ + 1] /\ UNCHANGED <<exists, err>>
  BY DEF Link
<1> HIDE DEF MqLink, EndCall, Goto
<1> QED BY <1>1, <1>6, <1>7, <1>8, MqLinkedStep

(* ... called from an interrupt handler.                                   *)
LEMMA IsrMqSendStep ==
  ASSUME CoreInv, LeftOK, MqInv, Guarded, NEW q \in Mq, NEW m, IsrMqSend(q, m)
  PROVE  MqDoes
<1> USE DEF IsrMqSend
<1>1. IrqEnabled /\ WakeOne(q) /\ IsrSchedule(waitq[q] # <<>>) /\ q \in Obj
      /\ UNCHANGED <<defunct, prio, err, slice, callVars, nest, due>>
  BY MqLists
<1>2. \A x \in Thread : Flushing(x) => call[x] # q
  BY DEF Flushing
<1>3. CoreInv' /\ Steps(current, Woken(q)) /\ current \in Thread /\ UNCHANGED <<pc, call, err>>
  BY <1>1, <1>2, WakeOneIsr
<1>4. UNCHANGED left /\ left' \in [Thread -> Forever .. MaxTime]
  BY DEF ipcCallVars, LeftOK
<1>5. count' = [count EXCEPT ![q] = @ + 1] /\ UNCHANGED <<exists, err>>
  BY DEF Link
<1> QED BY <1>3, <1>4, <1>5, MqLinkedStep

LEMMA MqRecvWaitStep ==
  ASSUME CoreInv, LeftOK, MqInv, NEW t \in Thread, NEW q \in Mq, NEW n \in Timeouts \cup {left[t]},
         MqRecvWait(t, q, n)
  PROVE  MqDoes
<1>1. /\ exists[q] /\ count[q] = 0 /\ (MayBlock(t) \/ Retrying(t, q))
      /\ WaitFor(t, q, MqFlag[q], n) /\ UNCHANGED <<exists, count>>
  BY DEF MqRecvWait, mqVars
<1>2. Does({q})
  BY <1>1, WaitingDoes
<1>3. MqOK(q)'
  <2>1. Cardinality(OnTheWay(q)') \in Nat
    <3>1. OnTheWay(q)' \subseteq Thread /\ IsFiniteSet(Thread)
      BY CallAssumption DEF OnTheWay
    <3> QED BY <3>1, FS_Subset, FS_CardinalityType
  <2> QED BY <1>1, <2>1 DEF MqOK
<1> QED BY <1>1, <1>2, <1>3, MqTouches DEF MqInv

(* RT_IPC_CMD_RESET leaves an empty queue at which nobody waits. *)
LEMMA MqResetStep ==
  ASSUME CoreInv, LeftOK, MqInv, NEW t \in Thread \ {Idle}, NEW q \in Mq, MqReset(t, q)
  PROVE  MqDoes
<1>1. /\ InUser(t) /\ WakeAllWithError(waitq[q]) /\ Goto(t, "sched") /\ count' = [count EXCEPT ![q] = 0]
      /\ UNCHANGED <<defunct, prio, slice, call, arg, current, nest, due, lag, exists, left>>
  BY DEF MqReset, ipcCallVars
<1> USE DEF InUser, Running, Goto, WakeAllWithError
<1>2. /\ "none" \in Call /\ call[t] = "none" /\ q \in Obj /\ due = {}
      /\ call' = [call EXCEPT ![t] = "none"]
  BY <1>1, CoreView, MqLists DEF CoreInv, WaitInv, PlaceOK, Call
<1>3. Goes(t, "sched", "none")
  BY <1>1, <1>2 DEF Goes
<1>4. PICK woken : woken = waitq[q]
  OBVIOUS
<1>5. woken \in Seq(Thread) /\ IsInjective(woken)
  BY <1>2, <1>4, CoreView DEF KernelInv, ListsConsistent
<1>6. WakeEach(woken) /\ err' = [x \in Thread |-> IF x \in Range(woken) THEN "ERROR" ELSE err[x]]
  BY <1>1, <1>4
<1>7. err' \in [Thread -> Err] /\ \A x \in Thread \ Range(woken) : UNCHANGED err[x]
  BY <1>6, CoreView DEF Err
<1> HIDE DEF InUser, Running, Goto, WakeAllWithError
<1>8. /\ CoreInv' /\ Steps(t, Range(woken)) /\ \A o \in Obj : ~InWait(t, o)'
      /\ \A x \in Obj : Range(waitq'[x]) = Range(waitq[x]) \ Range(woken)
  <2>1. OnLists(Range(woken))
    BY <1>2, <1>4 DEF OnLists
  <2>2. CoreInv' /\ Steps(t, Range(woken)) /\ \A x \in Obj : Range(waitq'[x]) = Range(waitq[x]) \ Range(woken)
    BY <1>1, <1>2, <1>3, <1>5, <1>6, <1>7, <2>1, WakeEachAct
  <2> QED BY <1>3, <2>2, GoesNowhere
<1>9. left' \in [Thread -> Forever .. MaxTime] /\ left'[t] = 0
  BY <1>1, NoTimeLeft DEF InUser, LeftOK
<1>10. Does({q})
  <2>1. \A x \in Range(woken) : call[x] \in {q}
    BY <1>2, <1>4, CoreView
  <2>2. call[t] \notin Obj \ {q}
    BY <1>2, CoreView
  <2> QED BY <1>1, <1>8, <1>9, <2>1, <2>2, MovingDoes
<1>11. waitq'[q] = <<>>
  <2>1. Range(waitq'[q]) = {}
    BY <1>2, <1>4, <1>8
  <2>2. waitq'[q] \in Seq(Thread)
    BY <1>2, <1>8 DEF CoreInv, WaitInv, KernelInv, KernelTypeOK
  <2> QED BY <2>1, <2>2, HeadRange
<1>12. MqOK(q)'
  BY <1>11 DEF MqOK
<1>13. count' \in [Mq -> Nat] /\ \A r \in Mq \ {q} : count'[r] = count[r]
  BY <1>1 DEF MqInv
<1> QED BY <1>1, <1>10, <1>12, <1>13, MqTouches

(* rt_mq_detach begins, and ends.                                          *)
LEMMA MqDetachStep ==
  ASSUME CoreInv, LeftOK, MqInv, Guarded, NEW q \in Mq, NEW t \in Thread, exists \in [Obj -> BOOLEAN],
         (MqDetach(t, q) /\ t # Idle) \/ MqFlushEnd(t, q)
  PROVE  MqDoes
<1>1. /\ q \in Obj /\ UNCHANGED left /\ left \in [Thread -> Forever .. MaxTime]
  BY MqLists DEF MqDetach, MqFlushEnd, ipcCallVars, LeftOK
<1>2. CASE MqDetach(t, q) /\ t # Idle
  <2>1. Detach(t, q) /\ UNCHANGED count
    BY <1>2 DEF MqDetach, mqVars
  <2>2. FlushAt(q)
    BY DEF FlushAt
  <2>3. CoreInv' /\ UNCHANGED <<waitq, exists>> /\ Steps(t, {}) /\ call[t] = "none" /\ pc[t] = "run" /\ pc'[t] = "flush"
    BY <1>1, <1>2, <2>1, <2>2, DetachAct
  <2>4. left[t] = 0 /\ t \notin OnTheWay(q) /\ \A o \in Obj : ~InWait(t, o)'
    BY <2>3, NoTimeLeft DEF OnTheWay, InWait
  <2>5. (\A x \in Thread \ {t} : UNCHANGED left[x]) /\ left' \in [Thread -> Forever .. MaxTime] /\ left'[t] = 0
    BY <1>1, <2>4
  <2> QED BY <2>1, <2>3, <2>4, <2>5, MqMoveStep
<1>3. CASE MqFlushEnd(t, q)
  <2>1. FlushEnd(t) /\ call[t] = q /\ count' = [count EXCEPT ![q] = 0]
    BY <1>3 DEF MqFlushEnd, Fresh
  <2>2. CoreInv' /\ UNCHANGED waitq
    BY <2>1, FlushEndAct
  <2>3. /\ pc[t] = "flush" /\ pc'[t] = "run" /\ waitq[q] = <<>> /\ exists' = [exists EXCEPT ![q] = FALSE]
        /\ UNCHANGED <<stat, err, timer, due>>
        /\ \A x \in Thread \ {t} : UNCHANGED <<pc[x], call[x]>>
    BY <2>1, CoreView DEF FlushEnd, At, Goto, threadVars
  <2>4. Steps(t, {})
    BY <2>2, <2>3, CoreView DEF Steps
  <2>5. left'[t] = 0 /\ \A o \in Obj : ~InWait(t, o)'
    BY <1>1, <2>3, NoTimeLeft DEF InWait
  <2>6. Does({q})
    <3>1. PICK w : w = {} /\ Steps(t, w)
      BY <2>4
    <3>2. \A x \in w : call[x] \in {q}
      BY <3>1
    <3> QED BY <1>1, <2>1, <2>2, <2>5, <3>1, <3>2, MovingDoes
  <2>7. MqOK(q)'
    BY <2>2, <2>3 DEF MqOK
  <2>8. count' \in [Mq -> Nat] /\ \A r \in Mq \ {q} : count'[r] = count[r] /\ exists'[r] = exists[r]
    BY <2>1, <2>3, MessageQueueAssumption DEF MqInv
  <2> QED BY <2>6, <2>7, <2>8, MqTouches
<1> QED BY <1>2, <1>3

LEMMA MqInitStep ==
  ASSUME CoreInv, LeftOK, MqInv, exists \in [Obj -> BOOLEAN], NEW q \in Mq, MqInit(Main, q)
  PROVE  MqDoes
<1>1. /\ q \in Obj /\ Main \in Thread /\ ObjectInit(Main, q) /\ waitq[q] = <<>> /\ UNCHANGED left
      /\ count' = [count EXCEPT ![q] = 0]
  BY MqLists, KernelAssumption DEF MqInv, MqOK, ObjectInit, MqInit, ipcCallVars, Fresh
<1>2. CoreInv' /\ UNCHANGED kernelVars /\ \A x \in Obj \ {q} : exists'[x] = exists[x]
  BY <1>1, InitAct
<1>3. \A o \in Obj : Apart(o)
  BY <1>2, ApartSame
<1>4. UNCHANGED <<waitq, pc, call, left>>
  BY <1>1, <1>2 DEF kernelVars, queueVars, threadVars, callVars
<1>5. Does({q})
  <2>1. LeftOK'
    BY <1>4 DEF LeftOK, InWait
  <2> QED BY <1>2, <1>3, <1>4, <2>1 DEF Does
<1>6. MqOK(q)'
  BY <1>1, <1>4 DEF MqOK
<1>7. count' \in [Mq -> Nat] /\ \A r \in Mq \ {q} : count'[r] = count[r] /\ exists'[r] = exists[r]
  BY <1>1, <1>2, MessageQueueAssumption DEF MqInv
<1> QED BY <1>5, <1>6, <1>7, MqTouches

(* All that threads and interrupt handlers do with message queues. *)
LEMMA MqStep ==
  ASSUME CoreInv, LeftOK, MqInv, Guarded, exists \in [Obj -> BOOLEAN], MessageQueueNext
  PROVE  MqDoes /\ exists' \in [Obj -> BOOLEAN] /\ \A o \in Obj \ Mq : exists'[o] = exists[o]
<1>0. Main \in Thread \ {Idle}
  BY KernelAssumption DEF Prio
<1>1. CASE \E t \in Thread \ {Idle} : MqCall(t)
  <2>1. PICK t \in Thread \ {Idle}, q \in Mq :
          \/ \E m \in Sends[t], how \in {"send", "urgent"} : MqAlloc(t, q, m, how)
          \/ MqUnlink(t, q) \/ (\E n \in Timeouts \cup {left[t]} : MqRecvWait(t, q, n))
          \/ MqReset(t, q)
    BY <1>1 DEF MqCall
  <2>2. CASE (\E m \in Sends[t], how \in {"send", "urgent"} : MqAlloc(t, q, m, how)) \/ MqUnlink(t, q)
    <3>1. MqDoes
      BY <2>2, MqCallStep
    <3>2. UNCHANGED exists
      BY <2>2 DEF MqAlloc, MqUnlink
    <3> QED BY <3>1, <3>2
  <2>3. CASE (\E n \in Timeouts \cup {left[t]} : MqRecvWait(t, q, n)) \/ MqReset(t, q)
    <3>1. MqDoes
      BY <2>3, MqRecvWaitStep, MqResetStep
    <3>2. UNCHANGED exists
      BY <2>3 DEF MqRecvWait, MqReset
    <3> QED BY <3>1, <3>2
  <2> QED BY <2>1, <2>2, <2>3
<1>2. CASE \/ \E t \in Thread, q \in Mq : MqLink(t, q) \/ MqFree(t, q) \/ MqTimeIsUp(t, q)
           \/ (\E t \in Thread, q \in Mq : CallFails(t, q)) /\ UNCHANGED mqVars
  <2>1. MqDoes
    BY <1>2, MqLinkStep, MqCallStep
  <2>2. UNCHANGED exists
    BY <1>2 DEF MqLink, MqFree, MqTimeIsUp, CallFails
  <2> QED BY <2>1, <2>2
<1>3. CASE \E t \in Thread, q \in Mq : MqFlushEnd(t, q)
  <2>1. PICK t \in Thread, q \in Mq : MqFlushEnd(t, q)
    BY <1>3
  <2>2. MqDoes
    BY <2>1, MqDetachStep
  <2>3. q \in Obj /\ exists' = [exists EXCEPT ![q] = FALSE]
    BY <2>1, MqLists DEF MqFlushEnd, FlushEnd
  <2> QED BY <2>2, <2>3
<1>4. CASE \E q \in Mq : MqInit(Main, q) \/ MqDetach(Main, q) \/ \E m \in IsrSends : IsrMqSend(q, m)
  <2>1. PICK q \in Mq : MqInit(Main, q) \/ MqDetach(Main, q) \/ \E m \in IsrSends : IsrMqSend(q, m)
    BY <1>4
  <2>2. MqDoes
    BY <1>0, <2>1, MqInitStep, MqDetachStep, IsrMqSendStep
  <2>3. q \in Obj /\ (UNCHANGED exists \/ exists' = [exists EXCEPT ![q] = TRUE])
    BY <2>1, MqLists DEF MqInit, MqDetach, IsrMqSend, ObjectInit, Detach
  <2> QED BY <2>2, <2>3
<1> QED BY <1>1, <1>2, <1>3, <1>4 DEF MessageQueueNext

(***************************************************************************)
(* Beside each other: what an object keeps while the kernel goes on, or    *)
(* the objects of another kind are worked on.                              *)
(***************************************************************************)
LEMMA LeftCalm ==
  ASSUME LeftOK, Calm, left' \in [Thread -> Forever .. MaxTime],
         \A x \in Thread : left'[x] = left[x] \/ left'[x] = CountDown(left[x])
  PROVE  LeftOK'
<1> SUFFICES ASSUME NEW x \in Thread, left'[x] # 0
             PROVE  \E o \in MbLists \cup Mq \cup DqLists : InWait(x, o)'
  BY DEF LeftOK
<1>1. left[x] # 0
  BY DEF CountDown
<1>2. PICK o \in MbLists \cup Mq \cup DqLists : InWait(x, o)
  BY <1>1 DEF LeftOK
<1>3. o \in Obj
  BY CallLists
<1>4. InWait(x, o)'
  BY <1>2, <1>3 DEF Calm
<1> QED BY <1>4

(* The others' steps leave the timeouts alone.                             *)
LEMMA LeftBeside ==
  ASSUME LeftOK, UNCHANGED left, \A o \in MbLists \cup Mq \cup DqLists : Apart(o)
  PROVE  LeftOK'
<1> SUFFICES ASSUME NEW x \in Thread, left'[x] # 0
             PROVE  \E o \in MbLists \cup Mq \cup DqLists : InWait(x, o)'
  BY DEF LeftOK
<1>1. PICK o \in MbLists \cup Mq \cup DqLists : InWait(x, o)
  BY DEF LeftOK
<1>2. InWait(x, o)'
  BY <1>1 DEF Apart
<1> QED BY <1>2

LEMMA DqCalm ==
  ASSUME CoreInv, CoreInv', LeftOK, DqInv, Calm, UNCHANGED <<exists, dqVars>>,
         left' \in [Thread -> Forever .. MaxTime],
         \A x \in Thread : left'[x] = left[x] \/ left'[x] = CountDown(left[x])
  PROVE  DqInv'
<1> USE DEF dqVars
<1>1. ASSUME NEW q \in Dq PROVE QueueOK(q)'
  <2>1. OnTheWay(q) \subseteq OnTheWay(q)' /\ \A o \in {q, PushList[q]} : Range(waitq'[o]) \subseteq Range(waitq[o])
    BY CalmWay, QueueLists DEF Calm
  <2>2. QueueOK(q) /\ (Patient => MarkOK(q))
    BY DEF DqInv, QueueOK
  <2>3. ASSUME NEW x \in Range(waitq[PushList[q]]), timer[x] = 0, x \notin due
        PROVE  x \in Range(waitq'[PushList[q]]) /\ timer'[x] = 0 /\ x \notin due'
    <3>1. x \in Thread /\ PushersStay
      BY QueueLists, CoreView DEF Calm
    <3> QED BY <2>3, <3>1 DEF PushersStay
  <2>4. ASSUME Patient, NEW x \in Thread, InWait(x, PushList[q])'
        PROVE  InWait(x, PushList[q]) /\ left'[x] = left[x]
    <3>1. InWait(x, PushList[q])
      BY <2>4, QueueLists DEF Calm
    <3>2. left[x] = Forever
      BY <2>2, <2>4, <3>1 DEF MarkOK
    <3> QED BY <3>1, <3>2 DEF CountDown, Forever
  <2> QED BY <2>1, <2>2, <2>3, <2>4, QueueFrame
<1>2. DqShape'
  BY DEF DqInv, DqShape
<1> QED BY <1>1, <1>2 DEF DqInv

LEMMA DqBeside ==
  ASSUME CoreInv, CoreInv', DqInv, UNCHANGED dqVars, \A q \in Dq : exists[q] => exists'[q],
         \A o \in DqLists : Apart(o) /\ \A x \in Thread : InWait(x, o) => left'[x] = left[x]
  PROVE  DqInv'
<1> USE DEF dqVars
<1>1. ASSUME NEW q \in Dq PROVE QueueOK(q)'
  <2>1. q \in DqLists /\ PushList[q] \in DqLists
    BY QueueLists
  <2>2. QueueOK(q)
    BY DEF DqInv
  <2> QED BY <2>1, <2>2, QueueApart
<1>2. DqShape'
  BY DEF DqInv, DqShape
<1> QED BY <1>1, <1>2 DEF DqInv

(* Nothing is put into a mailbox or a message queue or taken from it, and  *)
(* nobody starts to wait.                                                  *)
LEMMA MbBeside ==
  ASSUME CoreInv, CoreInv', MbInv, UNCHANGED mbVars, \A mb \in Mb : exists'[mb] = exists[mb],
         \A o \in MbLists : OnTheWay(o) \subseteq OnTheWay(o)' /\ Range(waitq'[o]) \subseteq Range(waitq[o])
  PROVE  MbInv'
<1>1. MbShape /\ MbShape' /\ UNCHANGED entry
  BY DEF MbInv, MbShape, mbVars
<1>2. ASSUME NEW mb \in Mb PROVE BoxOK(mb)'
  <2>1. BoxOK(mb) /\ mb \in MbLists /\ Tx[mb] \in MbLists
    BY BoxLists DEF MbInv
  <2>2. PICK n \in 0 .. Size : n = entry[mb]
    BY <1>1 DEF MbShape
  <2>3. Size - n <= Size - n /\ n <= n
    BY <2>2, MailboxAssumption
  <2>4. Attends(mb, n, n) /\ Attends(Tx[mb], Size - n, Size - n)
    BY <2>1, <2>3 DEF Attends
  <2>5. exists'[mb] \/ (waitq'[mb] = <<>> /\ waitq'[Tx[mb]] = <<>>)
    BY <2>1, BoxLists, StaysEmpty DEF BoxOK
  <2>6. Range(waitq'[mb]) \subseteq Range(waitq[mb]) /\ Range(waitq'[Tx[mb]]) \subseteq Range(waitq[Tx[mb]])
    BY <2>1
  <2> QED BY <1>1, <2>1, <2>2, <2>4, <2>5, <2>6, BoxServed
<1> QED BY <1>1, <1>2 DEF MbInv

LEMMA MqBeside ==
  ASSUME CoreInv, CoreInv', MqInv, UNCHANGED count, \A q \in Mq : exists'[q] = exists[q],
         \A q \in Mq : OnTheWay(q) \subseteq OnTheWay(q)' /\ Range(waitq'[q]) \subseteq Range(waitq[q])
  PROVE  MqInv'
<1>1. ASSUME NEW q \in Mq PROVE MqOK(q)'
  <2>1. q \in Obj /\ MqOK(q)
    BY MqLists DEF MqInv
  <2>2. PICK n \in Int : n = count[q] /\ n <= n
    BY DEF MqInv
  <2>3. waitq'[q] # <<>> => n <= Cardinality(OnTheWay(q)')
    BY <2>1, <2>2, WayServes DEF MqOK
  <2>4. waitq[q] = <<>> => waitq'[q] = <<>>
    BY <2>1, StaysEmpty
  <2> QED BY <2>1, <2>2, <2>3, <2>4 DEF MqOK
<1> QED BY <1>1 DEF MqInv

LEMMA CpBeside ==
  ASSUME CoreInv, CoreInv', CpInv, UNCHANGED flag, \A c \in Cp : exists'[c] = exists[c],
         \A c \in Cp : Range(waitq'[c]) \subseteq Range(waitq[c])
  PROVE  CpInv'
<1>1. flag' \in [Cp -> BOOLEAN]
  BY DEF CpInv
<1> QED BY <1>1, CpFrame

LEMMA EvBeside ==
  ASSUME CoreInv, CoreInv', EvInv, UNCHANGED eventVars, \A e \in Ev : exists'[e] = exists[e],
         \A e \in Ev : Range(waitq'[e]) \subseteq Range(waitq[e])
  PROVE  EvInv'
<1>1. EventTypeOK'
  BY DEF EvInv, EventTypeOK, eventVars
<1> QED BY <1>1, EvFrame DEF eventVars

(***************************************************************************)
(* The inductive invariant.                                                *)
(***************************************************************************)
ObjectsInv ==
  CoreInv /\ exists \in [Obj -> BOOLEAN] /\ LeftOK /\ CpInv /\ EvInv /\ MbInv /\ MqInv /\ DqInv

LEMMA ObjectsInitInv == ObjectsInit => ObjectsInv
<1> SUFFICES ASSUME ObjectsInit PROVE ObjectsInv
  OBVIOUS
<1> USE DEF ObjectsInit, IpcCallInit, EventsInit, MailboxInit, MessageQueueInit, DataQueueInit, CompletionInit
<1>0. KernelInit
  OBVIOUS
<1>1. KernelInv
  BY <1>0, InitInv
<1>2. /\ waitq = [o \in Obj |-> <<>>] /\ pc = [t \in Thread |-> "run"]
      /\ call = [t \in Thread |-> "none"] /\ nest = 0 /\ Range(<<>>) = {}
      /\ "none" \notin Obj
      /\ \A t \in Thread : stat[t] \in {"INIT", "READY"}
  BY <1>0, KernelAssumption DEF KernelInit, Range
<1>3. CoreInv
  <2>1. WaitInv
    BY <1>1, <1>2 DEF WaitInv, FreshOK, PlaceOK, WaitPlace
  <2>2. FlushOK /\ FlushPlace
    BY <1>2 DEF FlushOK, FlushPlace, Flushing
  <2>3. CallerOK
    BY <1>2 DEF CallerOK, CallerPc
  <2>4. NestOK
    BY <1>2 DEF NestOK
  <2> QED BY <2>1, <2>2, <2>3, <2>4 DEF CoreInv
<1>4. \A o \in Obj : waitq[o] = <<>> /\ Range(waitq[o]) = {}
  BY <1>2
<1>5. CpInv
  BY <1>4, CompletionAssumption DEF CpInv, Gone, WaiterOnly, NobodyWaitsCompleted
<1>6. EvInv
  <2>1. EventTypeOK
    BY DEF EventTypeOK
  <2>2. Gone(Ev) /\ NobodyMissesFlags
    BY <1>4, EventAssumption DEF Gone, NobodyMissesFlags
  <2> QED BY <2>1, <2>2 DEF EvInv
<1>7. LeftOK
  <2>1. 0 \in Forever .. MaxTime
    BY KernelAssumption DEF Forever
  <2> QED BY <2>1 DEF LeftOK
<1>8. PICK none : none = [i \in 0 .. DqSize - 1 |-> Nothing]
  OBVIOUS
<1>9. none \in [0 .. DqSize - 1 -> Message \cup {Nothing}]
  BY <1>8
<1>10. items = [q \in Dq |-> none]
  BY <1>8
<1>11. DqShape
  BY <1>9, <1>10 DEF DqShape
<1>12. ASSUME NEW q \in Dq PROVE QueueOK(q)
  <2>1. /\ waitq[q] = <<>> /\ waitq[PushList[q]] = <<>> /\ Range(waitq[PushList[q]]) = {}
        /\ PushList[q] \in Obj
    BY <1>4, QueueLists
  <2>2. put_index[q] = 0 /\ get_index[q] = 0 /\ waiting_lwm[q] = FALSE
    OBVIOUS
  <2>3. RingOK(q)
    <3>1. MaxPuts \in Nat /\ DqSize \in Nat
      BY DataQueueAssumption
    <3>2. put_index[q] \in 0 .. MaxPuts /\ get_index[q] \in 0 .. put_index[q] /\ Length(q) <= DqSize
      BY <2>2, <3>1 DEF Length
    <3> QED BY <1>9, <1>10, <2>1, <2>2, <3>2 DEF RingOK
  <2>4. PopsOK(q) /\ PushesOK(q)
    BY <2>1 DEF PopsOK, PushesOK
  <2>5. MarkOK(q)
    BY <1>2, <2>1, <2>2 DEF MarkOK, InWait
  <2> QED BY <2>3, <2>4, <2>5 DEF QueueOK
<1>13. DqInv
  BY <1>11, <1>12 DEF DqInv
<1>14. exists \in [Obj -> BOOLEAN]
  OBVIOUS
<1>15. MbInv
  <2>1. PICK empty : empty = [i \in 0 .. Size - 1 |-> Nothing]
    OBVIOUS
  <2>2. empty \in [0 .. Size - 1 -> Message \cup {Nothing}] /\ 0 \in 0 .. Size - 1 /\ 0 \in 0 .. Size
    BY <2>1, MailboxAssumption
  <2>3. msg_pool = [mb \in Mb |-> empty]
    BY <2>1
  <2>4. MbShape
    BY <2>2, <2>3 DEF MbShape
  <2>5. \A mb \in Mb : BoxOK(mb)
    BY <1>4, BoxLists DEF BoxOK
  <2> QED BY <2>4, <2>5 DEF MbInv
<1>16. MqInv
  BY <1>4, MqLists DEF MqInv, MqOK
<1> QED BY <1>3, <1>5, <1>6, <1>7, <1>13, <1>14, <1>15, <1>16 DEF ObjectsInv

LEMMA KernelKeepsObjects ==
  ASSUME ObjectsInv, Guarded, IpcCallStep, UNCHANGED <<eventVars, mbVars, mqVars, dqVars, flag>>
  PROVE  ObjectsInv'
<1>1. CoreInv /\ LeftOK /\ CpInv /\ EvInv /\ MbInv /\ MqInv /\ DqInv /\ exists \in [Obj -> BOOLEAN]
  BY DEF ObjectsInv
<1>2. CoreInv' /\ Calm /\ UNCHANGED exists
  BY <1>1, IpcCallAct
<1>3. \A o \in Obj : Range(waitq'[o]) \subseteq Range(waitq[o]) /\ OnTheWay(o) \subseteq OnTheWay(o)'
  BY <1>2, CalmWay DEF Calm
<1>4. CpInv' /\ EvInv'
  BY <1>1, <1>2, <1>3, CpBeside, EvBeside, CompletionAssumption, EventAssumption
<1>5. left \in [Thread -> Forever .. MaxTime]
  BY <1>1 DEF LeftOK
<1>6. /\ left' \in [Thread -> Forever .. MaxTime]
      /\ \A x \in Thread : left'[x] = left[x] \/ left'[x] = CountDown(left[x])
  <2>1. CASE UNCHANGED left
    BY <1>5, <2>1
  <2>2. CASE TickCalls
    <3>1. left' = [t \in Thread |-> IF call[t] \in Restarting THEN left[t] ELSE CountDown(left[t])]
      BY <2>2 DEF TickCalls
    <3>2. \A n \in Forever .. MaxTime : CountDown(n) \in Forever .. MaxTime
      BY KernelAssumption DEF CountDown, Forever
    <3>3. \A t \in Thread : left[t] \in Forever .. MaxTime /\ CountDown(left[t]) \in Forever .. MaxTime
      BY <1>5, <3>2
    <3> QED BY <3>1, <3>3
  <2> QED BY <2>1, <2>2 DEF IpcCallStep, ipcCallVars
<1>7. LeftOK' /\ DqInv'
  BY <1>1, <1>2, <1>6, LeftCalm, DqCalm
<1>8. MbInv' /\ MqInv'
  <2>1. MbLists \subseteq Obj /\ Mq \subseteq Obj
    BY CallLists
  <2>2. MbInv'
    BY <1>1, <1>2, <1>3, <2>1, MbBeside
  <2>3. UNCHANGED count
    BY DEF mqVars
  <2>4. MqInv'
    BY <1>1, <1>2, <1>3, <2>1, <2>3, MqBeside
  <2> QED BY <2>2, <2>4
<1> QED BY <1>1, <1>2, <1>4, <1>7, <1>8 DEF ObjectsInv

(* The lists of S are worked on. *)
LEMMA OthersStay ==
  ASSUME ObjectsInv, CoreInv', NEW S, \A o \in Obj \ S : Apart(o) /\ exists'[o] = exists[o]
  PROVE  /\ Cp \cap S = {} /\ UNCHANGED flag => CpInv'
         /\ Ev \cap S = {} /\ UNCHANGED eventVars => EvInv'
         /\ MbLists \cap S = {} /\ UNCHANGED mbVars => MbInv'
         /\ Mq \cap S = {} /\ UNCHANGED mqVars => MqInv'
         /\ /\ DqLists \cap S = {} /\ UNCHANGED dqVars
            /\ \A o \in Obj \ S : \A x \in Thread : InWait(x, o) => left'[x] = left[x]
            => DqInv'
         /\ (MbLists \cup Mq \cup DqLists) \cap S = {} /\ UNCHANGED left => LeftOK'
<1>1. CoreInv /\ LeftOK /\ CpInv /\ EvInv /\ MbInv /\ MqInv /\ DqInv
  BY DEF ObjectsInv
<1>2. \A o \in Obj \ S : Range(waitq'[o]) \subseteq Range(waitq[o]) /\ OnTheWay(o) \subseteq OnTheWay(o)'
  BY ApartWay DEF Apart
<1>3. ASSUME Cp \cap S = {}, UNCHANGED flag PROVE CpInv'
  <2>1. \A c \in Cp : c \in Obj \ S
    BY <1>3, CompletionAssumption
  <2> QED BY <1>1, <1>2, <1>3, <2>1, CpBeside
<1>4. ASSUME Ev \cap S = {}, UNCHANGED eventVars PROVE EvInv'
  <2>1. \A e \in Ev : e \in Obj \ S
    BY <1>4, EventAssumption
  <2> QED BY <1>1, <1>2, <1>4, <2>1, EvBeside
<1>5. ASSUME MbLists \cap S = {}, UNCHANGED mbVars PROVE MbInv'
  <2>1. \A o \in MbLists : o \in Obj \ S
    BY <1>5, CallLists
  <2>2. \A mb \in Mb : exists'[mb] = exists[mb]
    BY <2>1, BoxLists
  <2>3. \A o \in MbLists : OnTheWay(o) \subseteq OnTheWay(o)' /\ Range(waitq'[o]) \subseteq Range(waitq[o])
    BY <1>2, <2>1
  <2> QED BY <1>1, <1>5, <2>2, <2>3, MbBeside
<1>6. ASSUME Mq \cap S = {}, UNCHANGED mqVars PROVE MqInv'
  <2>1. \A q \in Mq : q \in Obj \ S
    BY <1>6, CallLists
  <2>2. UNCHANGED count
    BY <1>6 DEF mqVars
  <2> QED BY <1>1, <1>2, <2>1, <2>2, MqBeside
<1>7. ASSUME DqLists \cap S = {}, UNCHANGED dqVars,
             \A o \in Obj \ S : \A x \in Thread : InWait(x, o) => left'[x] = left[x]
      PROVE  DqInv'
  <2>1. \A o \in DqLists : o \in Obj \ S
    BY <1>7, CallLists
  <2>2. \A q \in Dq : exists'[q] = exists[q]
    BY <2>1, QueueLists
  <2> QED BY <1>1, <1>7, <2>1, <2>2, DqBeside
<1>8. ASSUME (MbLists \cup Mq \cup DqLists) \cap S = {}, UNCHANGED left PROVE LeftOK'
  <2>1. \A o \in MbLists \cup Mq \cup DqLists : Apart(o)
    BY <1>8, CallLists
  <2> QED BY <1>1, <1>8, <2>1, LeftBeside
<1> QED BY <1>3, <1>4, <1>5, <1>6, <1>7, <1>8

(* The lists of different kinds of objects are different. *)
LEMMA KindsDiffer ==
  /\ Ev \cap (Cp \cup MbLists \cup Mq \cup DqLists) = {} /\ Cp \cap (MbLists \cup Mq \cup DqLists) = {}
  /\ MbLists \cap (Mq \cup DqLists) = {} /\ Mq \cap DqLists = {}
<1>1. \A mb \in MbLists : mb \notin Ev \cup Cp \cup Mq \cup DqLists
  BY BoxLists DEF MbLists
<1>2. \A q \in DqLists : q \notin Ev \cup Cp \cup Mq
  BY QueueLists DEF DqLists
<1>3. \A q \in Mq : q \notin Ev \cup Cp
  BY MqLists
<1>4. Ev \cap Cp = {}
  BY ObjectsAssumption
<1> QED BY <1>1, <1>2, <1>3, <1>4

LEMMA ObjectsStepInv ==
  ASSUME ObjectsInv, Guarded, [ObjectsNext]_objectsVars
  PROVE  ObjectsInv'
<1>1. CoreInv /\ LeftOK /\ CpInv /\ EvInv /\ MbInv /\ MqInv /\ DqInv /\ exists \in [Obj -> BOOLEAN]
  BY DEF ObjectsInv
<1>2. CASE IpcCallStep /\ UNCHANGED <<eventVars, mbVars, mqVars, dqVars, flag>>
  BY <1>2, KernelKeepsObjects
<1>3. CASE EventsNext /\ UNCHANGED <<ipcCallVars, mbVars, mqVars, dqVars, flag>>
  <2>1. CoreInv' /\ EvInv' /\ exists' \in [Obj -> BOOLEAN] /\ \A o \in Obj \ Ev : Apart(o) /\ exists'[o] = exists[o]
    BY <1>1, <1>3, EventStep
  <2>2. UNCHANGED left
    BY <1>3 DEF ipcCallVars
  <2> QED BY <1>3, <2>1, <2>2, OthersStay, KindsDiffer DEF ObjectsInv
<1>4. CASE CompletionNext /\ UNCHANGED <<ipcCallVars, eventVars, mbVars, mqVars, dqVars>>
  <2>1. CoreInv' /\ CpInv' /\ exists' \in [Obj -> BOOLEAN] /\ \A o \in Obj \ Cp : Apart(o) /\ exists'[o] = exists[o]
    BY <1>1, <1>4, CompletionStep DEF CpDoes
  <2>2. UNCHANGED left
    BY <1>4 DEF ipcCallVars
  <2> QED BY <1>4, <2>1, <2>2, OthersStay, KindsDiffer DEF ObjectsInv
<1>5. CASE MailboxNext /\ UNCHANGED <<eventVars, mqVars, dqVars, flag>>
  <2>1. /\ Does(MbLists) /\ MbInv' /\ exists' \in [Obj -> BOOLEAN]
        /\ \A o \in Obj \ MbLists : exists'[o] = exists[o]
    BY <1>1, <1>5, MbStep
  <2> QED BY <1>5, <2>1, OthersStay, KindsDiffer DEF Does, ObjectsInv
<1>6. CASE MessageQueueNext /\ UNCHANGED <<eventVars, mbVars, dqVars, flag>>
  <2>1. MqDoes /\ exists' \in [Obj -> BOOLEAN] /\ \A o \in Obj \ Mq : exists'[o] = exists[o]
    BY <1>1, <1>6, MqStep
  <2> QED BY <1>6, <2>1, OthersStay, KindsDiffer DEF MqDoes, Does, ObjectsInv
<1>7. CASE DataQueueNext /\ UNCHANGED <<eventVars, mbVars, mqVars, flag>>
  <2>1. DqDoes /\ exists' \in [Obj -> BOOLEAN] /\ \A o \in Obj \ DqLists : exists'[o] = exists[o]
    BY <1>1, <1>7, DqStep DEF DqLists
  <2> QED BY <1>7, <2>1, OthersStay, KindsDiffer DEF DqDoes, ObjectsInv
<1>8. CASE UNCHANGED objectsVars
  <2>1. UNCHANGED <<kernelVars, exists, ipcCallVars, eventVars, mbVars, mqVars, dqVars, flag>>
    BY <1>8 DEF objectsVars
  <2>2. CoreInv' /\ (\A o \in Obj : Apart(o)) /\ UNCHANGED left
    BY <1>1, <2>1, SameAct, ApartSame DEF ipcCallVars
  <2>3. PICK S : S = {}
    OBVIOUS
  <2> QED BY <1>1, <2>1, <2>2, <2>3, OthersStay DEF ObjectsInv
<1> QED BY <1>2, <1>3, <1>4, <1>5, <1>6, <1>7, <1>8 DEF ObjectsNext

(***************************************************************************)
(* Where the steps of the kernel and on other objects leave a thread.      *)
(***************************************************************************)

(* The thread x is in no call on an object of S, or stays where it is.     *)
Elsewhere(S, x) == (call[x] \notin S /\ call'[x] \notin S) \/ UNCHANGED <<pc[x], call[x]>>

(* A thread goes on in a call on another object.                           *)
LEMMA MovesElsewhere ==
  ASSUME NEW S, NEW t \in Thread, \A x \in Thread \ {t} : UNCHANGED <<pc[x], call[x]>>,
         call[t] \notin S, call'[t] \notin S
  PROVE  \A x \in Thread : Elsewhere(S, x)
BY DEF Elsewhere

LEMMA NoCall ==
  ASSUME CoreInv, NEW t \in Thread, pc[t] = "run"
  PROVE  call[t] = "none" /\ call[t] \notin Obj
BY CoreView DEF CoreInv, WaitInv, PlaceOK

LEMMA EventElsewhere ==
  ASSUME CoreInv, NEW S, S \subseteq Obj, Ev \cap S = {}, EventsNext
  PROVE  \A x \in Thread : Elsewhere(S, x)
<1>0. "none" \notin S /\ pc \in [Thread -> Pc] /\ call \in [Thread -> Call] /\ Main \in Thread
  BY CoreView, KernelAssumption DEF Prio
<1> USE DEF Running, InUser, At, Goto
<1>1. CASE \E t \in Thread : InEventCall(t)
  <2>1. PICK t \in Thread : InEventCall(t)
    BY <1>1
  <2>2. (\A x \in Thread \ {t} : UNCHANGED <<pc[x], call[x]>>) /\ call[t] \in Ev /\ call'[t] = "none"
    BY <1>0, <2>1 DEF InEventCall, EventReturn, FlushEnd
  <2> QED BY <1>0, <2>2, MovesElsewhere
<1>2. CASE \E t \in Thread, e \in Ev : \/ \E r : EventRecv(t, e, r) \/ \E n : EventWait(t, e, r, n)
                                       \/ (\E s : EventSend(t, e, s)) \/ EventReset(t, e) \/ EventDetach(t, e)
  <2>1. PICK t \in Thread, e \in Ev : \/ \E r : EventRecv(t, e, r) \/ \E n : EventWait(t, e, r, n)
                                      \/ (\E s : EventSend(t, e, s)) \/ EventReset(t, e) \/ EventDetach(t, e)
    BY <1>2
  <2>2. /\ \A x \in Thread \ {t} : UNCHANGED <<pc[x], call[x]>>
        /\ pc[t] = "run" /\ (UNCHANGED call \/ call' = [call EXCEPT ![t] = e])
    BY <1>0, <2>1 DEF EventRecv, EventWait, Block, SuspendFor, MayBlock, EventSend, EventReset, EventDetach, Detach
  <2>3. call[t] \notin S
    BY <2>2, NoCall
  <2>4. call'[t] \notin S
    BY <1>0, <2>2, <2>3
  <2> QED BY <2>2, <2>3, <2>4, MovesElsewhere
<1>3. CASE \E e \in Ev : (\E s : IsrEventSend(e, s)) \/ EventInit(Main, e)
  <2>1. UNCHANGED <<pc, call>>
    BY <1>3 DEF IsrEventSend, EventInit, ObjectInit, callVars
  <2> QED BY <2>1 DEF Elsewhere
<1> QED BY <1>0, <1>1, <1>2, <1>3 DEF EventsNext, EventCall

LEMMA CompletionElsewhere ==
  ASSUME CoreInv, NEW S, S \subseteq Obj, Cp \cap S = {}, CompletionNext
  PROVE  \A x \in Thread : Elsewhere(S, x)
<1>0. "none" \notin S /\ pc \in [Thread -> Pc] /\ call \in [Thread -> Call]
  BY CoreView
<1> USE DEF Running, InUser, At, Goto
<1>1. CASE \E t \in Thread : CpReturn(t) \/ CpDone(t)
  <2>1. PICK t \in Thread : CpReturn(t) \/ CpDone(t)
    BY <1>1
  <2>2. (\A x \in Thread \ {t} : UNCHANGED <<pc[x], call[x]>>) /\ call[t] \in Cp /\ call'[t] = "none"
    BY <1>0, <2>1 DEF CpReturn, CpDone
  <2> QED BY <1>0, <2>2, MovesElsewhere
<1>2. CASE \E t \in Thread, c \in Cp : CpDoneTest(t, c) \/ \E n : CpWait(t, c, n)
  <2>1. PICK t \in Thread, c \in Cp : CpDoneTest(t, c) \/ \E n : CpWait(t, c, n)
    BY <1>2
  <2>2. /\ \A x \in Thread \ {t} : UNCHANGED <<pc[x], call[x]>>
        /\ pc[t] = "run" /\ call' = [call EXCEPT ![t] = c]
    BY <1>0, <2>1 DEF CpDoneTest, CpWait, Block, SuspendFor, MayBlock
  <2>3. call[t] \notin S
    BY <2>2, NoCall
  <2>4. call'[t] \notin S
    BY <1>0, <2>2
  <2> QED BY <2>2, <2>3, <2>4, MovesElsewhere
<1>3. CASE \E c \in Cp : CpInit(Main, c) \/ IsrCpDone(c)
  <2>1. UNCHANGED <<pc, call>>
    BY <1>3 DEF IsrCpDone, CpInit, ObjectInit, callVars
  <2> QED BY <2>1 DEF Elsewhere
<1> QED BY <1>1, <1>2, <1>3 DEF CompletionNext

LEMMA MailboxElsewhere ==
  ASSUME CoreInv, NEW S, S \subseteq Obj, MbLists \cap S = {}, MailboxNext
  PROVE  \A x \in Thread : Elsewhere(S, x)
<1>0. /\ "none" \notin S /\ pc \in [Thread -> Pc] /\ call \in [Thread -> Call] /\ Main \in Thread
      /\ \A mb \in Mb : mb \in MbLists /\ Tx[mb] \in MbLists
  BY CoreView, KernelAssumption DEF Prio, MbLists
<1> USE DEF Running, InUser, At, Goto, Retrying, MayBlock
<1>1. CASE \E t \in Thread, mb \in Mb :
             \/ (\E m : MbSend(t, mb, m) \/ \E n : MbSendWait(t, mb, m, n))
             \/ MbRecv(t, mb) \/ (\E n : MbRecvWait(t, mb, n))
  <2>1. PICK t \in Thread, mb \in Mb :
               \/ (\E m : MbSend(t, mb, m) \/ \E n : MbSendWait(t, mb, m, n))
               \/ MbRecv(t, mb) \/ (\E n : MbRecvWait(t, mb, n))
    BY <1>1
  <2>2. /\ \A x \in Thread \ {t} : UNCHANGED <<pc[x], call[x]>>
        /\ pc[t] = "run" \/ call[t] \in {mb, Tx[mb]}
        /\ call'[t] \in {"none", mb, Tx[mb]}
    BY <1>0, <2>1 DEF MbSend, MbSendWait, MbRecv, MbRecvWait, EndCall, WaitFor, Block, SuspendFor
  <2>3. call[t] \notin S
    BY <1>0, <2>2, NoCall
  <2> QED BY <1>0, <2>2, <2>3, MovesElsewhere
<1>2. CASE \E t \in Thread, mb \in Mb : MbReset(t, mb) \/ MbDetach(t, mb)
  <2>1. PICK t \in Thread, mb \in Mb : MbReset(t, mb) \/ MbDetach(t, mb)
    BY <1>2
  <2>2. /\ \A x \in Thread \ {t} : UNCHANGED <<pc[x], call[x]>>
        /\ pc[t] = "run" /\ (UNCHANGED call \/ call' = [call EXCEPT ![t] = mb])
    BY <1>0, <2>1 DEF MbReset, MbDetach, Detach
  <2>3. call[t] \notin S
    BY <2>2, NoCall
  <2>4. call'[t] \notin S
    BY <1>0, <2>2, <2>3
  <2> QED BY <2>2, <2>3, <2>4, MovesElsewhere
<1>3. CASE \E t \in Thread : InMbCall(t)
  <2>1. PICK t \in Thread : InMbCall(t)
    BY <1>3
  <2>2. PICK mb \in Mb : /\ \A x \in Thread \ {t} : UNCHANGED <<pc[x], call[x]>>
                         /\ call[t] \in {mb, Tx[mb]} /\ call'[t] \in {"none", Tx[mb]}
    BY <1>0, <2>1 DEF InMbCall, MbRecvReturn, CallFails, MbTimeIsUp, MbFlushSenders, MbFlushEnd, EndCall
  <2> QED BY <1>0, <2>2, MovesElsewhere
<1>4. CASE \E mb \in Mb : (\E m : IsrMbSend(mb, m)) \/ MbInit(Main, mb)
  <2>1. UNCHANGED <<pc, call>>
    BY <1>4 DEF IsrMbSend, MbInit, ObjectInit, callVars
  <2> QED BY <2>1 DEF Elsewhere
<1> QED BY <1>0, <1>1, <1>2, <1>3, <1>4 DEF MailboxNext, MbCall

LEMMA DataQueueElsewhere ==
  ASSUME CoreInv, NEW S, S \subseteq Obj, DqLists \cap S = {}, DataQueueNext
  PROVE  \A x \in Thread : Elsewhere(S, x)
<1>0. /\ "none" \notin S /\ pc \in [Thread -> Pc] /\ call \in [Thread -> Call]
      /\ \A q \in Dq : q \in DqLists /\ PushList[q] \in DqLists
  BY CoreView DEF DqLists
<1> USE DEF Running, InUser, At, Goto, Retrying, MayBlock
<1>1. CASE \E t \in Thread, q \in Dq :
             \/ (\E m : DqPush(t, q, m) \/ \E n : DqPushWait(t, q, m, n))
             \/ DqPop(t, q) \/ (\E n : DqPopWait(t, q, n))
  <2>1. PICK t \in Thread, q \in Dq :
               \/ (\E m : DqPush(t, q, m) \/ \E n : DqPushWait(t, q, m, n))
               \/ DqPop(t, q) \/ (\E n : DqPopWait(t, q, n))
    BY <1>1
  <2>2. /\ \A x \in Thread \ {t} : UNCHANGED <<pc[x], call[x]>>
        /\ pc[t] = "run" \/ call[t] \in {q, PushList[q]}
        /\ call'[t] \in {"none", q, PushList[q]}
    BY <1>0, <2>1 DEF DqPush, Pushing, DqPushWait, DqPop, DqPopWait, EndCall, WaitFor, Block, SuspendFor
  <2>3. call[t] \notin S
    BY <1>0, <2>2, NoCall
  <2> QED BY <1>0, <2>2, <2>3, MovesElsewhere
<1>2. CASE \E t \in Thread, q \in Dq : DqReset(t, q)
  <2>1. PICK t \in Thread, q \in Dq : DqReset(t, q)
    BY <1>2
  <2>2. /\ \A x \in Thread \ {t} : UNCHANGED <<pc[x], call[x]>>
        /\ pc[t] = "run" /\ call' = [call EXCEPT ![t] = q]
    BY <1>0, <2>1 DEF DqReset
  <2>3. call[t] \notin S
    BY <2>2, NoCall
  <2>4. call'[t] \notin S
    BY <1>0, <2>2
  <2> QED BY <2>2, <2>3, <2>4, MovesElsewhere
<1>3. CASE \E t \in Thread : \/ DqPopReturn(t)
                             \/ \E q \in Dq : DqFlushPushers(t, q) \/ DqResetEnd(t, q)
                                              \/ CallFails(t, q) \/ CallFails(t, PushList[q])
  <2>1. PICK t \in Thread : \/ DqPopReturn(t)
                            \/ \E q \in Dq : DqFlushPushers(t, q) \/ DqResetEnd(t, q)
                                             \/ CallFails(t, q) \/ CallFails(t, PushList[q])
    BY <1>3
  <2>2. PICK q \in Dq : /\ \A x \in Thread \ {t} : UNCHANGED <<pc[x], call[x]>>
                        /\ call[t] \in {q, PushList[q]} /\ call'[t] \in {"none", PushList[q]}
    BY <1>0, <2>1 DEF DqPopReturn, DqFlushPushers, DqResetEnd, CallFails, EndCall
  <2> QED BY <1>0, <2>2, MovesElsewhere
<1>4. CASE \E q \in Dq : IsrDqPop(q) \/ DqInit(Main, q) \/ \E t \in Thread : DqPushFull(t, q)
  <2>1. UNCHANGED <<pc, call>>
    BY <1>4 DEF IsrDqPop, DqInit, ObjectInit, DqPushFull, kernelVars, callVars
  <2> QED BY <2>1 DEF Elsewhere
<1> QED BY <1>1, <1>2, <1>3, <1>4 DEF DataQueueNext, DqCall

(* No step of the kernel brings a thread to, or from, the copying of a     *)
(* message or the flushing of a list.                                      *)
KernelLeaves(x) ==
  /\ (pc'[x] = "got" <=> pc[x] = "got") /\ (Flushing(x)' <=> Flushing(x))
  /\ pc[x] = "got" \/ Flushing(x) => UNCHANGED call[x]

LEMMA KernelPlaces ==
  ASSUME CoreInv, IpcCallStep
  PROVE  \A x \in Thread : KernelLeaves(x)
<1>0. pc \in [Thread -> Pc] /\ call \in [Thread -> Call] /\ Main \in Thread
  BY CoreView, KernelAssumption DEF Prio
<1> USE DEF Running, InUser, At, Goto, MayBlock
<1> DEFINE Own == {"got", "flush", "flushlock"}
<1>1. ASSUME NEW t \in Thread, pc[t] \notin Own, pc'[t] \notin Own,
             \A x \in Thread \ {t} : UNCHANGED <<pc[x], call[x]>>
      PROVE  \A x \in Thread : KernelLeaves(x)
  BY <1>1 DEF KernelLeaves, Flushing
<1>2. CASE \E t \in Thread : InCall(t)
  <2>1. PICK t \in Thread : InCall(t)
    BY <1>2
  <2>2. CASE Schedule(t) \/ Return(t)
    <3>1. pc[t] \notin Own /\ pc'[t] \notin Own /\ \A x \in Thread \ {t} : UNCHANGED <<pc[x], call[x]>>
      BY <1>0, <2>2 DEF Schedule, Return
    <3> QED BY <1>1, <3>1
  <2>3. CASE SuspendLocked(t) \/ ResumeLocked(t) \/ ResumeInsert(t)
    <3>1. pc[t] \notin Own /\ pc'[t] \notin Own /\ \A x \in Thread \ {t} : UNCHANGED <<pc[x], call[x]>>
      BY <1>0, <2>3 DEF SuspendLocked, ResumeLocked, ResumeInsert
    <3> QED BY <1>1, <3>1
  <2>4. CASE DeleteTimer(t) \/ DeleteClose(t) \/ DeleteDefunct(t)
    <3>1. pc[t] \notin Own /\ pc'[t] \notin Own /\ \A x \in Thread \ {t} : UNCHANGED <<pc[x], call[x]>>
      BY <1>0, <2>4 DEF DeleteTimer, DeleteClose, DeleteDefunct
    <3> QED BY <1>1, <3>1
  <2> QED BY <2>1, <2>2, <2>3, <2>4 DEF InCall
<1>3. CASE \/ (\E n \in 1 .. MaxTime : Sleep(Main, n)) \/ (\E u \in Thread : Startup(Main, u))
           \/ EnterCritical(Main) \/ ExitCritical(Main)
  <2>1. PICK t : t = Main
    OBVIOUS
  <2>2. t \in Thread /\ pc[t] \notin Own /\ pc'[t] \notin Own /\ \A x \in Thread \ {t} : UNCHANGED <<pc[x], call[x]>>
    BY <1>0, <1>3, <2>1 DEF Sleep, SuspendFor, Startup, Begin, EnterCritical, ExitCritical, callVars
  <2> QED BY <1>1, <2>2
<1>4. CASE (\E t \in Thread : Timeout(t)) \/ Tick
  <2>1. UNCHANGED <<pc, call>>
    BY <1>4 DEF Timeout, Tick, callVars
  <2> QED BY <2>1 DEF KernelLeaves, Flushing
<1>5. CASE \E t \in Thread : FlushCheck(t) \/ FlushWake(t)
  <2>1. PICK t \in Thread : FlushCheck(t) \/ FlushWake(t)
    BY <1>5
  <2>2. /\ pc[t] \in {"flush", "flushlock"} /\ pc'[t] \in {"flush", "flushlock"} /\ UNCHANGED call
        /\ \A x \in Thread \ {t} : UNCHANGED pc[x]
    BY <1>0, <2>1 DEF FlushCheck, FlushWake
  <2> QED BY <2>2 DEF KernelLeaves, Flushing
<1> QED BY <1>2, <1>3, <1>4, <1>5 DEF IpcCallStep, CallerStep, TickCalls

(***************************************************************************)
(* Theorems.                                                               *)
(***************************************************************************)
THEOREM ObjectsInvariant == Guarded => (ObjectsSpec => []ObjectsInv)
<1> SUFFICES ASSUME Guarded PROVE ObjectsSpec => []ObjectsInv
  OBVIOUS
<1>1. ObjectsInit => ObjectsInv
  BY ObjectsInitInv
<1>2. ObjectsInv /\ [ObjectsNext]_objectsVars => ObjectsInv'
  BY ObjectsStepInv
<1> QED BY <1>1, <1>2, PTL DEF ObjectsSpec

(* rt_event_send, rt_event_recv and a reset leave no thread that waits for *)
(* flags that are all there, or any of which is: the walk wakes everyone   *)
(* whose flags come, although the threads it wakes first take theirs.      *)
THEOREM FlagsAreNotMissed == Guarded => (ObjectsSpec => []NobodyMissesFlags)
<1>1. ObjectsInv => NobodyMissesFlags
  BY DEF ObjectsInv, EvInv
<1> QED BY <1>1, ObjectsInvariant, PTL

(* rt_completion_wait and rt_completion_done, also when the flag is tested *)
(* long before it is set, never leave a thread waiting for what is done.   *)
THEOREM CompletionsAreSeen == Guarded => (ObjectsSpec => []NobodyWaitsCompleted)
<1>1. ObjectsInv => NobodyWaitsCompleted
  BY DEF ObjectsInv, CpInv
<1> QED BY <1>1, ObjectsInvariant, PTL

(* rt_data_queue_push and rt_data_queue_pop forget no waiting thread, if   *)
(* there is one thread that pushes: a waiting push has its mark set and    *)
(* the pop that reaches it still to come, and threads wait to pop only     *)
(* while each item has one on its way to take it.  The model goes on where *)
(* rt_data_queue_pop leaves the interrupts disabled (LwmMeansWaiter).      *)
THEOREM DataQueuesForgetNobody ==
  Guarded /\ (\A t, u \in Pusher : t = u) => (ObjectsSpec => []DqNobodyForgotten)
<1> SUFFICES ASSUME Guarded, OnePusher PROVE ObjectsSpec => []DqNobodyForgotten
  BY DEF OnePusher
<1>1. ObjectsInv => DqNobodyForgotten
  BY DEF ObjectsInv, DqInv, QueueOK, PushesOK, PopsOK, DqNobodyForgotten
<1> QED BY <1>1, ObjectsInvariant, PTL

(* rt_mb_send_wait, rt_mb_recv, rt_mq_send and rt_mq_recv forget no thread *)
(* that waits: receivers go on waiting only while each message has one of  *)
(* them, woken, on its way to take it, senders only while each free place  *)
(* has one on its way to fill it.  Timeouts, resets and detaching come in  *)
(* between, and other threads that take what a woken one is coming for.    *)
THEOREM QueuesForgetNobody == Guarded => (ObjectsSpec => []NobodyForgotten)
<1>1. ObjectsInv => NobodyForgotten
  BY DEF ObjectsInv, MbInv, BoxOK, MqInv, MqOK, NobodyForgotten, MbNobodyForgotten, MqNobodyForgotten
<1> QED BY <1>1, ObjectsInvariant, PTL

(* Events, data queues and completions leave the kernel as it has to be,   *)
(* whatever the timeouts of the calls, also where rt_data_queue_pop finds  *)
(* the mark set and nobody waiting.                                        *)
THEOREM ObjectsStaySound == Guarded => (ObjectsSpec => []ObjectsSound)
<1>1. ObjectsInv => ObjectsSound
  <2> SUFFICES ASSUME ObjectsInv PROVE ObjectsSound
    OBVIOUS
  <2>1. CoreInv /\ LeftOK /\ CpInv /\ EvInv /\ DqInv /\ exists \in [Obj -> BOOLEAN]
    BY DEF ObjectsInv
  <2>2. KernelSound
    BY <2>1, CoreView, HeadIsHighest DEF KernelInv, KernelSound
  <2>3. IpcCallTypeOK
    BY <2>1 DEF IpcCallTypeOK, LeftOK
  <2>4. DqTypeOK
    <3> SUFFICES ASSUME NEW q \in Dq
                 PROVE  /\ put_index[q] \in 0 .. MaxPuts /\ get_index[q] \in 0 .. MaxPuts
                        /\ \A i \in 0 .. DqSize - 1 : items[q][i] \in Message \cup {Nothing}
                        /\ waiting_lwm[q] \in BOOLEAN
      BY DEF DqTypeOK
    <3>1. RingOK(q) /\ MaxPuts \in Nat
      BY <2>1, DataQueueAssumption DEF DqInv, QueueOK
    <3>2. put_index[q] \in 0 .. MaxPuts /\ get_index[q] \in 0 .. put_index[q]
          /\ items[q] \in [0 .. DqSize - 1 -> Message \cup {Nothing}] /\ waiting_lwm[q] \in BOOLEAN
      BY <3>1 DEF RingOK
    <3>3. get_index[q] \in 0 .. MaxPuts
      BY <3>1, <3>2
    <3>4. \A i \in 0 .. DqSize - 1 : items[q][i] \in Message \cup {Nothing}
      BY <3>2
    <3> QED BY <3>2, <3>3, <3>4
  <2> QED BY <2>1, <2>2, <2>3, <2>4 DEF ObjectsSound, EvInv, CpInv
<1> QED BY <1>1, ObjectsInvariant, PTL

(* It is the timeout of a push that leaves the mark behind: were all       *)
(* pushes to wait for ever, as rt_serial_write of serial.c does not, the   *)
(* mark would be set only while a thread waits to push.                    *)
THEOREM PatientPushersAreThere == Guarded /\ Patient => (ObjectsSpec => []LwmMeansWaiter)
<1> SUFFICES ASSUME Guarded, Patient PROVE ObjectsSpec => []LwmMeansWaiter
  OBVIOUS
<1>1. ObjectsInv => LwmMeansWaiter
  BY DEF ObjectsInv, DqInv, QueueOK, MarkOK, LwmMeansWaiter
<1> QED BY <1>1, ObjectsInvariant, PTL

(***************************************************************************)
(* Refinement of EventGroup: each step of the kernel, of a thread inside   *)
(* rt_event_recv, rt_event_send, a reset or a detach, of an interrupt      *)
(* handler, and of the calls on other objects is a step of the abstract    *)
(* event group or leaves it as it is.                                      *)
(***************************************************************************)

(* Threads that wait for an event wait for some flag; a thread keeps flags *)
(* only inside its call.                                                   *)
EvPlace ==
  /\ \A e \in Ev : \A x \in Range(waitq[e]) : event_set[x] # {}
  /\ \A x \in Thread : event_set[x] # {} => call[x] \in Ev /\ pc[x] \in {"sched", "blocked", "got"}

GroupInv == ObjectsInv /\ EvPlace

Regroups(e) == [Group(e)!Next]_(Group(e)!vars)

(* What the mapping says of one thread.                                    *)
Wants(x) ==
  [set |-> event_set[x], all |-> "AND" \in event_info[x], consume |-> "CLEAR" \in event_info[x]]

Nothings == [set |-> {}, all |-> FALSE, consume |-> FALSE]

Holding(e, x) ==
  call[x] = e /\ x \notin Range(waitq[e]) /\ (pc[x] = "got" \/ err[x] = "EOK") /\ event_set[x] # {}

Ask(e, x) == IF x \in Range(waitq[e]) THEN Wants(x) ELSE Nothings

Kept(e, x) == IF Holding(e, x) THEN event_set[x] ELSE {}

LEMMA GroupView ==
  ASSUME NEW e \in Ev
  PROVE  /\ Asked(e) = [x \in Thread \ {Idle} |-> Ask(e, x)]
         /\ Granted(e) = [x \in Thread \ {Idle} |-> Kept(e, x)]
         /\ Asked(e)' = [x \in Thread \ {Idle} |-> Ask(e, x)']
         /\ Granted(e)' = [x \in Thread \ {Idle} |-> Kept(e, x)']
BY DEF Asked, Ask, Wants, Nothings, Granted, Kept, Holding

(* A thread that does not wait for e, or waits for the same before and     *)
(* after, asks for the same; and so on.                                    *)
SameAsk(e, x) ==
  /\ x \in Range(waitq'[e]) <=> x \in Range(waitq[e])
  /\ x \in Range(waitq[e]) => event_set'[x] = event_set[x] /\ event_info'[x] = event_info[x]

SameGrant(e, x) ==
  /\ Holding(e, x)' <=> Holding(e, x)
  /\ Holding(e, x) => event_set'[x] = event_set[x]

LEMMA SameView ==
  ASSUME NEW e \in Ev, NEW x \in Thread
  PROVE  /\ SameAsk(e, x) => Ask(e, x)' = Ask(e, x)
         /\ SameGrant(e, x) => Kept(e, x)' = Kept(e, x)
BY DEF SameAsk, SameGrant, Ask, Kept, Wants

(* The event's threads are what they were. *)
LEMMA GroupSame ==
  ASSUME NEW e \in Ev, UNCHANGED <<set[e], Open(e)>>,
         \A x \in Thread \ {Idle} : SameAsk(e, x) /\ SameGrant(e, x)
  PROVE  Regroups(e)
<1>1. Asked(e)' = Asked(e)
  BY GroupView, SameView
<1>2. Granted(e)' = Granted(e)
  BY GroupView, SameView
<1>3. (IF Open(e) THEN set[e] ELSE {})' = (IF Open(e) THEN set[e] ELSE {})
  OBVIOUS
<1> QED BY <1>1, <1>2, <1>3 DEF Regroups, Group!vars

(* A thread of a call on e, with all it has, is where it was. *)
LEMMA ApartKeeps ==
  ASSUME GroupInv, GroupInv', NEW e \in Ev, Apart(e), NEW x \in Thread, Elsewhere({e}, x),
         call[x] = e => event_set'[x] = event_set[x] /\ event_info'[x] = event_info[x]
  PROVE  SameAsk(e, x) /\ SameGrant(e, x)
<1>0. e \in Obj /\ CoreInv /\ CoreInv' /\ EvPlace /\ EvPlace'
  BY EventAssumption DEF GroupInv, ObjectsInv
<1>1. SameAsk(e, x)
  BY <1>0, CoreView DEF Apart, SameAsk
<1>2. CASE call[x] # e /\ call'[x] # e
  BY <1>1, <1>2 DEF SameGrant, Holding
<1>3. CASE call[x] = e /\ UNCHANGED <<pc[x], call[x]>>
  <2>1. event_set'[x] = event_set[x] /\ (x \in Range(waitq'[e]) <=> x \in Range(waitq[e]))
    BY <1>3 DEF Apart
  <2>2. CASE event_set[x] = {}
    BY <1>1, <2>1, <2>2 DEF SameGrant, Holding
  <2>3. CASE pc[x] = "got"
    BY <1>1, <1>3, <2>1, <2>3 DEF SameGrant, Holding
  <2>4. CASE pc[x] \in {"sched", "blocked"}
    <3>1. err'[x] = err[x]
      BY <1>3, <2>4 DEF Apart, InWait
    <3> QED BY <1>1, <1>3, <2>1, <3>1 DEF SameGrant, Holding
  <2> QED BY <1>0, <2>2, <2>3, <2>4 DEF EvPlace
<1> QED BY <1>1, <1>2, <1>3 DEF Elsewhere

LEMMA ApartOpen ==
  ASSUME NEW e \in Ev, exists'[e] = exists[e], \A x \in Thread : Elsewhere({e}, x)
  PROVE  Open(e)' = Open(e)
<1>1. \A x \in Thread : (pc'[x] \in {"flush", "flushlock"} /\ call'[x] = e) <=> (pc[x] \in {"flush", "flushlock"} /\ call[x] = e)
  BY DEF Elsewhere
<1> QED BY <1>1 DEF Open

(* Work on other objects. *)
LEMMA ApartGroup ==
  ASSUME GroupInv, GroupInv', NEW e \in Ev, Apart(e), set'[e] = set[e], exists'[e] = exists[e],
         \A x \in Thread : Elsewhere({e}, x),
         \A x \in Thread : call[x] = e => event_set'[x] = event_set[x] /\ event_info'[x] = event_info[x]
  PROVE  Regroups(e)
BY ApartKeeps, ApartOpen, GroupSame

(***************************************************************************)
(* Steps of the kernel.                                                    *)
(***************************************************************************)

(* At most one thread leaves the lists. *)
LEMMA KernelReleases ==
  ASSUME CoreInv, IpcCallStep
  PROVE  \E u : \A o \in Obj : Range(waitq[o]) \ {u} \subseteq Range(waitq'[o])
<1>0. KernelInv
  BY CoreView
<1>1. CASE \E t \in Thread : FlushCheck(t) \/ FlushWake(t)
  <2>1. PICK t \in Thread : FlushCheck(t) \/ FlushWake(t)
    BY <1>1
  <2>2. CASE FlushCheck(t)
    BY <2>2 DEF FlushCheck, queueVars
  <2>3. CASE FlushWake(t)
    BY <2>3, FlushWakeAct
  <2> QED BY <2>1, <2>2, <2>3
<1>2. CASE CallerStep \/ Tick
  <2>1. Main \in Thread \ {Idle}
    BY KernelAssumption DEF Prio
  <2>2. KernelNext
    BY <1>2, <2>1 DEF KernelNext, ThreadStep, UserCall, Interrupt, CallerStep
  <2>3. waitq' = waitq \/ \E u \in Thread : waitq' = UnlinkAll(waitq, u)
    BY <1>0, <2>2, KernelUnlinks
  <2>4. ASSUME NEW u \in Thread, waitq' = UnlinkAll(waitq, u)
        PROVE  \A o \in Obj : Range(waitq[o]) \ {u} \subseteq Range(waitq'[o])
    BY <1>0, <2>4, WaitRemoved
  <2> QED BY <2>3, <2>4
<1> QED BY <1>1, <1>2 DEF IpcCallStep, TickCalls

(* Flags a thread was given stay given.                                    *)
LEMMA KernelGrants ==
  ASSUME GroupInv, GroupInv', Calm, UNCHANGED eventVars, NEW e \in Ev, NEW x \in Thread, KernelLeaves(x)
  PROVE  SameGrant(e, x)
<1>0. e \in Obj /\ CoreInv /\ EvPlace /\ EvPlace' /\ event_set'[x] = event_set[x]
  BY EventAssumption DEF GroupInv, ObjectsInv, eventVars
<1>1. /\ Range(waitq'[e]) \subseteq Range(waitq[e])
      /\ x \in Range(waitq[e]) /\ x \notin Range(waitq'[e]) => err'[x] # "EOK"
      /\ InWait(x, e)' <=> InWait(x, e)
      /\ err'[x] = err[x] \/ call[x] \notin Obj \/ x \in Range(waitq[call[x]])
      /\ x \in Range(waitq[e]) => pc[x] # "got"
  BY <1>0, CoreView DEF Calm
<1>2. ASSUME Holding(e, x) PROVE Holding(e, x)'
  <2>1. pc[x] \in {"sched", "blocked", "got"}
    BY <1>0, <1>2 DEF EvPlace, Holding
  <2>2. CASE pc[x] = "got"
    BY <1>0, <1>1, <1>2, <2>2 DEF Holding, KernelLeaves
  <2>3. CASE pc[x] # "got"
    <3>1. InWait(x, e) /\ err[x] = "EOK"
      BY <1>2, <2>1, <2>3 DEF Holding, InWait
    <3>2. call'[x] = e /\ err'[x] = "EOK"
      BY <1>0, <1>1, <1>2, <3>1 DEF Holding, InWait
    <3> QED BY <1>0, <1>1, <1>2, <3>2 DEF Holding
  <2> QED BY <2>2, <2>3
<1>3. ASSUME Holding(e, x)' PROVE Holding(e, x)
  <2>1. pc'[x] \in {"sched", "blocked", "got"}
    BY <1>0, <1>3 DEF EvPlace, Holding
  <2>2. CASE pc'[x] = "got"
    BY <1>0, <1>1, <1>3, <2>2 DEF Holding, KernelLeaves
  <2>3. CASE pc'[x] # "got"
    <3>1. InWait(x, e)' /\ err'[x] = "EOK" /\ x \notin Range(waitq'[e])
      BY <1>3, <2>1, <2>3 DEF Holding, InWait
    <3>2. call[x] = e /\ x \notin Range(waitq[e])
      BY <1>1, <3>1 DEF InWait
    <3>3. err[x] = "EOK"
      BY <1>0, <1>1, <3>1, <3>2
    <3> QED BY <1>0, <1>3, <3>2, <3>3 DEF Holding
  <2> QED BY <2>2, <2>3
<1> QED BY <1>0, <1>2, <1>3 DEF SameGrant

(* A timeout or a flush makes one thread give up.                          *)
LEMMA KernelGroup ==
  ASSUME GroupInv, GroupInv', IpcCallStep, Calm, UNCHANGED <<exists, eventVars>>, NEW e \in Ev
  PROVE  Regroups(e)
<1>0. e \in Obj /\ CoreInv /\ EvPlace /\ UNCHANGED <<set, event_set, event_info>>
  BY EventAssumption DEF GroupInv, ObjectsInv, eventVars
<1>1. \A x \in Thread : KernelLeaves(x)
  BY <1>0, KernelPlaces
<1>2. Open(e)' = Open(e)
  <2>1. \A x \in Thread : (Flushing(x) /\ call[x] = e)' <=> (Flushing(x) /\ call[x] = e)
    BY <1>1 DEF KernelLeaves
  <2> QED BY <2>1 DEF Open, Flushing
<1>3. \A x \in Thread : SameGrant(e, x)
  BY <1>1, KernelGrants
<1>4. PICK u : Range(waitq[e]) \ {u} \subseteq Range(waitq'[e])
  BY <1>0, KernelReleases
<1>5. Range(waitq'[e]) \subseteq Range(waitq[e])
  BY <1>0 DEF Calm
<1>6. \A x \in Thread \ {u} : SameAsk(e, x)
  BY <1>0, <1>4, <1>5 DEF SameAsk
<1>7. CASE u \notin Range(waitq[e]) \/ u \in Range(waitq'[e])
  <2>1. \A x \in Thread : SameAsk(e, x)
    BY <1>0, <1>4, <1>5, <1>7 DEF SameAsk
  <2> QED BY <1>0, <1>2, <1>3, <2>1, GroupSame
<1>8. CASE u \in Range(waitq[e]) /\ u \notin Range(waitq'[e])
  <2>1. u \in Thread \ {Idle} /\ event_set[u] # {}
    <3>1. u \in Thread /\ pc[u] # "run" /\ pc[Idle] = "run"
      BY <1>0, <1>8, CoreView
    <3>2. event_set[u] # {}
      BY <1>0, <1>8 DEF EvPlace
    <3> QED BY <1>8, <3>1, <3>2
  <2>2. Ask(e, u)' = Nothings /\ Ask(e, u) # Nothings
    BY <1>8, <2>1 DEF Ask, Wants, Nothings
  <2>3. \A x \in Thread \ {Idle, u} : Ask(e, x)' = Ask(e, x)
    BY <1>6, SameView
  <2>4. Asked(e)' = [Asked(e) EXCEPT ![u] = Nothings] /\ Asked(e)[u] # Nothings
    BY <2>1, <2>2, <2>3, GroupView
  <2>5. Granted(e)' = Granted(e)
    BY <1>3, SameView, GroupView
  <2>6. (IF Open(e) THEN set[e] ELSE {})' = (IF Open(e) THEN set[e] ELSE {})
    BY <1>0, <1>2
  <2>7. Group(e)!GiveUp(u)
    BY <1>2, <2>4, <2>5, <2>6 DEF Group!GiveUp, Group!NoAsk, Nothings
  <2> QED BY <2>1, <2>7 DEF Regroups, Group!Next
<1> QED BY <1>7, <1>8

LEMMA KernelKeepsFlags ==
  ASSUME GroupInv, CoreInv', IpcCallStep, Calm, UNCHANGED eventVars
  PROVE  EvPlace'
<1>0. CoreInv /\ EvPlace /\ UNCHANGED event_set /\ Ev \subseteq Obj
  BY EventAssumption DEF GroupInv, ObjectsInv, eventVars
<1>1. ASSUME NEW e \in Ev, NEW x \in Range(waitq'[e]) PROVE event_set'[x] # {}
  <2>1. x \in Range(waitq[e])
    BY <1>0 DEF Calm
  <2> QED BY <1>0, <2>1 DEF EvPlace
<1>2. ASSUME NEW x \in Thread, event_set'[x] # {}
      PROVE  call'[x] \in Ev /\ pc'[x] \in {"sched", "blocked", "got"}
  <2>1. call[x] \in Ev /\ pc[x] \in {"sched", "blocked", "got"}
    BY <1>0, <1>2 DEF EvPlace
  <2>2. CASE pc[x] = "got"
    BY <1>0, <2>1, <2>2, KernelPlaces DEF KernelLeaves
  <2>3. CASE pc[x] # "got"
    <3>1. PICK e \in Ev : InWait(x, e)
      BY <2>1, <2>3 DEF InWait
    <3>2. InWait(x, e)'
      BY <1>0, <3>1 DEF Calm
    <3> QED BY <3>2 DEF InWait
  <2> QED BY <2>2, <2>3
<1> QED BY <1>1, <1>2 DEF EvPlace

(* The calls on other objects do nothing to any event. *)
LEMMA OthersGroup ==
  ASSUME GroupInv, ObjectsInv', UNCHANGED eventVars, \A x \in Thread : Elsewhere(Ev, x),
         \A e \in Ev : Apart(e) /\ exists'[e] = exists[e]
  PROVE  EvPlace' /\ \A e \in Ev : Regroups(e)
<1>0. CoreInv /\ EvPlace /\ UNCHANGED <<set, event_set, event_info>> /\ Ev \subseteq Obj
  BY EventAssumption DEF GroupInv, ObjectsInv, eventVars
<1>1. EvPlace'
  <2>1. \A e \in Ev : \A x \in Range(waitq'[e]) : event_set'[x] # {}
    BY <1>0 DEF Apart, EvPlace
  <2>2. \A x \in Thread : event_set'[x] # {} => call'[x] \in Ev /\ pc'[x] \in {"sched", "blocked", "got"}
    BY <1>0 DEF EvPlace, Elsewhere
  <2> QED BY <2>1, <2>2 DEF EvPlace
<1>2. GroupInv'
  BY <1>1 DEF GroupInv
<1>3. ASSUME NEW e \in Ev PROVE Regroups(e)
  <2>1. \A x \in Thread : Elsewhere({e}, x)
    BY DEF Elsewhere
  <2> QED BY <1>0, <1>2, <2>1, ApartGroup
<1> QED BY <1>1, <1>3

(***************************************************************************)
(* Steps of the event's own functions.                                     *)
(***************************************************************************)

(* What a call on e does to the thread x. *)
Acts(e, x) ==
  \/ /\ UNCHANGED <<pc[x], call[x]>>
     /\ call[x] # e => UNCHANGED <<event_set[x], event_info[x]>>
     /\ event_set[x] = {} => event_set'[x] = {}
  \/ /\ call[x] \in {e, "none"} /\ call'[x] \in {e, "none"}
     /\ event_set'[x] # {} => call'[x] = e /\ pc'[x] \in {"sched", "blocked", "got"}

(* The other events are left alone. *)
LEMMA OwnStep ==
  ASSUME GroupInv, ObjectsInv', NEW e \in Ev, EvDoes(e), \A x \in Thread : Acts(e, x),
         \A x \in Range(waitq'[e]) : event_set'[x] # {},
         \A d \in Ev \ {e} : UNCHANGED <<set[d], exists[d]>>
  PROVE  EvPlace' /\ GroupInv' /\ \A d \in Ev \ {e} : Regroups(d)
<1>0. CoreInv /\ EvPlace /\ Ev \subseteq Obj /\ "none" \notin Obj
  BY EventAssumption, CoreView DEF GroupInv, ObjectsInv
<1>1. \A d \in Ev \ {e} : Apart(d)
  BY <1>0 DEF EvDoes
<1>2. EvPlace'
  <2>1. ASSUME NEW d \in Ev, NEW x \in Range(waitq'[d]) PROVE event_set'[x] # {}
    <3>1. CASE d = e
      BY <3>1
    <3>2. CASE d # e
      <4>1. x \in Range(waitq[d]) /\ call[x] = d /\ x \in Thread
        BY <1>0, <1>1, <3>2, CoreView DEF Apart
      <4>2. UNCHANGED event_set[x]
        BY <1>0, <3>2, <4>1 DEF Acts
      <4> QED BY <1>0, <4>1, <4>2 DEF EvPlace
    <3> QED BY <3>1, <3>2
  <2>2. ASSUME NEW x \in Thread, event_set'[x] # {}
        PROVE  call'[x] \in Ev /\ pc'[x] \in {"sched", "blocked", "got"}
    BY <1>0, <2>2 DEF Acts, EvPlace
  <2> QED BY <2>1, <2>2 DEF EvPlace
<1>3. GroupInv'
  BY <1>2 DEF GroupInv
<1>4. ASSUME NEW d \in Ev \ {e} PROVE Regroups(d)
  <2>1. \A x \in Thread : /\ Elsewhere({d}, x)
                          /\ call[x] = d => event_set'[x] = event_set[x] /\ event_info'[x] = event_info[x]
    BY <1>0 DEF Acts, Elsewhere
  <2> QED BY <1>1, <1>3, <2>1, ApartGroup
<1> QED BY <1>2, <1>3, <1>4

(* What a call finds: its caller waits for nothing and has no flags, and   *)
(* no event is being detached.                                             *)
LEMMA CallFinds ==
  ASSUME GroupInv, NEW t \in Thread, current = t, pc[t] = "run", NEW e \in Ev
  PROVE  /\ call[t] = "none" /\ call[t] \notin Obj /\ event_set[t] = {} /\ t \notin Range(waitq[e])
         /\ Open(e) <=> exists[e]
         /\ \A x \in Thread : ~Flushing(x)
<1>0. CoreInv /\ EvPlace /\ e \in Obj
  BY EventAssumption DEF GroupInv, ObjectsInv
<1>1. \A x \in Thread : ~Flushing(x)
  BY <1>0 DEF CoreInv, FlushOK, Flushing
<1>2. call[t] = "none" /\ call[t] \notin Obj /\ t \notin Range(waitq[e]) /\ event_set[t] = {}
  BY <1>0, NoCall, CoreView DEF EvPlace
<1> QED BY <1>1, <1>2 DEF Open, Flushing

(* What the caller asks for. *)
Asks(r) == [set |-> r.set, all |-> "AND" \in r.option, consume |-> "CLEAR" \in r.option]

LEMMA AsksWhat ==
  ASSUME NEW r \in Request, NEW e \in Ev, NEW f
  PROVE  /\ Asks(r) \in Group(e)!Ask /\ Asks(r) # Nothings
         /\ Group(e)!Fulfilled(Asks(r), f) <=> Satisfied(r.set, r.option, f)
         /\ Satisfied(r.set, r.option, f) => r.set \cap f # {}
         /\ Asks(r).set = r.set /\ (Asks(r).consume <=> "CLEAR" \in r.option)
<1>1. r.set \in (SUBSET Bit) \ {{}}
  BY EventAssumption
<1>2. Asks(r).set = r.set /\ (Asks(r).consume <=> "CLEAR" \in r.option) /\ (Asks(r).all <=> "AND" \in r.option)
  BY DEF Asks
<1>3. Asks(r) \in Group(e)!Ask
  BY <1>1 DEF Asks, Group!Ask
<1>4. Asks(r) # Nothings
  BY <1>1, <1>2 DEF Nothings
<1>5. Group(e)!Fulfilled(Asks(r), f) <=> Satisfied(r.set, r.option, f)
  BY <1>2 DEF Group!Fulfilled, Satisfied
<1>6. Satisfied(r.set, r.option, f) => r.set \cap f # {}
  BY <1>1 DEF Satisfied
<1> QED BY <1>2, <1>3, <1>4, <1>5, <1>6

(* rt_event_recv that finds its flags is Take. *)
LEMMA EventRecvGroup ==
  ASSUME GroupInv, ObjectsInv', NEW t \in Thread \ {Idle}, NEW e \in Ev, NEW r \in Request,
         EventRecv(t, e, r), EvDoes(e)
  PROVE  EvPlace' /\ \A d \in Ev : Regroups(d)
<1> USE DEF EventRecv, InUser, Running, Goto, queueVars, threadVars
<1>0. /\ CoreInv /\ EvPlace /\ e \in Obj /\ pc \in [Thread -> Pc] /\ call \in [Thread -> Call]
      /\ set \in [Ev -> SUBSET Bit] /\ event_set \in [Thread -> SUBSET Bit]
  BY EventAssumption, CoreView DEF GroupInv, ObjectsInv, EvInv, EventTypeOK
<1>1. /\ current = t /\ pc[t] = "run" /\ exists[e] /\ UNCHANGED <<waitq, err, exists, event_info>>
      /\ Satisfied(r.set, r.option, set[e])
      /\ pc' = [pc EXCEPT ![t] = "got"] /\ call' = [call EXCEPT ![t] = e]
      /\ event_set' = [event_set EXCEPT ![t] = r.set \cap set[e]]
      /\ set' = [set EXCEPT ![e] = IF "CLEAR" \in r.option THEN set[e] \ r.set ELSE set[e]]
  OBVIOUS
<1> HIDE DEF EventRecv
<1>2. /\ call[t] = "none" /\ event_set[t] = {} /\ t \notin Range(waitq[e])
      /\ Open(e) /\ \A x \in Thread : ~Flushing(x)
  BY <1>1, CallFinds
<1>3. \A x \in Thread \ {t} : UNCHANGED <<pc[x], call[x], event_set[x], event_info[x], err[x]>>
  BY <1>0, <1>1
<1>4. /\ pc'[t] = "got" /\ call'[t] = e /\ event_set'[t] = r.set \cap set[e]
      /\ event_set'[t] # {}
      /\ set'[e] = (IF "CLEAR" \in r.option THEN set[e] \ r.set ELSE set[e])
      /\ \A d \in Ev \ {e} : UNCHANGED <<set[d], exists[d]>>
  BY <1>0, <1>1, AsksWhat
<1>5. EvPlace' /\ \A d \in Ev \ {e} : Regroups(d)
  <2>1. \A x \in Thread : Acts(e, x)
    BY <1>2, <1>3, <1>4 DEF Acts
  <2>2. \A x \in Range(waitq[e]) : x \in Thread \ {t} /\ event_set[x] # {}
    BY <1>0, <1>2, CoreView DEF EvPlace
  <2>3. \A x \in Range(waitq'[e]) : event_set'[x] # {}
    BY <1>1, <1>3, <2>2
  <2> QED BY <1>4, <2>1, <2>3, OwnStep
<1>6. Open(e)'
  <2>1. \A x \in Thread : ~Flushing(x)'
    BY <1>2, <1>3, <1>4 DEF Flushing
  <2> QED BY <1>1, <2>1 DEF Open, Flushing
<1>7. Asked(e)' = Asked(e) /\ Asked(e)[t] = Nothings
  <2>1. \A x \in Thread : SameAsk(e, x)
    BY <1>1, <1>2, <1>3 DEF SameAsk
  <2>2. Ask(e, t) = Nothings
    BY <1>2 DEF Ask
  <2> QED BY <2>1, <2>2, SameView, GroupView
<1>8. Granted(e)' = [Granted(e) EXCEPT ![t] = r.set \cap set[e]] /\ Granted(e)[t] = {}
  <2>1. \A x \in Thread \ {t} : SameGrant(e, x)
    BY <1>1, <1>3 DEF SameGrant, Holding
  <2>2. Kept(e, t)' = r.set \cap set[e]
    BY <1>1, <1>2, <1>4 DEF Kept, Holding
  <2>3. Kept(e, t) = {}
    BY <1>2 DEF Kept
  <2> QED BY <2>1, <2>2, <2>3, SameView, GroupView
<1>9. Group(e)!Take(t)
  <2>1. PICK a : a = Asks(r)
    OBVIOUS
  <2>2. (IF Open(e) THEN set[e] ELSE {}) = set[e] /\ (IF Open(e) THEN set[e] ELSE {})' = set'[e]
    BY <1>2, <1>6
  <2>3. a \in Group(e)!Ask /\ Group(e)!Fulfilled(a, set[e]) /\ a.set = r.set
        /\ set'[e] = IF a.consume THEN set[e] \ a.set ELSE set[e]
    BY <1>1, <1>4, <2>1, AsksWhat
  <2>4. Granted(e)'[t] # {}
    BY <1>4, <1>8, GroupView
  <2>5. Group(e)!NoAsk = Nothings
    BY DEF Group!NoAsk, Nothings
  <2> QED BY <1>2, <1>6, <1>7, <1>8, <2>2, <2>3, <2>4, <2>5 DEF Group!Take
<1>10. Regroups(e)
  BY <1>9 DEF Regroups, Group!Next
<1> QED BY <1>5, <1>10

(* What a walk that finds the flags f gives to the threads it wakes.       *)
Consumers(w) == {x \in Range(w.woken) : "CLEAR" \in event_info[x]}

Gives(w, f) ==
  /\ \A x \in Range(w.woken) :
       /\ w.given[x] # {} /\ w.given[x] \subseteq event_set[x] \cap f
       /\ "AND" \in event_info[x] => w.given[x] = event_set[x]
  /\ \A x, y \in Consumers(w) : x # y => w.given[x] \cap w.given[y] = {}
  /\ w.flags = f \ UNION {w.given[x] : x \in Consumers(w)}

LEMMA ServeGives ==
  ASSUME NEW f, NEW w, w.woken \in Seq(Thread), w.given \in [Thread -> SUBSET Bit], Gives(w, f),
         NEW t \in Thread, t \notin Range(w.woken), event_set[t] # {}, event_set[t] \in SUBSET Bit
  PROVE  Gives(Serve(w, t), f)
<1>1. CASE ~Satisfied(event_set[t], event_info[t], w.flags)
  <2>1. Serve(w, t) = w
    BY <1>1 DEF Serve
  <2> QED BY <2>1
<1>2. CASE Satisfied(event_set[t], event_info[t], w.flags)
  <2>1. PICK got : got = event_set[t] \cap w.flags
    OBVIOUS
  <2>2. PICK v : v = Serve(w, t)
    OBVIOUS
  <2>3. v = [flags |-> IF "CLEAR" \in event_info[t] THEN w.flags \ got ELSE w.flags,
             given |-> [w.given EXCEPT ![t] = got], woken |-> Append(w.woken, t)]
    BY <1>2, <2>1, <2>2 DEF Serve
  <2>4. /\ v.flags = (IF "CLEAR" \in event_info[t] THEN w.flags \ got ELSE w.flags)
        /\ v.given = [w.given EXCEPT ![t] = got] /\ v.woken = Append(w.woken, t)
    BY <2>3
  <2>5. Range(v.woken) = Range(w.woken) \cup {t} /\ Range(w.woken) \subseteq Thread
    BY <2>4, AppendRange DEF Range
  <2>6. v.given[t] = got /\ \A x \in Range(w.woken) : v.given[x] = w.given[x]
    BY <2>4, <2>5
  <2>7. got # {} /\ got \subseteq w.flags /\ ("AND" \in event_info[t] => got = event_set[t])
    BY <1>2, <2>1 DEF Satisfied
  <2>8. w.flags = f \ UNION {w.given[x] : x \in Consumers(w)}
    BY DEF Gives
  <2>9. \A x \in Range(v.woken) :
          /\ v.given[x] # {} /\ v.given[x] \subseteq event_set[x] \cap f
          /\ "AND" \in event_info[x] => v.given[x] = event_set[x]
    BY <2>1, <2>5, <2>6, <2>7, <2>8 DEF Gives
  <2>10. \A x \in Consumers(w) : got \cap w.given[x] = {}
    BY <2>7, <2>8
  <2>11. CASE "CLEAR" \in event_info[t]
    <3>1. Consumers(v) = Consumers(w) \cup {t} /\ Consumers(w) \subseteq Range(w.woken)
      BY <2>5, <2>11 DEF Consumers
    <3>2. \A x, y \in Consumers(v) : x # y => v.given[x] \cap v.given[y] = {}
      BY <2>6, <2>10, <3>1 DEF Gives
    <3>3. UNION {v.given[x] : x \in Consumers(v)} = got \cup UNION {w.given[x] : x \in Consumers(w)}
      BY <2>6, <3>1
    <3>4. v.flags = f \ UNION {v.given[x] : x \in Consumers(v)}
      BY <2>4, <2>8, <2>11, <3>3
    <3> QED BY <2>2, <2>9, <3>2, <3>4 DEF Gives
  <2>12. CASE "CLEAR" \notin event_info[t]
    <3>1. Consumers(v) = Consumers(w) /\ Consumers(w) \subseteq Range(w.woken)
      BY <2>5, <2>12 DEF Consumers
    <3>2. \A x, y \in Consumers(v) : x # y => v.given[x] \cap v.given[y] = {}
      BY <2>6, <3>1 DEF Gives
    <3>3. {v.given[x] : x \in Consumers(v)} = {w.given[x] : x \in Consumers(w)}
      BY <2>6, <3>1
    <3>4. v.flags = f \ UNION {v.given[x] : x \in Consumers(v)}
      BY <2>4, <2>8, <2>12, <3>3
    <3> QED BY <2>2, <2>9, <3>2, <3>4 DEF Gives
  <2> QED BY <2>11, <2>12
<1> QED BY <1>1, <1>2

(* A send serves those whose flags it sets.                                *)
LEMMA WalkGives ==
  ASSUME CoreInv, EvInv, EvPlace, NEW e \in Ev, NEW s \in SUBSET Bit
  PROVE  Gives(Walk(e, s), set[e] \cup s)
<1>q. PICK q : q = waitq[e]
  OBVIOUS
<1>w. PICK n : n = Len(q)
  OBVIOUS
<1>f. PICK f : f = set[e] \cup s
  OBVIOUS
<1>n. n \in Nat /\ q \in Seq(Thread) /\ IsInjective(q) /\ EventTypeOK
  BY <1>q, <1>w, EventAssumption, CoreView DEF KernelInv, ListsConsistent, EvInv
<1>0. PICK F : /\ F[0] = [flags |-> f, given |-> event_set, woken |-> <<>>]
               /\ \A k \in 1 .. n : F[k] = Serve(F[k - 1], q[k])
               /\ Walk(e, s) = F[n]
  BY <1>n, <1>q, <1>w, <1>f, WalkSteps
<1> DEFINE P == {k \in 0 .. n : Served(q, k, F[k]) /\ Gives(F[k], f)}
<1>1. 0 \in P
  <2>1. {q[j] : j \in 1 .. 0} = {} /\ Range(<<>>) = {} /\ IsInjective(<<>>) /\ <<>> \in Seq(Thread)
    BY DEF Range, IsInjective
  <2>2. F[0].flags = set[e] \cup s /\ F[0].given = event_set /\ F[0].woken = <<>>
    BY <1>0, <1>f
  <2>3. set[e] \cup s \in SUBSET Bit /\ event_set \in [Thread -> SUBSET Bit]
    BY <1>n DEF EventTypeOK
  <2>4. Served(q, 0, F[0])
    BY <2>1, <2>2, <2>3 DEF Served
  <2>5. Consumers(F[0]) = {}
    BY <2>1, <2>2 DEF Consumers
  <2>6. Gives(F[0], f)
    BY <1>f, <2>1, <2>2, <2>5 DEF Gives
  <2> QED BY <1>n, <2>4, <2>6
<1>2. ASSUME NEW k \in 1 .. n, k - 1 \in P PROVE k \in P
  <2>1. Served(q, k - 1, F[k - 1]) /\ F[k] = Serve(F[k - 1], q[k]) /\ Gives(F[k - 1], f)
    BY <1>0, <1>2
  <2>2. Served(q, k, F[k])
    BY <1>n, <1>w, <2>1, ServeStep
  <2>3. PICK t \in Thread : t = q[k]
    BY <1>n, <1>w, ElementOfSeq
  <2>4. t \in Range(waitq[e]) /\ event_set[t] # {} /\ event_set[t] \in SUBSET Bit
    BY <1>n, <1>q, <1>w, <2>3 DEF Range, EvPlace, EventTypeOK
  <2>5. t \notin Range(F[k - 1].woken)
    <3>1. t \notin {q[j] : j \in 1 .. k - 1}
      BY <1>n, <1>w, <2>3 DEF IsInjective
    <3> QED BY <2>1, <3>1 DEF Served
  <2>6. Gives(F[k], f)
    BY <2>1, <2>3, <2>4, <2>5, ServeGives DEF Served
  <2> QED BY <1>n, <2>2, <2>6
<1>3. n \in P
  <2>1. 0 .. n \subseteq P
    <3> HIDE DEF P
    <3> QED BY <1>n, <1>1, <1>2, Stepwise
  <2>2. n \in 0 .. n
    BY <1>n
  <2> HIDE DEF P
  <2> QED BY <2>1, <2>2
<1> QED BY <1>0, <1>f, <1>3

(* rt_event_recv that suspends is Wait. *)
LEMMA EventWaitGroup ==
  ASSUME GroupInv, ObjectsInv', NEW t \in Thread \ {Idle}, NEW e \in Ev, NEW r \in Request, NEW n \in 0 .. MaxTime,
         EventWait(t, e, r, n), EvDoes(e), Range(waitq'[e]) = Range(waitq[e]) \cup {t}
  PROVE  EvPlace' /\ \A d \in Ev : Regroups(d)
<1> USE DEF EventWait, MayBlock, Block, SuspendFor, InUser, Running, Goto
<1>0. /\ CoreInv /\ EvPlace /\ e \in Obj /\ pc \in [Thread -> Pc] /\ call \in [Thread -> Call]
      /\ err \in [Thread -> Err] /\ set \in [Ev -> SUBSET Bit]
      /\ event_set \in [Thread -> SUBSET Bit] /\ event_info \in [Thread -> SUBSET {"AND", "OR", "CLEAR"}]
  BY EventAssumption, CoreView DEF GroupInv, ObjectsInv, EvInv, EventTypeOK
<1>1. /\ current = t /\ pc[t] = "run" /\ exists[e] /\ UNCHANGED <<exists, set>>
      /\ ~Satisfied(r.set, r.option, set[e])
      /\ pc' = [pc EXCEPT ![t] = "sched"] /\ call' = [call EXCEPT ![t] = e]
      /\ err' = [err EXCEPT ![t] = "EOK"]
      /\ event_set' = [event_set EXCEPT ![t] = r.set]
      /\ event_info' = [event_info EXCEPT ![t] = r.option]
  OBVIOUS
<1> HIDE DEF EventWait
<1>2. /\ call[t] = "none" /\ event_set[t] = {} /\ t \notin Range(waitq[e])
      /\ Open(e) /\ \A x \in Thread : ~Flushing(x)
  BY <1>1, CallFinds
<1>3. \A x \in Thread \ {t} : UNCHANGED <<pc[x], call[x], event_set[x], event_info[x], err[x]>>
  BY <1>0, <1>1
<1>4. /\ pc'[t] = "sched" /\ call'[t] = e /\ event_set'[t] = r.set /\ event_info'[t] = r.option
      /\ r.set # {} /\ \A d \in Ev \ {e} : UNCHANGED <<set[d], exists[d]>>
  BY <1>0, <1>1, EventAssumption
<1>5. EvPlace' /\ \A d \in Ev \ {e} : Regroups(d)
  <2>1. \A x \in Thread : Acts(e, x)
    BY <1>2, <1>3, <1>4 DEF Acts
  <2>2. \A x \in Range(waitq[e]) : x \in Thread \ {t} /\ event_set[x] # {}
    BY <1>0, <1>2, CoreView DEF EvPlace
  <2>3. \A x \in Range(waitq'[e]) : event_set'[x] # {}
    BY <1>3, <1>4, <2>2
  <2> QED BY <1>4, <2>1, <2>3, OwnStep
<1>6. Open(e)'
  <2>1. \A x \in Thread : ~Flushing(x)'
    BY <1>2, <1>3, <1>4 DEF Flushing
  <2> QED BY <1>1, <2>1 DEF Open, Flushing
<1>7. Asked(e)' = [Asked(e) EXCEPT ![t] = Asks(r)] /\ Asked(e)[t] = Nothings
  <2>1. \A x \in Thread \ {t} : SameAsk(e, x)
    BY <1>3 DEF SameAsk
  <2>2. Ask(e, t) = Nothings /\ Ask(e, t)' = Asks(r)
    BY <1>2, <1>4 DEF Ask, Wants, Asks
  <2> QED BY <2>1, <2>2, SameView, GroupView
<1>8. Granted(e)' = Granted(e) /\ Granted(e)[t] = {}
  <2>1. \A x \in Thread : SameGrant(e, x)
    BY <1>2, <1>3, <1>4 DEF SameGrant, Holding
  <2>2. Kept(e, t) = {}
    BY <1>2 DEF Kept
  <2> QED BY <2>1, <2>2, SameView, GroupView
<1>9. Group(e)!Wait(t)
  <2>1. PICK a : a = Asks(r)
    OBVIOUS
  <2>2. (IF Open(e) THEN set[e] ELSE {}) = set[e] /\ (IF Open(e) THEN set[e] ELSE {})' = set[e]
    BY <1>1, <1>2, <1>6
  <2>3. a \in Group(e)!Ask /\ ~Group(e)!Fulfilled(a, set[e]) /\ a # Nothings
    BY <1>1, <2>1, AsksWhat
  <2>4. Asked(e)'[t] = a
    BY <1>7, <2>1, GroupView
  <2>5. Group(e)!NoAsk = Nothings
    BY DEF Group!NoAsk, Nothings
  <2> QED BY <1>2, <1>6, <1>7, <1>8, <2>1, <2>2, <2>3, <2>4, <2>5 DEF Group!Wait
<1>10. Regroups(e)
  BY <1>9 DEF Regroups, Group!Next
<1> QED BY <1>5, <1>10

(* The call that has its flags, or an error, returns. *)
LEMMA EventReturnGroup ==
  ASSUME GroupInv, ObjectsInv', NEW t \in Thread, NEW e \in Ev, call[t] = e, EventReturn(t), EvDoes(e)
  PROVE  EvPlace' /\ \A d \in Ev : Regroups(d)
<1> USE DEF EventReturn, At, Running, Goto, queueVars, threadVars
<1>0. /\ CoreInv /\ EvPlace /\ e \in Obj /\ pc \in [Thread -> Pc] /\ call \in [Thread -> Call]
      /\ event_set \in [Thread -> SUBSET Bit] /\ event_info \in [Thread -> SUBSET {"AND", "OR", "CLEAR"}]
      /\ pc[Idle] = "run" /\ "none" \notin Obj
  BY EventAssumption, CoreView DEF GroupInv, ObjectsInv, EvInv, EventTypeOK
<1>1. /\ current = t /\ pc[t] \in {"got", "blocked"} /\ UNCHANGED <<waitq, err, exists, set, stat>>
      /\ pc' = [pc EXCEPT ![t] = "run"] /\ call' = [call EXCEPT ![t] = "none"]
      /\ event_set' = [event_set EXCEPT ![t] = {}]
      /\ event_info' = [event_info EXCEPT ![t] = {}]
  OBVIOUS
<1> HIDE DEF EventReturn
<1>2. t # Idle /\ t \notin Range(waitq[e])
  BY <1>0, <1>1, CoreView
<1>3. \A x \in Thread \ {t} : UNCHANGED <<pc[x], call[x], event_set[x], event_info[x], err[x]>>
  BY <1>0, <1>1
<1>4. /\ pc'[t] = "run" /\ call'[t] = "none" /\ event_set'[t] = {}
      /\ \A d \in Ev \ {e} : UNCHANGED <<set[d], exists[d]>>
  BY <1>0, <1>1
<1>5. EvPlace' /\ \A d \in Ev \ {e} : Regroups(d)
  <2>1. \A x \in Thread : Acts(e, x)
    BY <1>3, <1>4 DEF Acts
  <2>2. \A x \in Range(waitq[e]) : x \in Thread \ {t} /\ event_set[x] # {}
    BY <1>0, <1>2, CoreView DEF EvPlace
  <2>3. \A x \in Range(waitq'[e]) : event_set'[x] # {}
    BY <1>1, <1>3, <2>2
  <2> QED BY <1>4, <2>1, <2>3, OwnStep
<1>6. Open(e)' = Open(e)
  <2>1. \A x \in Thread : Flushing(x)' /\ call'[x] = e <=> Flushing(x) /\ call[x] = e
    BY <1>0, <1>1, <1>3, <1>4 DEF Flushing
  <2> QED BY <1>1, <2>1 DEF Open, Flushing
<1>7. \A x \in Thread : SameAsk(e, x)
  BY <1>1, <1>2, <1>3 DEF SameAsk
<1>8. \A x \in Thread \ {t} : SameGrant(e, x)
  BY <1>1, <1>3 DEF SameGrant, Holding
<1>9. CASE ~Holding(e, t)
  <2>1. SameGrant(e, t)
    BY <1>4, <1>9 DEF SameGrant, Holding
  <2> QED BY <1>1, <1>5, <1>6, <1>7, <1>8, <2>1, GroupSame
<1>10. CASE Holding(e, t)
  <2>1. Kept(e, t)' = {} /\ Kept(e, t) # {}
    BY <1>4, <1>10 DEF Kept, Holding
  <2>2. Granted(e)' = [Granted(e) EXCEPT ![t] = {}] /\ Granted(e)[t] # {}
    BY <1>2, <1>8, <2>1, SameView, GroupView
  <2>3. Asked(e)' = Asked(e)
    BY <1>7, SameView, GroupView
  <2>4. (IF Open(e) THEN set[e] ELSE {})' = (IF Open(e) THEN set[e] ELSE {})
    BY <1>1, <1>6
  <2>5. Group(e)!Return(t)
    BY <1>6, <2>2, <2>3, <2>4 DEF Group!Return
  <2>6. Regroups(e)
    BY <1>2, <2>5 DEF Regroups, Group!Next
  <2> QED BY <1>5, <2>6
<1> QED BY <1>9, <1>10

(* A reset is Clear. *)
LEMMA EventResetGroup ==
  ASSUME GroupInv, ObjectsInv', NEW t \in Thread \ {Idle}, NEW e \in Ev,
         EventReset(t, e), EvDoes(e), Range(waitq'[e]) = {}
  PROVE  EvPlace' /\ \A d \in Ev : Regroups(d)
<1> USE DEF EventReset, InUser, Running, Goto, WakeAllWithError
<1>0. /\ CoreInv /\ EvPlace /\ e \in Obj /\ pc \in [Thread -> Pc] /\ set \in [Ev -> SUBSET Bit]
      /\ Range(waitq[e]) \subseteq Thread /\ "none" # e
      /\ \A x \in Range(waitq[e]) : call[x] = e /\ pc[x] \in {"sched", "blocked"} /\ event_set[x] # {}
  BY EventAssumption, CoreView DEF GroupInv, ObjectsInv, EvInv, EventTypeOK, EvPlace
<1>1. /\ current = t /\ pc[t] = "run" /\ exists[e] /\ UNCHANGED <<exists, call, event_set, event_info>>
      /\ pc' = [pc EXCEPT ![t] = "sched"] /\ set' = [set EXCEPT ![e] = {}]
      /\ err' = [x \in Thread |-> IF x \in Range(waitq[e]) THEN "ERROR" ELSE err[x]]
  OBVIOUS
<1> HIDE DEF EventReset
<1>2. /\ call[t] = "none" /\ event_set[t] = {} /\ t \notin Range(waitq[e])
      /\ Open(e) /\ \A x \in Thread : ~Flushing(x)
  BY <1>1, CallFinds
<1>3. \A x \in Thread \ {t} : UNCHANGED <<pc[x], call[x]>>
  BY <1>0, <1>1
<1>4. /\ pc'[t] = "sched" /\ set'[e] = {}
      /\ \A d \in Ev \ {e} : UNCHANGED <<set[d], exists[d]>>
  BY <1>0, <1>1
<1>5. EvPlace' /\ \A d \in Ev \ {e} : Regroups(d)
  <2>1. \A x \in Thread : Acts(e, x)
    BY <1>1, <1>2, <1>3 DEF Acts
  <2> QED BY <1>4, <2>1, OwnStep
<1>6. Open(e)'
  <2>1. \A x \in Thread : ~Flushing(x)'
    BY <1>2, <1>3, <1>4 DEF Flushing
  <2> QED BY <1>1, <2>1 DEF Open, Flushing
<1>7. Asked(e)' = [x \in Thread \ {Idle} |-> Nothings]
  <2>1. \A x \in Thread : Ask(e, x)' = Nothings
    BY DEF Ask
  <2> QED BY <2>1, GroupView
<1>8. \A x \in Thread : SameGrant(e, x)
  <2>1. ASSUME NEW x \in Thread \ Range(waitq[e]) PROVE SameGrant(e, x)
    <3>1. UNCHANGED <<err[x], call[x], event_set[x]>> /\ x \notin Range(waitq'[e])
      BY <1>1
    <3>2. call[x] = e => UNCHANGED pc[x]
      BY <1>0, <1>2, <1>3
    <3> QED BY <3>1, <3>2 DEF SameGrant, Holding
  <2>2. ASSUME NEW x \in Range(waitq[e]) PROVE SameGrant(e, x)
    <3>1. x \in Thread \ {t} /\ pc[x] # "got"
      BY <1>0, <1>2, <2>2
    <3>2. err'[x] = "ERROR" /\ pc'[x] # "got"
      BY <1>1, <1>3, <2>2, <3>1
    <3> QED BY <2>2, <3>2 DEF SameGrant, Holding
  <2> QED BY <2>1, <2>2
<1>9. Granted(e)' = Granted(e)
  BY <1>8, SameView, GroupView
<1>10. Group(e)!Clear
  <2>1. (IF Open(e) THEN set[e] ELSE {})' = {}
    BY <1>4
  <2>2. Group(e)!NoAsk = Nothings
    BY DEF Group!NoAsk, Nothings
  <2> QED BY <1>2, <1>6, <1>7, <1>9, <2>1, <2>2 DEF Group!Clear
<1>11. Regroups(e)
  BY <1>10 DEF Regroups, Group!Next
<1> QED BY <1>5, <1>11

(* A detach that begins is Close; the waiting clients are turned away      *)
(* afterwards.                                                             *)
LEMMA EventDetachGroup ==
  ASSUME GroupInv, ObjectsInv', NEW e \in Ev, EventDetach(Main, e), EvDoes(e)
  PROVE  EvPlace' /\ \A d \in Ev : Regroups(d)
<1> USE DEF EventDetach, Detach, InUser, Running, Goto, queueVars, threadVars, eventVars
<1>0. /\ CoreInv /\ EvPlace /\ e \in Obj /\ pc \in [Thread -> Pc] /\ call \in [Thread -> Call] /\ Main \in Thread
  BY EventAssumption, KernelAssumption, CoreView DEF GroupInv, ObjectsInv, Prio
<1>1. /\ current = Main /\ pc[Main] = "run" /\ exists[e]
      /\ UNCHANGED <<exists, waitq, err, set, event_set, event_info>>
      /\ pc' = [pc EXCEPT ![Main] = "flush"] /\ call' = [call EXCEPT ![Main] = e]
  OBVIOUS
<1> HIDE DEF EventDetach
<1>2. /\ call[Main] = "none" /\ event_set[Main] = {} /\ Open(e)
  BY <1>0, <1>1, CallFinds
<1>3. \A x \in Thread \ {Main} : UNCHANGED <<pc[x], call[x]>>
  BY <1>0, <1>1
<1>4. pc'[Main] = "flush" /\ call'[Main] = e
  BY <1>0, <1>1
<1>5. EvPlace' /\ \A d \in Ev \ {e} : Regroups(d)
  <2>1. \A x \in Thread : Acts(e, x)
    BY <1>1, <1>2, <1>3, <1>4 DEF Acts
  <2>2. \A x \in Range(waitq'[e]) : event_set'[x] # {}
    BY <1>0, <1>1 DEF EvPlace
  <2> QED BY <1>1, <2>1, <2>2, OwnStep
<1>6. ~Open(e)'
  BY <1>0, <1>4 DEF Open
<1>7. \A x \in Thread : SameAsk(e, x) /\ SameGrant(e, x)
  <2>1. \A x \in Thread : SameAsk(e, x)
    BY <1>1 DEF SameAsk
  <2>2. \A x \in Thread : SameGrant(e, x)
    BY <1>1, <1>2, <1>3 DEF SameGrant, Holding
  <2> QED BY <2>1, <2>2
<1>8. Asked(e)' = Asked(e) /\ Granted(e)' = Granted(e)
  BY <1>7, SameView, GroupView
<1>9. Group(e)!Close
  <2>1. (IF Open(e) THEN set[e] ELSE {})' = {} /\ Open(e)' = FALSE
    BY <1>6 DEF Open
  <2> QED BY <1>2, <1>8, <2>1 DEF Group!Close
<1>10. Regroups(e)
  BY <1>9 DEF Regroups, Group!Next
<1> QED BY <1>5, <1>10

LEMMA EventEndGroup ==
  ASSUME GroupInv, ObjectsInv', NEW t \in Thread, NEW e \in Ev, call[t] = e,
         FlushEnd(t), UNCHANGED eventVars, EvDoes(e)
  PROVE  EvPlace' /\ \A d \in Ev : Regroups(d)
<1> USE DEF FlushEnd, At, Running, Goto, queueVars, threadVars, eventVars
<1>0. /\ CoreInv /\ EvPlace /\ e \in Obj /\ pc \in [Thread -> Pc] /\ call \in [Thread -> Call]
      /\ exists \in [Obj -> BOOLEAN] /\ Ev \subseteq Obj /\ "none" \notin Obj
  BY EventAssumption, CoreView DEF GroupInv, ObjectsInv
<1>1. /\ pc[t] = "flush" /\ UNCHANGED <<waitq, err, set, event_set, event_info>>
      /\ exists' = [exists EXCEPT ![e] = FALSE]
      /\ pc' = [pc EXCEPT ![t] = "run"] /\ call' = [call EXCEPT ![t] = "none"]
  OBVIOUS
<1> HIDE DEF FlushEnd
<1>2. event_set[t] = {}
  BY <1>0, <1>1 DEF EvPlace
<1>3. \A x \in Thread \ {t} : UNCHANGED <<pc[x], call[x]>>
  BY <1>0, <1>1
<1>4. /\ pc'[t] = "run" /\ call'[t] = "none" /\ exists'[e] = FALSE
      /\ \A d \in Ev \ {e} : UNCHANGED <<set[d], exists[d]>>
  BY <1>0, <1>1
<1>5. EvPlace' /\ \A d \in Ev \ {e} : Regroups(d)
  <2>1. \A x \in Thread : Acts(e, x)
    BY <1>1, <1>2, <1>3, <1>4 DEF Acts
  <2>2. \A x \in Range(waitq'[e]) : event_set'[x] # {}
    BY <1>0, <1>1 DEF EvPlace
  <2> QED BY <1>4, <2>1, <2>2, OwnStep
<1>6. ~Open(e) /\ ~Open(e)'
  BY <1>1, <1>4 DEF Open
<1>7. \A x \in Thread : SameAsk(e, x)
  BY <1>1 DEF SameAsk
<1>8. \A x \in Thread : SameGrant(e, x)
  BY <1>0, <1>1, <1>2, <1>3 DEF SameGrant, Holding
<1>9. Open(e)' = Open(e)
  BY <1>6 DEF Open
<1> QED BY <1>1, <1>5, <1>7, <1>8, <1>9, GroupSame

(* rt_event_init is Open. *)
LEMMA EventInitGroup ==
  ASSUME GroupInv, ObjectsInv', NEW e \in Ev, EventInit(Main, e), EvDoes(e)
  PROVE  EvPlace' /\ \A d \in Ev : Regroups(d)
<1> USE DEF EventInit, ObjectInit, InUser, Running, threadVars, callVars
<1>0. /\ CoreInv /\ EvPlace /\ e \in Obj /\ set \in [Ev -> SUBSET Bit] /\ Main \in Thread
      /\ exists \in [Obj -> BOOLEAN] /\ Ev \subseteq Obj /\ Gone(Ev) /\ waitq \in [Obj -> Seq(Thread)]
  BY EventAssumption, KernelAssumption, CoreView DEF GroupInv, ObjectsInv, EvInv, EventTypeOK, Prio
<1>1. /\ current = Main /\ pc[Main] = "run" /\ ~exists[e]
      /\ UNCHANGED <<pc, call, err, event_set, event_info>>
      /\ exists' = [exists EXCEPT ![e] = TRUE] /\ waitq' = [waitq EXCEPT ![e] = <<>>]
      /\ set' = [set EXCEPT ![e] = {}]
  OBVIOUS
<1> HIDE DEF EventInit
<1>2. /\ waitq'[e] = waitq[e] /\ Range(waitq[e]) = {} /\ exists'[e] /\ set'[e] = {}
      /\ \A d \in Ev \ {e} : UNCHANGED <<set[d], exists[d]>>
  <2>1. waitq[e] = <<>>
    BY <1>0, <1>1 DEF Gone
  <2>2. Range(waitq[e]) = {}
    BY <2>1 DEF Range
  <2> QED BY <1>0, <1>1, <2>1, <2>2
<1>3. ~Open(e) /\ \A x \in Thread : ~Flushing(x)
  BY <1>0, <1>1, CallFinds
<1>4. Open(e)'
  BY <1>1, <1>2, <1>3 DEF Open, Flushing
<1>5. EvPlace' /\ \A d \in Ev \ {e} : Regroups(d)
  <2>1. \A x \in Thread : Acts(e, x)
    BY <1>1 DEF Acts
  <2> QED BY <1>2, <2>1, OwnStep
<1>6. Asked(e)' = Asked(e) /\ \A x \in Thread \ {Idle} : Asked(e)[x] = Nothings
  <2>1. \A x \in Thread : SameAsk(e, x) /\ Ask(e, x) = Nothings
    BY <1>2 DEF SameAsk, Ask
  <2> QED BY <2>1, SameView, GroupView
<1>7. Granted(e)' = Granted(e)
  <2>1. \A x \in Thread : SameGrant(e, x)
    BY <1>1, <1>2 DEF SameGrant, Holding
  <2> QED BY <2>1, SameView, GroupView
<1>8. Group(e)!Open
  <2>1. Group(e)!Waiting = {}
    BY <1>6 DEF Group!Waiting, Group!NoAsk, Nothings
  <2>2. (IF Open(e) THEN set[e] ELSE {})' = {} /\ Open(e)' = TRUE
    BY <1>2, <1>4 DEF Open
  <2> QED BY <1>3, <1>6, <1>7, <2>1, <2>2 DEF Group!Open
<1>9. Regroups(e)
  BY <1>8 DEF Regroups, Group!Next
<1> QED BY <1>5, <1>9

LEMMA WantsWhat ==
  ASSUME NEW x
  PROVE  /\ Wants(x).set = event_set[x]
         /\ Wants(x).all <=> "AND" \in event_info[x]
         /\ Wants(x).consume <=> "CLEAR" \in event_info[x]
BY DEF Wants

(* rt_event_send, by a thread or by an interrupt handler, is Send.         *)
LEMMA SendGroup ==
  ASSUME GroupInv, ObjectsInv', NEW e \in Ev, NEW s \in (SUBSET Bit) \ {{}}, SendSet(e, s), EvDoes(e),
         Range(waitq'[e]) = Range(waitq[e]) \ Range(Walk(e, s).woken),
         UNCHANGED <<err, call>>, Open(e),
         \A x \in Thread : UNCHANGED pc[x] \/ (call[x] = "none" /\ event_set[x] = {} /\ ~Flushing(x)')
  PROVE  EvPlace' /\ \A d \in Ev : Regroups(d)
<1> USE DEF SendSet
<1>w. PICK w : w = Walk(e, s)
  OBVIOUS
<1>r. PICK woken : woken = Range(w.woken)
  OBVIOUS
<1>0. /\ CoreInv /\ EvPlace /\ EvInv /\ e \in Obj /\ "none" # e /\ set \in [Ev -> SUBSET Bit]
      /\ event_set \in [Thread -> SUBSET Bit] /\ event_info \in [Thread -> SUBSET {"AND", "OR", "CLEAR"}]
      /\ Range(waitq[e]) \subseteq Thread \ {Idle}
      /\ \A x \in Range(waitq[e]) :
           call[x] = e /\ pc[x] \in {"sched", "blocked"} /\ err[x] = "EOK" /\ event_set[x] # {}
  <2>1. CoreInv /\ EvPlace /\ EvInv /\ e \in Obj
    BY EventAssumption DEF GroupInv, ObjectsInv
  <2>2. EventTypeOK
    BY <2>1 DEF EvInv
  <2>3. "none" # e /\ Range(waitq[e]) \subseteq Thread \ {Idle}
    BY <2>1, CoreView
  <2>4. \A x \in Range(waitq[e]) : call[x] = e /\ pc[x] \in {"sched", "blocked"} /\ err[x] = "EOK"
    BY <2>1, CoreView
  <2>5. \A x \in Range(waitq[e]) : event_set[x] # {}
    BY <2>1 DEF EvPlace
  <2> QED BY <2>1, <2>2, <2>3, <2>4, <2>5 DEF EventTypeOK
<1>1. /\ exists[e] /\ UNCHANGED <<exists, err, call>> /\ set' = [set EXCEPT ![e] = w.flags]
      /\ event_set' = w.given
      /\ event_info' = [x \in Thread |-> IF x \in woken THEN {} ELSE event_info[x]]
      /\ Range(waitq'[e]) = Range(waitq[e]) \ woken
  BY <1>w, <1>r
<1> HIDE DEF SendSet
<1>2. woken \subseteq Range(waitq[e]) /\ woken \subseteq Thread \ {Idle}
  BY <1>0, <1>w, <1>r, WalkWakes
<1>3. /\ w.given \in [Thread -> SUBSET Bit] /\ w.flags \in SUBSET Bit
      /\ \A x \in Thread \ woken : w.given[x] = event_set[x]
  <2>1. PICK q : q = waitq[e]
    OBVIOUS
  <2>2. q \in Seq(Thread) /\ IsInjective(q)
    BY <1>0, <2>1, CoreView DEF KernelInv, ListsConsistent
  <2>3. Served(q, Len(q), w)
    BY <1>0, <1>w, <2>1, <2>2, WalkProperties DEF EvInv
  <2> QED BY <1>r, <2>3 DEF Served
<1>4. Gives(w, set[e] \cup s)
  BY <1>0, <1>w, WalkGives
<1>5. /\ \A x \in Thread \ woken : UNCHANGED <<event_set[x], event_info[x]>>
      /\ \A x \in woken : event_set'[x] = w.given[x] /\ event_set'[x] # {}
      /\ set'[e] = w.flags /\ \A d \in Ev \ {e} : UNCHANGED <<set[d], exists[d]>>
  BY <1>0, <1>1, <1>2, <1>3, <1>4, <1>r DEF Gives
<1>6. EvPlace' /\ \A d \in Ev \ {e} : Regroups(d)
  <2>1. ASSUME NEW x \in Thread PROVE Acts(e, x)
    <3>1. CASE x \in woken
      <4>1. UNCHANGED <<pc[x], call[x]>> /\ call[x] = e /\ event_set[x] # {}
        BY <1>0, <1>1, <1>2, <3>1
      <4> QED BY <4>1 DEF Acts
    <3>2. CASE x \notin woken
      BY <1>1, <1>5, <3>2 DEF Acts
    <3> QED BY <3>1, <3>2
  <2>2. \A x \in Range(waitq'[e]) : event_set'[x] # {}
    BY <1>0, <1>1, <1>5
  <2> QED BY <1>5, <2>1, <2>2, OwnStep
<1>7. Open(e)'
  <2>1. \A x \in Thread : Flushing(x)' => Flushing(x)
    BY <1>0 DEF Flushing
  <2> QED BY <1>1, <2>1 DEF Open, Flushing
<1>8. /\ \A x \in woken : Ask(e, x)' = Nothings /\ Kept(e, x)' = w.given[x]
      /\ \A x \in Thread \ woken : Ask(e, x)' = Ask(e, x) /\ Kept(e, x)' = Kept(e, x)
      /\ \A x \in Range(waitq[e]) \ woken : Kept(e, x)' = {}
  <2>1. ASSUME NEW x \in woken PROVE Ask(e, x)' = Nothings /\ Kept(e, x)' = w.given[x]
    <3>1. x \notin Range(waitq'[e]) /\ call'[x] = e /\ err'[x] = "EOK"
      BY <1>0, <1>1, <1>2
    <3> QED BY <1>5, <3>1 DEF Ask, Kept, Holding
  <2>2. ASSUME NEW x \in Thread \ woken
        PROVE  Ask(e, x)' = Ask(e, x) /\ Kept(e, x)' = Kept(e, x)
    <3>1. SameAsk(e, x)
      BY <1>1, <1>5 DEF SameAsk
    <3>2. call[x] = e => UNCHANGED pc[x]
      BY <1>0
    <3>3. SameGrant(e, x)
      BY <1>1, <1>5, <3>2 DEF SameGrant, Holding
    <3> QED BY <3>1, <3>3, SameView
  <2>3. \A x \in Range(waitq[e]) \ woken : Kept(e, x)' = {}
    BY <1>1 DEF Kept, Holding
  <2> QED BY <2>1, <2>2, <2>3
<1>9. \A x \in Thread : /\ x \in Range(waitq[e]) => Ask(e, x) = Wants(x) /\ Ask(e, x) # Nothings
                        /\ x \notin Range(waitq[e]) => Ask(e, x) = Nothings
  BY <1>0 DEF Ask, Wants, Nothings
<1>10. Group(e)!Send(s)
  <2>1. /\ (IF Open(e) THEN set[e] ELSE {}) = set[e] /\ (IF Open(e) THEN set[e] ELSE {})' = w.flags
        /\ Open(e) /\ Open(e)' = Open(e)
    BY <1>5, <1>7 DEF Open
  <2>2. Group(e)!NoAsk = Nothings
    BY DEF Group!NoAsk, Nothings
  <2>3. \A x \in Thread \ {Idle} : /\ Asked(e)[x] = Ask(e, x) /\ Asked(e)'[x] = Ask(e, x)'
                                   /\ Granted(e)[x] = Kept(e, x) /\ Granted(e)'[x] = Kept(e, x)'
    BY GroupView
  <2>4. Group(e)!Waiting = Range(waitq[e])
    BY <1>0, <1>9, <2>2, <2>3 DEF Group!Waiting
  <2>w. ASSUME NEW c \in Range(waitq[e])
        PROVE  /\ Asked(e)[c].set = event_set[c]
               /\ Asked(e)[c].all <=> "AND" \in event_info[c]
               /\ Asked(e)[c].consume <=> "CLEAR" \in event_info[c]
    <3>1. PICK a : a = Asked(e)[c]
      OBVIOUS
    <3>2. a = Wants(c)
      BY <1>0, <1>9, <2>3, <3>1
    <3> QED BY <3>1, <3>2, WantsWhat
  <2>5. {c \in Group(e)!Waiting : Granted(e)'[c] # {}} = woken
    BY <1>0, <1>2, <1>5, <1>8, <2>3, <2>4
  <2>6. {c \in woken : Asked(e)[c].consume} = Consumers(w)
    BY <1>2, <1>r, <2>w DEF Consumers
  <2>7. Asked(e)' = [c \in Thread \ {Idle} |-> IF c \in woken THEN Nothings ELSE Asked(e)[c]]
    <3>1. \A c \in Thread \ {Idle} : Ask(e, c)' = IF c \in woken THEN Nothings ELSE Asked(e)[c]
      BY <1>8, <2>3
    <3>2. Asked(e)' = [c \in Thread \ {Idle} |-> Ask(e, c)']
      BY GroupView
    <3> QED BY <3>1, <3>2
  <2>8. \A c \in (Thread \ {Idle}) \ woken : Granted(e)'[c] = Granted(e)[c]
    BY <1>8, <2>3
  <2>9. DOMAIN Granted(e)' = Thread \ {Idle}
    BY GroupView
  <2>10. \A c \in woken : /\ Granted(e)'[c] \subseteq Asked(e)[c].set \cap (set[e] \cup s)
                          /\ Asked(e)[c].all => Granted(e)'[c] = Asked(e)[c].set
    BY <1>2, <1>4, <1>8, <1>r, <2>3, <2>w DEF Gives
  <2>11. \A c \in woken : Granted(e)'[c] = w.given[c]
    BY <1>2, <1>8, <2>3
  <2>12. Consumers(w) \subseteq woken
    BY <1>r DEF Consumers
  <2>13. \A c, d \in Consumers(w) : c # d => Granted(e)'[c] \cap Granted(e)'[d] = {}
    BY <1>4, <2>11, <2>12 DEF Gives
  <2>14. w.flags = (set[e] \cup s) \ UNION {Granted(e)'[c] : c \in Consumers(w)}
    BY <1>4, <2>11, <2>12 DEF Gives
  <2>15. ASSUME NEW c \in Range(waitq[e]) \ woken PROVE ~Group(e)!Fulfilled(Asked(e)[c], w.flags)
    <3>1. c \in Range(waitq'[e]) /\ c \in Thread \ {Idle}
      BY <1>0, <1>1
    <3>2. ~Satisfied(event_set'[c], event_info'[c], set'[e])
      BY <3>1 DEF ObjectsInv, EvInv, NobodyMissesFlags, Satisfied
    <3>3. ~Satisfied(event_set[c], event_info[c], w.flags)
      BY <1>5, <3>1, <3>2
    <3> QED BY <2>w, <3>3 DEF Satisfied, Group!Fulfilled
  <2> DEFINE flags == IF Open(e) THEN set[e] ELSE {}
             served == {c \in Group(e)!Waiting : Granted(e)'[c] # {}}
             consumers == {c \in served : Asked(e)[c].consume}
  <2>16. served = woken /\ consumers = Consumers(w) /\ flags = set[e] /\ flags' = w.flags
    BY <2>1, <2>5, <2>6
  <2> HIDE DEF flags, served, consumers
  <2>17. Asked(e)' = [c \in Thread \ {Idle} |-> IF c \in served THEN Group(e)!NoAsk ELSE Asked(e)[c]]
    BY <2>2, <2>7, <2>16
  <2>18. \A c \in (Thread \ {Idle}) \ served : Granted(e)'[c] = Granted(e)[c]
    BY <2>8, <2>16
  <2>19. \A c \in served : /\ Granted(e)'[c] \subseteq Asked(e)[c].set \cap (flags \cup s)
                           /\ Asked(e)[c].all => Granted(e)'[c] = Asked(e)[c].set
    BY <2>10, <2>16
  <2>20. \A c, d \in consumers : c # d => Granted(e)'[c] \cap Granted(e)'[d] = {}
    BY <2>13, <2>16
  <2>21. flags' = (flags \cup s) \ UNION {Granted(e)'[c] : c \in consumers}
    BY <2>14, <2>16
  <2>22. \A c \in Group(e)!Waiting \ served : ~Group(e)!Fulfilled(Asked(e)[c], flags')
    BY <2>4, <2>15, <2>16
  <2> QED BY Zenon, <2>1, <2>9, <2>17, <2>18, <2>19, <2>20, <2>21, <2>22 DEF Group!Send, flags, served, consumers
<1>11. Regroups(e)
  BY <1>10 DEF Regroups, Group!Next
<1> QED BY <1>6, <1>11

LEMMA EventSendGroup ==
  ASSUME GroupInv, ObjectsInv', NEW t \in Thread \ {Idle}, NEW e \in Ev, NEW s \in (SUBSET Bit) \ {{}},
         EventSend(t, e, s), EvDoes(e), Range(waitq'[e]) = Range(waitq[e]) \ Range(Walk(e, s).woken)
  PROVE  EvPlace' /\ \A d \in Ev : Regroups(d)
<1>1. /\ current = t /\ pc[t] = "run" /\ exists[e] /\ SendSet(e, s) /\ UNCHANGED <<err, call>>
      /\ pc' = [pc EXCEPT ![t] = IF Walk(e, s).woken # <<>> THEN "sched" ELSE "run"]
  BY DEF EventSend, SendSet, InUser, Running, Goto
<1>2. call[t] = "none" /\ event_set[t] = {} /\ Open(e)
  BY <1>1, CallFinds
<1>3. pc \in [Thread -> Pc]
  BY CoreView DEF GroupInv, ObjectsInv
<1>4. pc'[t] \in {"sched", "run"} /\ \A x \in Thread \ {t} : UNCHANGED pc[x]
  BY <1>1, <1>3
<1>5. \A x \in Thread : UNCHANGED pc[x] \/ (call[x] = "none" /\ event_set[x] = {} /\ ~Flushing(x)')
  BY <1>2, <1>4 DEF Flushing
<1> QED BY <1>1, <1>2, <1>5, SendGroup

LEMMA IsrEventSendGroup ==
  ASSUME GroupInv, ObjectsInv', Guarded, NEW e \in Ev, NEW s \in (SUBSET Bit) \ {{}},
         IsrEventSend(e, s), EvDoes(e), Range(waitq'[e]) = Range(waitq[e]) \ Range(Walk(e, s).woken)
  PROVE  EvPlace' /\ \A d \in Ev : Regroups(d)
<1>1. exists[e] /\ SendSet(e, s) /\ UNCHANGED <<err, pc, call>>
  BY DEF IsrEventSend, SendSet, callVars
<1>2. Open(e)
  BY <1>1 DEF IsrEventSend, Open
<1> QED BY <1>1, <1>2, SendGroup

(* Whatever threads and interrupt handlers do with events.                 *)
LEMMA EventsGroup ==
  ASSUME GroupInv, ObjectsInv', Guarded, EventsNext
  PROVE  EvPlace' /\ \A d \in Ev : Regroups(d)
<1>0. CoreInv /\ EvInv /\ exists \in [Obj -> BOOLEAN]
  BY DEF GroupInv, ObjectsInv
<1>1. CASE \E t \in Thread : InEventCall(t)
  <2>1. PICK t \in Thread : InEventCall(t)
    BY <1>1
  <2>2. PICK e \in Ev : call[t] = e
    BY <2>1 DEF InEventCall, EventReturn
  <2>3. CASE EventReturn(t)
    BY <1>0, <2>2, <2>3, EventReturnStep, EventReturnGroup
  <2>4. CASE FlushEnd(t) /\ UNCHANGED eventVars
    BY <1>0, <2>2, <2>4, EventEndStep, EventEndGroup
  <2> QED BY <2>1, <2>3, <2>4 DEF InEventCall
<1>2. CASE \E t \in Thread \ {Idle} : EventCall(t)
  <2>1. PICK t \in Thread \ {Idle} : EventCall(t)
    BY <1>2
  <2>2. PICK e \in Ev : \/ \E r \in Request : \/ EventRecv(t, e, r)
                                              \/ \E n \in 0 .. MaxTime : EventWait(t, e, r, n)
                        \/ \E b \in Bit : EventSend(t, e, {b})
                        \/ EventReset(t, e)
    BY <2>1 DEF EventCall
  <2>3. ASSUME NEW r \in Request, EventRecv(t, e, r) PROVE EvPlace' /\ \A d \in Ev : Regroups(d)
    BY <1>0, <2>3, EventRecvStep, EventRecvGroup
  <2>4. ASSUME NEW r \in Request, NEW n \in 0 .. MaxTime, EventWait(t, e, r, n)
        PROVE  EvPlace' /\ \A d \in Ev : Regroups(d)
    BY <1>0, <2>4, EventWaitStep, EventWaitGroup
  <2>5. ASSUME NEW b \in Bit, EventSend(t, e, {b}) PROVE EvPlace' /\ \A d \in Ev : Regroups(d)
    <3>1. PICK s \in (SUBSET Bit) \ {{}} : s = {b}
      OBVIOUS
    <3>2. EventSend(t, e, s) /\ s \in SUBSET Bit
      BY <2>5, <3>1
    <3> QED BY <1>0, <3>2, EventSendStep, EventSendGroup
  <2>6. CASE EventReset(t, e)
    BY <1>0, <2>6, EventResetStep, EventResetGroup
  <2> QED BY <2>2, <2>3, <2>4, <2>5, <2>6
<1>3. CASE \E e \in Ev : EventInit(Main, e) \/ EventDetach(Main, e)
  BY <1>0, <1>3, EventInitStep, EventDetachStep, EventInitGroup, EventDetachGroup
<1>4. CASE \E e \in Ev, b \in Bit : IsrEventSend(e, {b})
  <2>1. PICK e \in Ev, b \in Bit : IsrEventSend(e, {b})
    BY <1>4
  <2>2. PICK s \in (SUBSET Bit) \ {{}} : s = {b}
    OBVIOUS
  <2>3. IsrEventSend(e, s) /\ s \in SUBSET Bit
    BY <2>1, <2>2
  <2> QED BY <1>0, <2>3, IsrEventSendStep, IsrEventSendGroup
<1> QED BY <1>1, <1>2, <1>3, <1>4 DEF EventsNext

(***************************************************************************)
(* The steps of the whole.                                                 *)
(***************************************************************************)
LEMMA MessageQueueElsewhere ==
  ASSUME CoreInv, NEW S, S \subseteq Obj, Mq \cap S = {}, MessageQueueNext
  PROVE  \A x \in Thread : Elsewhere(S, x)
<1>0. "none" \notin S /\ pc \in [Thread -> Pc] /\ call \in [Thread -> Call] /\ Main \in Thread
  BY CoreView, KernelAssumption DEF Prio
<1> USE DEF Running, InUser, At, Goto, Retrying, MayBlock
<1>1. CASE \E t \in Thread, q \in Mq :
             \/ (\E m, how : MqAlloc(t, q, m, how)) \/ MqUnlink(t, q) \/ (\E n : MqRecvWait(t, q, n))
  <2>1. PICK t \in Thread, q \in Mq :
               \/ (\E m, how : MqAlloc(t, q, m, how)) \/ MqUnlink(t, q) \/ (\E n : MqRecvWait(t, q, n))
    BY <1>1
  <2>2. /\ \A x \in Thread \ {t} : UNCHANGED <<pc[x], call[x]>>
        /\ pc[t] = "run" \/ call[t] = q
        /\ call'[t] = q
    BY <1>0, <2>1 DEF MqAlloc, MqUnlink, MqRecvWait, WaitFor, Block, SuspendFor
  <2>3. call[t] \notin S
    BY <1>0, <2>2, NoCall
  <2> QED BY <1>0, <2>2, <2>3, MovesElsewhere
<1>2. CASE \E t \in Thread, q \in Mq : MqReset(t, q) \/ MqDetach(t, q)
  <2>1. PICK t \in Thread, q \in Mq : MqReset(t, q) \/ MqDetach(t, q)
    BY <1>2
  <2>2. /\ \A x \in Thread \ {t} : UNCHANGED <<pc[x], call[x]>>
        /\ pc[t] = "run" /\ (UNCHANGED call \/ call' = [call EXCEPT ![t] = q])
    BY <1>0, <2>1 DEF MqReset, MqDetach, Detach
  <2>3. call[t] \notin S
    BY <2>2, NoCall
  <2>4. call'[t] \notin S
    BY <1>0, <2>2, <2>3
  <2> QED BY <2>2, <2>3, <2>4, MovesElsewhere
<1>3. CASE \E t \in Thread, q \in Mq :
             MqLink(t, q) \/ MqFree(t, q) \/ MqTimeIsUp(t, q) \/ MqFlushEnd(t, q) \/ CallFails(t, q)
  <2>1. PICK t \in Thread, q \in Mq :
               MqLink(t, q) \/ MqFree(t, q) \/ MqTimeIsUp(t, q) \/ MqFlushEnd(t, q) \/ CallFails(t, q)
    BY <1>3
  <2>2. /\ \A x \in Thread \ {t} : UNCHANGED <<pc[x], call[x]>>
        /\ call[t] = q /\ call'[t] = "none"
    BY <1>0, <2>1 DEF MqLink, MqFree, MqTimeIsUp, MqFlushEnd, FlushEnd, CallFails, EndCall
  <2> QED BY <1>0, <2>2, MovesElsewhere
<1>4. CASE \E q \in Mq : (\E m : IsrMqSend(q, m)) \/ MqInit(Main, q)
  <2>1. UNCHANGED <<pc, call>>
    BY <1>4 DEF IsrMqSend, MqInit, ObjectInit, callVars
  <2> QED BY <2>1 DEF Elsewhere
<1> QED BY <1>0, <1>1, <1>2, <1>3, <1>4 DEF MessageQueueNext, MqCall

LEMMA GroupStep ==
  ASSUME GroupInv, Guarded, [ObjectsNext]_objectsVars
  PROVE  GroupInv' /\ \A e \in Ev : Regroups(e)
<1>0. /\ CoreInv /\ LeftOK /\ CpInv /\ EvInv /\ MbInv /\ MqInv /\ DqInv /\ exists \in [Obj -> BOOLEAN]
      /\ ObjectsInv /\ EvPlace /\ Ev \subseteq Obj
  BY EventAssumption DEF GroupInv, ObjectsInv
<1>1. ObjectsInv'
  BY <1>0, ObjectsStepInv
<1> SUFFICES EvPlace' /\ \A e \in Ev : Regroups(e)
  BY <1>1 DEF GroupInv
<1>2. Cp \cap Ev = {} /\ MbLists \cap Ev = {} /\ Mq \cap Ev = {} /\ DqLists \cap Ev = {}
  BY KindsDiffer
<1>k. Mb \subseteq MbLists /\ Dq \subseteq DqLists
  BY DEF MbLists, DqLists
<1>3. CASE IpcCallStep /\ UNCHANGED <<eventVars, mbVars, mqVars, dqVars, flag>>
  <2>1. CoreInv' /\ Calm /\ UNCHANGED exists
    BY <1>0, <1>3, IpcCallAct
  <2>2. EvPlace'
    BY <1>3, <2>1, KernelKeepsFlags
  <2>3. GroupInv'
    BY <1>1, <2>2 DEF GroupInv
  <2> QED BY <1>3, <2>1, <2>2, <2>3, KernelGroup
<1>4. CASE EventsNext
  BY <1>1, <1>4, EventsGroup
<1>5. CASE CompletionNext /\ UNCHANGED eventVars
  <2>1. \A e \in Ev : Apart(e) /\ exists'[e] = exists[e]
    BY <1>0, <1>2, <1>5, CompletionStep DEF CpDoes
  <2>2. \A x \in Thread : Elsewhere(Ev, x)
    BY <1>0, <1>2, <1>5, CompletionElsewhere
  <2> QED BY <1>1, <1>5, <2>1, <2>2, OthersGroup
<1>6. CASE MailboxNext /\ UNCHANGED eventVars
  <2>1. \A e \in Ev : Apart(e) /\ exists'[e] = exists[e]
    BY <1>0, <1>2, <1>6, <1>k, MbStep DEF Does
  <2>2. \A x \in Thread : Elsewhere(Ev, x)
    BY <1>0, <1>2, <1>6, MailboxElsewhere
  <2> QED BY <1>1, <1>6, <2>1, <2>2, OthersGroup
<1>7. CASE MessageQueueNext /\ UNCHANGED eventVars
  <2>1. \A e \in Ev : Apart(e) /\ exists'[e] = exists[e]
    BY <1>0, <1>2, <1>7, MqStep DEF MqDoes, Does
  <2>2. \A x \in Thread : Elsewhere(Ev, x)
    BY <1>0, <1>2, <1>7, MessageQueueElsewhere
  <2> QED BY <1>1, <1>7, <2>1, <2>2, OthersGroup
<1>8. CASE DataQueueNext /\ UNCHANGED eventVars
  <2>1. \A e \in Ev : Apart(e) /\ exists'[e] = exists[e]
    BY <1>0, <1>2, <1>8, <1>k, DqStep DEF DqDoes
  <2>2. \A x \in Thread : Elsewhere(Ev, x)
    BY <1>0, <1>2, <1>8, DataQueueElsewhere
  <2> QED BY <1>1, <1>8, <2>1, <2>2, OthersGroup
<1>9. CASE UNCHANGED objectsVars
  <2>1. UNCHANGED <<kernelVars, exists, eventVars>> /\ UNCHANGED <<pc, call>>
    BY <1>9 DEF objectsVars, kernelVars, callVars
  <2>2. \A e \in Ev : Apart(e) /\ exists'[e] = exists[e]
    BY <1>0, <2>1, ApartSame
  <2>3. \A x \in Thread : Elsewhere(Ev, x)
    BY <2>1 DEF Elsewhere
  <2> QED BY <1>1, <2>1, <2>2, <2>3, OthersGroup
<1> QED BY <1>3, <1>4, <1>5, <1>6, <1>7, <1>8, <1>9 DEF ObjectsNext

LEMMA GroupInit ==
  ASSUME ObjectsInit
  PROVE  EvPlace /\ \A e \in Ev : Group(e)!Init
<1>1. /\ exists = [o \in Obj |-> FALSE] /\ waitq = [o \in Obj |-> <<>>]
      /\ event_set = [t \in Thread |-> {}] /\ Ev \subseteq Obj
  BY EventAssumption DEF ObjectsInit, IpcCallInit, KernelInit, EventsInit
<1>2. \A e \in Ev : ~Open(e) /\ Range(waitq[e]) = {}
  BY <1>1 DEF Open, Range
<1>3. EvPlace
  BY <1>1, <1>2 DEF EvPlace
<1>4. ASSUME NEW e \in Ev PROVE Group(e)!Init
  <2>1. \A x \in Thread : Ask(e, x) = Nothings /\ Kept(e, x) = {}
    BY <1>1, <1>2 DEF Ask, Kept, Holding
  <2>2. /\ Asked(e) = [x \in Thread \ {Idle} |-> Nothings]
        /\ Granted(e) = [x \in Thread \ {Idle} |-> {}]
    BY <2>1, GroupView
  <2>3. (IF Open(e) THEN set[e] ELSE {}) = {} /\ Open(e) = FALSE
    BY <1>2 DEF Open
  <2> QED BY <2>2, <2>3 DEF Group!Init, Group!NoAsk, Nothings
<1> QED BY <1>3, <1>4

THEOREM GroupInvariant == Guarded => (ObjectsSpec => []GroupInv)
<1> SUFFICES ASSUME Guarded PROVE ObjectsSpec => []GroupInv
  OBVIOUS
<1>1. ObjectsInit => GroupInv
  BY ObjectsInitInv, GroupInit DEF GroupInv
<1>2. GroupInv /\ [ObjectsNext]_objectsVars => GroupInv'
  BY GroupStep
<1> QED BY <1>1, <1>2, PTL DEF ObjectsSpec

(* Every event keeps the promise of EventGroup, whatever the bits, the     *)
(* requests and the order of the waiting threads: a send serves those who  *)
(* wait and only with flags that are there, consumed flags go to one       *)
(* client, nobody waits for flags that are set.                            *)
THEOREM EventsImplement ==
  ASSUME NEW e \in Ev
  PROVE  Guarded => (ObjectsSpec => Group(e)!Spec)
<1> SUFFICES ASSUME Guarded PROVE ObjectsSpec => Group(e)!Spec
  OBVIOUS
<1>1. ObjectsInit => Group(e)!Init
  BY GroupInit
<1>2. GroupInv /\ [ObjectsNext]_objectsVars => [Group(e)!Next]_(Group(e)!vars)
  BY GroupStep DEF Regroups
<1> QED BY <1>1, <1>2, GroupInvariant, PTL DEF ObjectsSpec, Group!Spec
=============================================================================
