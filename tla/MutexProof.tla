----------------------------- MODULE MutexProof -----------------------------
(***************************************************************************)
(* Theorems about the mutexes of src/ipc.c for any number of threads,      *)
(* priorities, mutexes and ticks: lending priorities and handing mutexes   *)
(* over leaves the kernel sound, and the callers exclude each other.       *)
(***************************************************************************)
EXTENDS Mutex, KernelProof

(***************************************************************************)
(* The inductive invariant.                                                *)
(***************************************************************************)

(* An existing mutex is free or has an owner, who holds it as often as his *)
(* takes returned, and once more when it was handed to him and the call    *)
(* has still to return.                                                    *)
OwnerOK(m) ==
  exists[m] =>
    /\ owner[m] = NoThread <=> avail[m] = 1
    /\ owner[m] = NoThread => hold[m] = 0 /\ waitq[m] = <<>>
    /\ owner[m] # NoThread => hold[m] >= 1 /\ original[m] \in Prio /\ owner[m] # Idle
    /\ \A t \in Thread : owner[m] # t => mine[m][t] = 0
    /\ \A t \in Thread : owner[m] = t => hold[m] = mine[m][t] + (IF Holds(m, t) THEN 1 ELSE 0)

(* A thread the mutex was handed to owns it once, and no timer of its call *)
(* can still turn RT_EOK into -RT_ETIMEOUT.                                *)
ServedOK(m) ==
  \A t \in Thread :
    Holds(m, t) => exists[m] /\ owner[m] = t /\ hold[m] = 1 /\ timer[t] = 0 /\ t \notin due

GoneEmpty(m) == ~exists[m] => waitq[m] = <<>>

MutexOK(m) == OwnerOK(m) /\ ServedOK(m) /\ GoneEmpty(m)

(* A mutex is detached by its owner or when it is free. *)
FlushOwn == \A t \in Thread : Flushing(t) => owner[call[t]] \in {NoThread, t}

MutexInv == WaitInv /\ FlushOK /\ FlushOwn /\ MutexTypeOK /\ \A m \in Mtx : MutexOK(m)

(***************************************************************************)
(* Ready queues when priorities are lent and given back.                   *)
(***************************************************************************)

(* The queues r and the mask m when the thread u was appended at p. *)
Appended(s, k, r, m, p, u) == s = [r EXCEPT ![p] = Append(@, u)] /\ k = m \cup {p}

(* A thread is appended to a queue; it was in none. *)
LEMMA AppendQueues ==
  ASSUME NEW r, NEW m, QOK(r, m), NEW p \in Prio, NEW u \in Thread,
         \A q \in Prio : u \notin Range(r[q]),
         NEW s, NEW k, Appended(s, k, r, m, p, u)
  PROVE  /\ QOK(s, k) /\ Range(s[p]) = Range(r[p]) \cup {u}
         /\ \A q \in Prio \ {p} : s[q] = r[q]
<1>1. r \in [Prio -> Seq(Thread)] /\ \A q \in Prio : IsInjective(r[q]) /\ (q \in m <=> r[q] # <<>>)
  BY DEF QOK
<1>2. /\ Append(r[p], u) \in Seq(Thread) /\ IsInjective(Append(r[p], u))
      /\ Range(Append(r[p], u)) = Range(r[p]) \cup {u} /\ Append(r[p], u) # <<>>
  BY <1>1, AppendRange
<1>3. s \in [Prio -> Seq(Thread)] /\ s[p] = Append(r[p], u) /\ \A q \in Prio \ {p} : s[q] = r[q]
  BY <1>1, <1>2 DEF Appended
<1>4. k \in SUBSET Prio /\ \A q : q \in k <=> q \in m \/ q = p
  BY DEF QOK, Appended
<1>5. \A q \in Prio : IsInjective(s[q]) /\ (q \in k <=> s[q] # <<>>)
  BY <1>1, <1>2, <1>3, <1>4
<1>6. QOK(s, k)
  BY <1>3, <1>4, <1>5 DEF QOK
<1>7. Range(s[p]) = Range(r[p]) \cup {u} /\ \A q \in Prio \ {p} : s[q] = r[q]
  BY <1>2, <1>3
<1> QED BY <1>6, <1>7

(* What the queues must hold when the thread u becomes or stops being      *)
(* READY and priorities change.                                            *)
LEMMA MovedQueues ==
  ASSUME KernelInv, NEW u \in Thread, QOK(ready', mask'), prio' \in [Thread -> Prio],
         \A q \in Prio : \A x \in Range(ready'[q]) :
           /\ x \in Thread /\ prio'[x] = q
           /\ IF x = u THEN stat'[u] = "READY" ELSE x \in Range(ready[prio[x]]),
         stat'[u] = "READY" => u \in Range(ready'[prio'[u]]),
         \A x \in Thread \ {u} : x \in Range(ready[prio[x]]) => x \in Range(ready'[prio'[x]]),
         \A x \in Thread \ {u} : stat'[x] = "READY" <=> stat[x] = "READY",
         \A x \in Thread : Deleting(x) => Deleting(x)'
  PROVE  QueuesConsistent'
<1>1. ASSUME NEW q \in Prio, NEW x \in Range(ready'[q])
      PROVE  stat'[x] = "READY" /\ prio'[x] = q
  <2>1. prio[x] \in Prio
    BY DEF KernelInv, KernelTypeOK
  <2> QED BY <2>1 DEF KernelInv, QueuesConsistent
<1>2. ASSUME NEW x \in Thread, stat'[x] = "READY"
      PROVE  x \in Range(ready'[prio'[x]]) \/ Deleting(x)'
  <2>1. stat[x] = "READY" => x \in Range(ready[prio[x]]) \/ Deleting(x)
    BY DEF KernelInv, QueuesConsistent
  <2> QED BY <1>2, <2>1
<1> QED BY <1>1, <1>2 DEF QueuesConsistent, QOK

(* t leaves its queue, and the owner o may have moved to that queue.       *)
LEMMA LendQueues ==
  ASSUME KernelInv, NEW t \in Thread, current = t, stat[t] = "READY", nest = 0,
         NEW o \in Thread \ {t, Idle}, Lend(t, o)
  PROVE  /\ QOK(ready', mask') /\ prio' \in [Thread -> Prio]
         /\ \A x \in Thread \ {o} : prio'[x] = prio[x]
         /\ \A q \in Prio : \A x \in Range(ready'[q]) :
              x \in Thread \ {t} /\ prio'[x] = q /\ x \in Range(ready[prio[x]])
         /\ \A x \in Thread \ {t} : x \in Range(ready[prio[x]]) => x \in Range(ready'[prio'[x]])
<1> DEFINE p == prio[t]
<1>a. /\ QOK(ready, mask) /\ prio \in [Thread -> Prio] /\ OwnQueueOnly(t) /\ OwnQueueOnly(o)
      /\ \A q \in Prio : Range(ready[q]) \subseteq Thread
      /\ \A q \in Prio : \A x \in Range(ready[q]) : stat[x] = "READY" /\ prio[x] = q
  BY InvQueues DEF KernelInv, KernelTypeOK, QueuesConsistent
<1>b. p \in Prio /\ t \in Range(ready[p])
  BY <1>a, RunningThread
<1>1. CASE prio[t] < prio[o] /\ stat[o] = "READY"
  <2> DEFINE r == Requeued(o, p)  k == MaskWithout(o) \cup {p}
  <2>1. prio' = [prio EXCEPT ![o] = p] /\ ready' = [q \in Prio |-> Unlink(r[q], t)] /\ mask' = k
    BY <1>1 DEF Lend
  <2>2. /\ QOK(r, k)
        /\ \A q \in Prio : Range(r[q]) = IF q = p THEN Range(ready[q]) \cup {o} ELSE Range(ready[q]) \ {o}
    BY <1>a, <1>b, RequeuedProperties
  <2> HIDE DEF r, k
  <2>3. r \in [Prio -> Seq(Thread)] /\ \A q \in Prio : IsInjective(r[q])
    BY <2>2 DEF QOK
  <2>4. ready' = UnlinkAll(r, t)
    BY <2>1, <2>3 DEF UnlinkAll
  <2>5. Unlinked(Prio, ready', r, t)
    BY <2>3, <2>4, UnlinkAllProperties
  <2>6. /\ \A q \in Prio \ {p} : Range(ready'[q]) = Range(ready[q]) \ {o, t}
        /\ Range(ready'[p]) = (Range(ready[p]) \cup {o}) \ {t}
    <3>1. \A q \in Prio : Range(ready'[q]) = Range(r[q]) \ {t}
      BY <2>5 DEF Unlinked
    <3>2. \A q \in Prio \ {p} : Range(r[q]) = Range(ready[q]) \ {o}
      BY <2>2
    <3>3. Range(r[p]) = Range(ready[p]) \cup {o}
      BY <1>b, <2>2
    <3> HIDE DEF p
    <3> QED BY <1>b, <3>1, <3>2, <3>3
  <2>7. \A q \in Prio \ {p} : t \notin Range(r[q])
    BY <1>a, <2>2 DEF OwnQueueOnly
  <2>8. ASSUME NEW q \in Prio PROVE q \in k <=> ready'[q] # <<>>
    <3>1. (q \in k <=> r[q] # <<>>) /\ ready'[q] \in Seq(Thread)
      BY <2>2, <2>5 DEF QOK, Unlinked
    <3>2. CASE q = p
      <4>1. o \in Range(r[q]) /\ o \in Range(ready'[q])
        BY <2>2, <2>6, <3>2
      <4> QED BY <2>3, <3>1, <4>1, HeadRange
    <3>3. CASE q # p
      <4>1. ready'[q] = r[q]
        BY <2>5, <2>7, <3>3 DEF Unlinked
      <4> QED BY <3>1, <4>1
    <3> QED BY <3>2, <3>3
  <2>9. QOK(ready', mask')
    <3>1. k \in SUBSET Prio
      BY <2>2 DEF QOK
    <3> QED BY <2>1, <2>5, <2>8, <3>1 DEF QOK, Unlinked
  <2>10. /\ prio' \in [Thread -> Prio] /\ prio'[o] = p
         /\ \A x \in Thread \ {o} : prio'[x] = prio[x]
    BY <1>a, <1>b, <2>1
  <2>11. o \in Range(ready[prio[o]])
    <3>1. ~Deleting(o)
      BY DEF KernelInv, ControlOK, Control, Deleting, OpPc
    <3> QED BY <1>1, <3>1 DEF KernelInv, QueuesConsistent
  <2>12. ASSUME NEW q \in Prio, NEW x \in Range(ready'[q])
         PROVE  x \in Thread \ {t} /\ prio'[x] = q /\ x \in Range(ready[prio[x]])
    <3>1. CASE x = o
      <4>1. q = p
        BY <2>6, <3>1
      <4> QED BY <2>10, <2>11, <3>1, <4>1
    <3>2. CASE x # o
      <4>1. x \in Range(ready[q]) \ {t}
        BY <2>6, <3>2
      <4> QED BY <1>a, <2>10, <3>2, <4>1
    <3> QED BY <3>1, <3>2
  <2>13. ASSUME NEW x \in Thread \ {t}, x \in Range(ready[prio[x]]) PROVE x \in Range(ready'[prio'[x]])
    <3>1. prio[x] \in Prio
      BY <1>a
    <3> QED BY <1>b, <2>6, <2>10, <2>13, <3>1
  <2> QED BY <2>9, <2>10, <2>12, <2>13
<1>2. CASE ~(prio[t] < prio[o] /\ stat[o] = "READY")
  <2>1. RemoveThread(t) /\ ((prio' = [prio EXCEPT ![o] = p] /\ stat[o] # "READY") \/ prio' = prio)
    BY <1>2 DEF Lend
  <2>2. QOK(ready', mask') /\ \A q \in Prio : Range(ready'[q]) = Range(ready[q]) \ {t}
    BY <1>a, <2>1, RemoveThreadProperties
  <2>3. /\ prio' \in [Thread -> Prio] /\ \A x \in Thread \ {o} : prio'[x] = prio[x]
        /\ stat[o] = "READY" => prio'[o] = prio[o]
    BY <1>a, <1>b, <2>1
  <2>4. ASSUME NEW q \in Prio, NEW x \in Range(ready'[q])
        PROVE  x \in Thread \ {t} /\ prio'[x] = q /\ x \in Range(ready[prio[x]])
    <3>1. x \in Range(ready[q]) \ {t} /\ x \in Thread /\ stat[x] = "READY" /\ prio[x] = q
      BY <1>a, <2>2
    <3> QED BY <2>3, <3>1
  <2>5. ASSUME NEW x \in Thread \ {t}, x \in Range(ready[prio[x]]) PROVE x \in Range(ready'[prio'[x]])
    <3>1. prio[x] \in Prio /\ stat[x] = "READY"
      BY <1>a, <2>5
    <3> QED BY <2>2, <2>3, <2>5, <3>1
  <2> QED BY <2>2, <2>3, <2>4, <2>5
<1> QED BY <1>1, <1>2

(* The queues and the mask when the running thread t has its priority back. *)
LEMMA BackQueues ==
  ASSUME KernelInv, NEW t \in Thread, current = t, stat[t] = "READY",
         NEW m \in Mtx, original[m] \in Prio
  PROVE  /\ QOK(QueuesBack(t, m), MaskBack(t, m))
         /\ \A q \in Prio : Range(QueuesBack(t, m)[q]) =
              IF q = original[m] THEN Range(ready[q]) \cup {t} ELSE Range(ready[q]) \ {t}
<1>a. QOK(ready, mask) /\ prio \in [Thread -> Prio] /\ OwnQueueOnly(t) /\ t \in Range(ready[prio[t]])
  BY InvQueues, RunningThread DEF KernelInv, KernelTypeOK
<1>1. CASE original[m] # prio[t]
  <2>1. QueuesBack(t, m) = Requeued(t, original[m]) /\ MaskBack(t, m) = MaskWithout(t) \cup {original[m]}
    BY <1>1 DEF QueuesBack, MaskBack, PrioBack
  <2>2. PICK p \in Prio : p = original[m]
    OBVIOUS
  <2>3. /\ QOK(Requeued(t, p), MaskWithout(t) \cup {p})
        /\ \A q \in Prio : Range(Requeued(t, p)[q]) =
             IF q = p THEN Range(ready[q]) \cup {t} ELSE Range(ready[q]) \ {t}
    BY <1>a, RequeuedProperties
  <2> QED BY <2>1, <2>2, <2>3
<1>2. CASE original[m] = prio[t]
  <2>1. QueuesBack(t, m) = ready /\ MaskBack(t, m) = mask
    BY <1>2 DEF QueuesBack, MaskBack, PrioBack
  <2> QED BY <1>2, <1>a, <2>1 DEF OwnQueueOnly
<1> QED BY <1>1, <1>2

(***************************************************************************)
(* The kernel under threads that own mutexes.                              *)
(***************************************************************************)

(* A thread that was served stays so, with its timer stopped, unless it is *)
(* deleted.                                                                *)
LEMMA KernelKeepsServed ==
  ASSUME WaitInv, [KernelNext]_kernelVars, NEW m \in Mtx, NEW x \in Thread,
         Holds(m, x), timer[x] = 0, x \notin due,
         stat'[x] # "CLOSE", \A t \in Thread : arg'[t] = x => pc'[t] # "del1"
  PROVE  Holds(m, x)' /\ timer'[x] = 0 /\ x \notin due'
<1> USE DEF callVars, threadVars, queueVars, Goto, At, Running
<1>t. /\ pc \in [Thread -> Pc] /\ call \in [Thread -> Call] /\ stat \in [Thread -> Stat]
      /\ err \in [Thread -> Err] /\ arg \in [Thread -> Thread \cup {NoThread}]
      /\ timer \in [Thread -> 0 .. MaxTime]
      /\ m \notin {"none", "sleep", "suspend"}
  BY WaitView DEF Mtx, WaitInv, KernelInv, KernelTypeOK
<1>h. /\ call[x] = m /\ call[x] \notin {"none", "sleep", "suspend"}
      /\ pc[x] \in {"got", "sched", "blocked"} /\ (pc[x] = "got" \/ (err[x] = "EOK" /\ x \notin Range(waitq[m])))
      /\ stat[x] \in {"READY", "SUSPEND"} /\ ~Deleting(x)
  BY <1>t DEF Holds
<1>w. pc[x] # "got" => x \notin Range(waitq'[m])
  BY <1>t, <1>h, KernelShrinksWaits DEF Mtx, WaitInv
<1> DEFINE Kept == /\ call'[x] = call[x] /\ stat'[x] \in {"READY", "SUSPEND"}
                   /\ pc'[x] = pc[x] \/ (pc[x] = "sched" /\ pc'[x] = "blocked")
                   /\ err'[x] = err[x]
                   /\ timer'[x] = 0 /\ x \notin due'
<1>1. CASE UNCHANGED kernelVars
  BY <1>1, <1>t DEF kernelVars, Holds, Deleting
<1>2. CASE KernelNext
  <2>1. Kept
    <3>1. ASSUME NEW v \in Thread, InCall(v) PROVE Kept
      <4>1. CASE Schedule(v) \/ Return(v)
        BY <1>t, <1>h, <4>1 DEF Schedule, Return
      <4>2. CASE SuspendLocked(v) \/ ResumeLocked(v)
        BY <1>t, <1>h, <4>2 DEF SuspendLocked, ResumeLocked
      <4>3. CASE ResumeInsert(v)
        BY <1>t, <1>h, <4>3 DEF ResumeInsert, InsertThread
      <4>4. CASE DeleteTimer(v) \/ DeleteDefunct(v)
        BY <1>t, <1>h, <4>4 DEF DeleteTimer, DeleteDefunct
      <4>5. CASE DeleteClose(v)
        <5>1. stat'[x] = stat[x]
          BY <1>t, <1>h, <4>5 DEF DeleteClose
        <5> QED BY <1>t, <1>h, <4>5, <5>1 DEF DeleteClose
      <4> QED BY <3>1, <4>1, <4>2, <4>3, <4>4, <4>5 DEF InCall
    <3>2. ASSUME NEW v \in Thread, UserCall(v) PROVE Kept
      <4> USE DEF InUser, MayBlock, MayControl
      <4>1. CASE (\E n \in 1 .. MaxTime : Sleep(v, n)) \/ SuspendSelf(v) \/ Yield(v) \/ EnterCritical(v) \/ ExitCritical(v) \/ Exit(v)
        BY <1>t, <1>h, <4>1 DEF Sleep, SuspendSelf, SuspendFor, Yield, EnterCritical, ExitCritical, Exit
      <4>2. CASE \E u \in Thread : \/ Suspend(v, u) \/ Resume(v, u) \/ Delete(v, u)
                                  \/ Create(v, u) \/ Startup(v, u)
                                  \/ \E p \in PrioChoices : ChangePriority(v, u, p)
        BY <1>t, <1>h, <4>2 DEF Suspend, Resume, Delete, Create, Startup, ChangePriority, Begin
      <4> QED BY <3>2, <4>1, <4>2 DEF UserCall
    <3>3. CASE IdleExcute
      <4>1. Head(defunct) \in Thread /\ stat[Head(defunct)] = "CLOSE"
        BY <3>3, HeadRange DEF IdleExcute, WaitInv, KernelInv, KernelTypeOK, ListsConsistent
      <4> QED BY <1>t, <1>h, <3>3, <4>1 DEF IdleExcute
    <3>4. CASE Tick
      BY <1>t, <1>h, <3>4 DEF Tick, TimerAfterTick
    <3>5. ASSUME NEW v \in Thread, Timeout(v) PROVE Kept
      BY <1>t, <1>h, <3>5 DEF Timeout, MakeReady
    <3> QED BY <1>2, <3>1, <3>2, <3>3, <3>4, <3>5 DEF KernelNext, ThreadStep, Interrupt
  <2>2. ~Deleting(x)'
    <3> SUFFICES ASSUME NEW v \in Thread, arg'[v] = x, pc'[v] = "del2" PROVE FALSE
      BY DEF Deleting
    <3>1. ~(arg[v] = x /\ pc[v] \in {"del1", "del2"})
      BY <1>t, <1>h DEF Deleting
    <3>2. ASSUME NEW w \in Thread, InCall(w) PROVE FALSE
      BY <1>t, <1>h, <3>1, <3>2 DEF InCall, Schedule, Return, SuspendLocked, ResumeLocked, ResumeInsert, DeleteTimer, DeleteClose, DeleteDefunct
    <3>3. ASSUME NEW w \in Thread, UserCall(w) PROVE FALSE
      <4>1. CASE (\E n \in 1 .. MaxTime : Sleep(w, n)) \/ SuspendSelf(w) \/ Yield(w) \/ EnterCritical(w) \/ ExitCritical(w) \/ Exit(w)
        BY <1>t, <1>h, <3>1, <4>1 DEF Sleep, SuspendSelf, SuspendFor, Yield, EnterCritical, ExitCritical, Exit
      <4>2. CASE \E u \in Thread : \/ Suspend(w, u) \/ Resume(w, u) \/ Delete(w, u)
                                  \/ Create(w, u) \/ Startup(w, u)
                                  \/ \E p \in PrioChoices : ChangePriority(w, u, p)
        BY <1>t, <1>h, <3>1, <4>2 DEF Suspend, Resume, Delete, Create, Startup, ChangePriority, Begin
      <4> QED BY <3>3, <4>1, <4>2 DEF UserCall
    <3>4. ~(IdleExcute \/ Tick \/ \E w \in Thread : Timeout(w))
      BY <3>1 DEF IdleExcute, Tick, Timeout
    <3> QED BY <1>2, <3>2, <3>3, <3>4 DEF KernelNext, ThreadStep, Interrupt
  <2> QED BY <1>t, <1>h, <1>w, <2>1, <2>2 DEF Holds
<1> QED BY <1>1, <1>2


(* No kernel function flushes a mutex. *)
LEMMA KernelKeepsFlusher ==
  ASSUME KernelInv, [KernelNext]_kernelVars, NEW x \in Thread, Flushing(x)'
  PROVE  Flushing(x) /\ call'[x] = call[x]
<1> USE DEF callVars, Goto, Flushing
<1>t. pc \in [Thread -> Pc] /\ call \in [Thread -> Call]
  BY DEF KernelInv, KernelTypeOK, Call
<1>1. CASE UNCHANGED kernelVars
  BY <1>1 DEF kernelVars
<1>2. ASSUME NEW v \in Thread, InCall(v) PROVE Flushing(x) /\ call'[x] = call[x]
  BY <1>2, <1>t DEF InCall, Schedule, Return, SuspendLocked, ResumeLocked, ResumeInsert, DeleteTimer, DeleteClose, DeleteDefunct
<1>3. ASSUME NEW v \in Thread, UserCall(v) PROVE Flushing(x) /\ call'[x] = call[x]
  <2>1. CASE (\E n \in 1 .. MaxTime : Sleep(v, n)) \/ SuspendSelf(v) \/ Yield(v) \/ EnterCritical(v) \/ ExitCritical(v) \/ Exit(v)
    BY <1>t, <2>1 DEF Sleep, SuspendSelf, SuspendFor, Yield, EnterCritical, ExitCritical, Exit
  <2>2. CASE \E u \in Thread : \/ Suspend(v, u) \/ Resume(v, u) \/ Delete(v, u)
                              \/ Create(v, u) \/ Startup(v, u)
                              \/ \E p \in PrioChoices : ChangePriority(v, u, p)
    BY <1>t, <2>2 DEF Suspend, Resume, Delete, Create, Startup, ChangePriority, Begin
  <2> QED BY <1>3, <2>1, <2>2 DEF UserCall
<1>4. CASE IdleExcute \/ Tick \/ \E v \in Thread : Timeout(v)
  BY <1>4 DEF IdleExcute, Tick, Timeout
<1> QED BY <1>1, <1>2, <1>3, <1>4 DEF KernelNext, ThreadStep, Interrupt

(***************************************************************************)
(* What the steps of rt_mutex_* have in common.                            *)
(***************************************************************************)

(* A mutex nothing happens to. *)
LEMMA MutexKept ==
  ASSUME NEW m \in Mtx, MutexOK(m),
         UNCHANGED <<owner[m], hold[m], avail[m], original[m], mine[m], exists[m]>>,
         waitq[m] = <<>> => waitq'[m] = <<>> \/ (exists[m] /\ owner[m] # NoThread),
         \A x \in Thread : Holds(m, x)' <=> Holds(m, x),
         \A x \in Thread : Holds(m, x) /\ timer[x] = 0 /\ x \notin due => timer'[x] = 0 /\ x \notin due'
  PROVE  MutexOK(m)'
<1>1. GoneEmpty(m)'
  BY DEF MutexOK, GoneEmpty
<1>2. ServedOK(m)'
  BY DEF MutexOK, ServedOK
<1>3. OwnerOK(m)'
  BY DEF MutexOK, OwnerOK
<1> QED BY <1>1, <1>2, <1>3 DEF MutexOK

(* A step of a thread that flushes nothing. *)
LEMMA NoFlusher ==
  ASSUME FlushOK, ~Flushing(current), \A x \in Thread : Flushing(x)' => Flushing(x)
  PROVE  FlushOK' /\ FlushOwn'
BY DEF FlushOK, FlushOwn

(* A call that neither blocks nor wakes: nobody moves. *)
LEMMA LocalStep ==
  ASSUME MutexInv, KernelInv', NEW t \in Thread, InUser(t),
         UNCHANGED <<waitq, stat, timer, callVars, current, nest, due>>,
         \A x \in Thread \ {t} : UNCHANGED err[x]
  PROVE  /\ WaitInv' /\ FlushOK' /\ FlushOwn'
         /\ \A m \in Mtx, x \in Thread : Holds(m, x)' <=> Holds(m, x)
<1>1. /\ current = t /\ stat[t] = "READY" /\ call[t] = "none" /\ pc[t] = "run" /\ ~Flushing(t)
      /\ \A o \in Obj : t \notin Range(waitq[o])
      /\ \A m \in Mtx : ~Holds(m, t)
  BY CallerView DEF MutexInv, Mtx
<1> USE DEF callVars
<1>2. WaitInv'
  <2>1. stat'[t] # "INIT" /\ call'[t] = "none" /\ pc'[t] \notin OpPc
    BY <1>1 DEF OpPc
  <2>2. \A o \in Obj : \A x \in Range(waitq'[o]) : x \in Range(waitq[o]) /\ x # t /\ UNCHANGED err[x]
    <3>1. \A o \in Obj : Range(waitq[o]) \subseteq Thread
      BY InvQueues DEF MutexInv, WaitInv
    <3> QED BY <1>1, <3>1
  <2>3. \A x \in Thread \ {t} : UNCHANGED <<pc[x], call[x]>> /\ (stat'[x] = "INIT" => stat[x] = "INIT")
    OBVIOUS
  <2> QED BY <2>1, <2>2, <2>3, PlacesKept DEF MutexInv
<1>3. FlushOK' /\ FlushOwn'
  <2>1. ~Flushing(current) /\ \A x \in Thread : Flushing(x)' => Flushing(x)
    BY <1>1 DEF Flushing
  <2> QED BY <2>1, NoFlusher DEF MutexInv
<1>4. ASSUME NEW m \in Mtx, NEW x \in Thread PROVE Holds(m, x)' <=> Holds(m, x)
  <2>1. CASE x = t
    BY <1>1, <2>1 DEF Holds
  <2>2. CASE x # t
    BY <1>1, <2>2, HoldsKept DEF Mtx
  <2> QED BY <2>1, <2>2
<1> QED BY <1>2, <1>3, <1>4

(* A locked section that writes the mutex m and counts for the thread t. *)
LEMMA SetEffect ==
  ASSUME MutexTypeOK, NEW m \in Mtx, NEW t \in Thread,
         NEW u \in Thread \cup {NoThread}, NEW h \in 0 .. MaxHold, NEW v \in {0, 1},
         NEW p \in Prio \cup {NoPrio}, NEW n \in Int, mine[m][t] + n \in 0 .. MaxHold,
         SetOwner(m, u, h, v, p), Counted(m, t, n), UNCHANGED exists
  PROVE  /\ MutexTypeOK'
         /\ owner'[m] = u /\ hold'[m] = h /\ avail'[m] = v /\ original'[m] = p /\ exists'[m] = exists[m]
         /\ mine'[m][t] = mine[m][t] + n /\ \A x \in Thread \ {t} : mine'[m][x] = mine[m][x]
         /\ \A y \in Mtx \ {m} :
              UNCHANGED <<owner[y], hold[y], avail[y], original[y], mine[y], exists[y]>>
<1> USE DEF MutexTypeOK
<1>1. /\ owner' = [owner EXCEPT ![m] = u] /\ hold' = [hold EXCEPT ![m] = h]
      /\ avail' = [avail EXCEPT ![m] = v] /\ original' = [original EXCEPT ![m] = p]
      /\ mine' = [mine EXCEPT ![m] = [mine[m] EXCEPT ![t] = mine[m][t] + n]]
  BY DEF SetOwner, Counted
<1>2. [mine[m] EXCEPT ![t] = mine[m][t] + n] \in [Thread -> 0 .. MaxHold]
  OBVIOUS
<1>3. mine' \in [Mtx -> [Thread -> 0 .. MaxHold]]
  BY <1>1, <1>2
<1>4. /\ owner' \in [Mtx -> Thread \cup {NoThread}] /\ hold' \in [Mtx -> 0 .. MaxHold]
      /\ avail' \in [Mtx -> {0, 1}] /\ original' \in [Mtx -> Prio \cup {NoPrio}]
  BY <1>1
<1>5. /\ owner'[m] = u /\ hold'[m] = h /\ avail'[m] = v /\ original'[m] = p
      /\ mine'[m] = [mine[m] EXCEPT ![t] = mine[m][t] + n]
      /\ \A y \in Mtx \ {m} : UNCHANGED <<owner[y], hold[y], avail[y], original[y], mine[y]>>
  BY <1>1
<1> QED BY <1>3, <1>4, <1>5

(* What is known of a mutex that exists. *)
LEMMA MutexView ==
  ASSUME MutexInv, NEW m \in Mtx, exists[m]
  PROVE  /\ owner[m] \in Thread \cup {NoThread} /\ hold[m] \in 0 .. MaxHold /\ avail[m] \in {0, 1}
         /\ owner[m] = NoThread <=> avail[m] = 1
         /\ owner[m] = NoThread => hold[m] = 0 /\ waitq[m] = <<>>
         /\ owner[m] # NoThread => hold[m] >= 1 /\ original[m] \in Prio /\ owner[m] # Idle
         /\ \A t \in Thread : mine[m][t] \in 0 .. MaxHold
         /\ \A t \in Thread : owner[m] # t => mine[m][t] = 0 /\ ~Holds(m, t)
         /\ \A t \in Thread : owner[m] = t /\ ~Holds(m, t) => hold[m] = mine[m][t]
<1>1. OwnerOK(m) /\ ServedOK(m)
  BY DEF MutexInv, MutexOK
<1>2. \A t \in Thread : mine[m][t] \in 0 .. MaxHold
  BY DEF MutexInv, MutexTypeOK
<1>3. owner[m] \in Thread \cup {NoThread} /\ hold[m] \in 0 .. MaxHold /\ avail[m] \in {0, 1}
  BY DEF MutexInv, MutexTypeOK
<1>4. \A t \in Thread : owner[m] # t => mine[m][t] = 0 /\ ~Holds(m, t)
  BY <1>1 DEF OwnerOK, ServedOK
<1>5. \A t \in Thread : owner[m] = t /\ ~Holds(m, t) => hold[m] = mine[m][t]
  BY <1>1, <1>2 DEF OwnerOK
<1> QED BY <1>1, <1>2, <1>3, <1>4, <1>5 DEF OwnerOK

(* A mutex after a step that leaves nobody served by it. *)
LEMMA MutexTaken ==
  ASSUME NEW m \in Mtx, \A x \in Thread : ~Holds(m, x)', exists'[m],
         owner'[m] = NoThread <=> avail'[m] = 1,
         owner'[m] = NoThread => hold'[m] = 0 /\ waitq'[m] = <<>>,
         owner'[m] # NoThread => hold'[m] >= 1 /\ original'[m] \in Prio /\ owner'[m] # Idle,
         \A x \in Thread : mine'[m][x] \in Int /\ (owner'[m] # x => mine'[m][x] = 0),
         \A x \in Thread : owner'[m] = x => hold'[m] = mine'[m][x]
  PROVE  MutexOK(m)'
<1>1. OwnerOK(m)'
  BY DEF OwnerOK
<1>2. ServedOK(m)' /\ GoneEmpty(m)'
  BY DEF ServedOK, GoneEmpty
<1> QED BY <1>1, <1>2 DEF MutexOK

(***************************************************************************)
(* rt_mutex_take                                                           *)
(***************************************************************************)

(* The caller's thread->error is all the kernel sees of a call. *)
LEMMA ErrStep ==
  ASSUME KernelInv, NEW t \in Thread \ {Idle}, InUser(t), err' \in [Thread -> Err],
         UNCHANGED <<queueVars, stat, prio, slice, timer, callVars, current, nest, due, lag>>
  PROVE  KernelInv'
<1>1. /\ current = t /\ pc[t] \notin OpPc \cup {"sched", "reset"} /\ "run" \in Pc \ OpPc
      /\ pc' = [pc EXCEPT ![t] = "run"] /\ call' \in [Thread -> Call]
      /\ \A v \in Thread \ {t} : call'[v] = call[v]
  BY DEF InUser, Running, OpPc, Pc, callVars, KernelInv, KernelTypeOK, Call
<1> QED BY <1>1, PlaceStep DEF callVars

(* A local step that touches the mutex m only. *)
LEMMA LocalMutexStep ==
  ASSUME MutexInv, KernelInv', NEW t \in Thread, InUser(t), NEW m \in Mtx,
         UNCHANGED <<waitq, stat, timer, callVars, current, nest, due>>,
         \A x \in Thread \ {t} : UNCHANGED err[x],
         MutexTypeOK', MutexOK(m)',
         \A y \in Mtx \ {m} : UNCHANGED <<owner[y], hold[y], avail[y], original[y], mine[y], exists[y]>>
  PROVE  MutexInv'
<1>1. /\ WaitInv' /\ FlushOK' /\ FlushOwn'
      /\ \A y \in Mtx, x \in Thread : Holds(y, x)' <=> Holds(y, x)
  BY LocalStep
<1>2. ASSUME NEW y \in Mtx \ {m} PROVE MutexOK(y)'
  BY <1>1, MutexKept DEF MutexInv
<1> QED BY <1>1, <1>2 DEF MutexInv

(* The caller owns the mutex, or nobody does. *)
LEMMA MutexTakeStep ==
  ASSUME MutexInv, NEW t \in Thread \ {Idle}, NEW m \in Mtx, MutexTakeAgain(t, m) \/ MutexTakeFree(t, m)
  PROVE  MutexInv'
<1> USE KernelAssumption DEF callVars
<1>a. /\ InUser(t) /\ exists[m] /\ err' = [err EXCEPT ![t] = "EOK"] /\ Counted(m, t, 1)
      /\ UNCHANGED <<queueVars, stat, prio, slice, timer, callVars, current, nest, due, lag, exists>>
  BY DEF MutexTakeAgain, MutexTakeFree, Errno
<1>b. ~Holds(m, t) /\ t # NoThread
  BY <1>a, CallerView DEF MutexInv, Mtx
<1>c. err \in [Thread -> Err] /\ prio[t] \in Prio
  BY DEF MutexInv, WaitInv, KernelInv, KernelTypeOK, Err
<1>1. KernelInv'
  BY <1>a, <1>c, ErrStep DEF MutexInv, WaitInv, Err
<1>v. /\ owner[m] \in Thread \cup {NoThread} /\ hold[m] \in 0 .. MaxHold /\ avail[m] \in {0, 1}
      /\ owner[m] = NoThread <=> avail[m] = 1
      /\ owner[m] = NoThread => hold[m] = 0 /\ waitq[m] = <<>>
      /\ owner[m] # NoThread => hold[m] >= 1 /\ original[m] \in Prio /\ owner[m] # Idle
      /\ \A x \in Thread : mine[m][x] \in 0 .. MaxHold
      /\ \A x \in Thread : owner[m] # x => mine[m][x] = 0 /\ ~Holds(m, x)
      /\ \A x \in Thread : owner[m] = x /\ ~Holds(m, x) => hold[m] = mine[m][x]
  BY <1>a, MutexView
<1>2. PICK v \in {0, 1}, p \in Prio :
        /\ SetOwner(m, t, hold[m] + 1, v, p) /\ v = 0
        /\ hold[m] < MaxHold /\ hold[m] = mine[m][t] /\ (owner[m] = t \/ owner[m] = NoThread)
  <2>1. CASE MutexTakeAgain(t, m)
    <3>1. owner[m] = t /\ hold[m] < MaxHold /\ SetOwner(m, t, hold[m] + 1, avail[m], original[m])
      BY <2>1 DEF MutexTakeAgain
    <3> QED BY <1>b, <1>v, <3>1
  <2>2. CASE MutexTakeFree(t, m)
    <3>1. owner[m] # t /\ avail[m] > 0 /\ SetOwner(m, t, hold[m] + 1, avail[m] - 1, prio[t])
      BY <2>2 DEF MutexTakeFree
    <3>2. avail[m] = 1 /\ owner[m] = NoThread /\ hold[m] = 0 /\ mine[m][t] = 0 /\ avail[m] - 1 = 0
      BY <1>v, <3>1
    <3>3. SetOwner(m, t, hold[m] + 1, 0, prio[t])
      BY <3>1, <3>2
    <3> QED BY <1>c, <3>2, <3>3, MutexAssumption
  <2> QED BY <2>1, <2>2
<1>3. hold[m] + 1 \in 0 .. MaxHold /\ mine[m][t] + 1 \in 0 .. MaxHold
  BY <1>2, <1>v, MutexAssumption
<1>4. /\ MutexTypeOK'
      /\ owner'[m] = t /\ hold'[m] = hold[m] + 1 /\ avail'[m] = 0 /\ original'[m] = p /\ exists'[m] = exists[m]
      /\ mine'[m][t] = mine[m][t] + 1 /\ \A x \in Thread \ {t} : mine'[m][x] = mine[m][x]
      /\ \A y \in Mtx \ {m} :
           UNCHANGED <<owner[y], hold[y], avail[y], original[y], mine[y], exists[y]>>
  <2> DEFINE h == hold[m] + 1
  <2>1. MutexTypeOK /\ SetOwner(m, t, h, v, p) /\ Counted(m, t, 1) /\ UNCHANGED exists
    BY <1>a, <1>2 DEF MutexInv
  <2>2. h \in 0 .. MaxHold /\ t \in Thread \cup {NoThread} /\ 1 \in Int /\ p \in Prio \cup {NoPrio}
    BY <1>3
  <2> HIDE DEF h
  <2>3. /\ MutexTypeOK'
        /\ owner'[m] = t /\ hold'[m] = h /\ avail'[m] = v /\ original'[m] = p /\ exists'[m] = exists[m]
        /\ mine'[m][t] = mine[m][t] + 1 /\ \A x \in Thread \ {t} : mine'[m][x] = mine[m][x]
        /\ \A y \in Mtx \ {m} :
             UNCHANGED <<owner[y], hold[y], avail[y], original[y], mine[y], exists[y]>>
    BY <1>3, <2>1, <2>2, SetEffect
  <2> QED BY <1>2, <2>3 DEF h
<1>5. \A x \in Thread : Holds(m, x)' <=> Holds(m, x)
  BY <1>1, <1>a, LocalStep DEF queueVars
<1>6. MutexOK(m)'
  <2>1. \A x \in Thread : ~Holds(m, x)'
    BY <1>2, <1>5, <1>b, <1>v
  <2>2. \A x \in Thread : mine'[m][x] \in Int /\ (owner'[m] # x => mine'[m][x] = 0)
    BY <1>2, <1>4, <1>v
  <2> QED BY <1>a, <1>b, <1>2, <1>4, <1>v, <2>1, <2>2, MutexTaken
<1> QED BY <1>1, <1>a, <1>4, <1>6, LocalMutexStep DEF queueVars

(* A call that only reports an error. *)
LEMMA MutexRefuseStep ==
  ASSUME MutexInv, NEW t \in Thread \ {Idle}, NEW m \in Mtx, MutexTryFail(t, m) \/ MutexReleaseOther(t, m)
  PROVE  MutexInv'
<1>a. /\ InUser(t)
      /\ err' = [err EXCEPT ![t] = "TIMEOUT"] \/ err' = [err EXCEPT ![t] = "ERROR"]
      /\ UNCHANGED <<queueVars, stat, prio, slice, timer, callVars, current, nest, due, lag, mutexVars>>
  BY DEF MutexTryFail, MutexReleaseOther, Errno
<1>b. err \in [Thread -> Err] /\ err' \in [Thread -> Err] /\ \A x \in Thread \ {t} : err'[x] = err[x]
  <2>1. err \in [Thread -> Err]
    BY DEF MutexInv, WaitInv, KernelInv, KernelTypeOK, Err
  <2> QED BY <1>a, <2>1 DEF Err
<1>1. KernelInv'
  BY <1>a, <1>b, ErrStep DEF MutexInv, WaitInv
<1>2. MutexTypeOK'
  BY <1>a DEF MutexInv, MutexTypeOK, mutexVars
<1>3. MutexOK(m)'
  <2>1. \A x \in Thread : Holds(m, x)' <=> Holds(m, x)
    BY <1>1, <1>a, <1>b, LocalStep DEF queueVars
  <2>2. /\ UNCHANGED <<owner[m], hold[m], avail[m], original[m], mine[m], exists[m]>>
        /\ UNCHANGED <<waitq, timer, due>>
    BY <1>a DEF mutexVars, queueVars
  <2> QED BY <2>1, <2>2, MutexKept DEF MutexInv
<1>4. /\ UNCHANGED <<waitq, stat, timer, callVars, current, nest, due>>
      /\ \A y \in Mtx \ {m} : UNCHANGED <<owner[y], hold[y], avail[y], original[y], mine[y], exists[y]>>
  BY <1>a DEF mutexVars, queueVars
<1> QED BY <1>1, <1>a, <1>b, <1>2, <1>3, <1>4, LocalMutexStep

(***************************************************************************)
(* rt_mutex_release                                                        *)
(***************************************************************************)

(* The owner leaves one of several takes. *)
LEMMA MutexReleaseInnerStep ==
  ASSUME MutexInv, NEW t \in Thread \ {Idle}, NEW m \in Mtx, MutexReleaseInner(t, m)
  PROVE  MutexInv'
<1> USE KernelAssumption
<1>a. /\ InUser(t) /\ exists[m] /\ owner[m] = t /\ hold[m] > 1
      /\ SetOwner(m, t, hold[m] - 1, avail[m], original[m]) /\ Counted(m, t, -1)
      /\ UNCHANGED <<queueVars, stat, prio, slice, timer, err, callVars, current, nest, due, lag, exists>>
  BY DEF MutexReleaseInner, threadVars, SetOwner
<1>b. ~Holds(m, t) /\ t # NoThread
  BY <1>a, CallerView DEF MutexInv, Mtx
<1>1. KernelInv'
  <2>1. err' \in [Thread -> Err]
    BY <1>a DEF MutexInv, WaitInv, KernelInv, KernelTypeOK, Err
  <2> QED BY <1>a, <2>1, ErrStep DEF MutexInv, WaitInv
<1>v. /\ owner[m] \in Thread \cup {NoThread} /\ hold[m] \in 0 .. MaxHold /\ avail[m] \in {0, 1}
      /\ owner[m] = NoThread <=> avail[m] = 1
      /\ owner[m] = NoThread => hold[m] = 0 /\ waitq[m] = <<>>
      /\ owner[m] # NoThread => hold[m] >= 1 /\ original[m] \in Prio /\ owner[m] # Idle
      /\ \A x \in Thread : mine[m][x] \in 0 .. MaxHold
      /\ \A x \in Thread : owner[m] # x => mine[m][x] = 0 /\ ~Holds(m, x)
      /\ \A x \in Thread : owner[m] = x /\ ~Holds(m, x) => hold[m] = mine[m][x]
  BY <1>a, MutexView
<1>2. avail[m] = 0 /\ hold[m] = mine[m][t] /\ original[m] \in Prio
  BY <1>a, <1>b, <1>v
<1>4. /\ MutexTypeOK'
      /\ owner'[m] = t /\ hold'[m] = hold[m] - 1 /\ avail'[m] = 0 /\ original'[m] = original[m] /\ exists'[m] = exists[m]
      /\ mine'[m][t] = mine[m][t] - 1 /\ \A x \in Thread \ {t} : mine'[m][x] = mine[m][x]
      /\ \A y \in Mtx \ {m} :
           UNCHANGED <<owner[y], hold[y], avail[y], original[y], mine[y], exists[y]>>
  <2> DEFINE h == hold[m] - 1  v == avail[m]  p == original[m]  n == -1
  <2>1. MutexTypeOK /\ SetOwner(m, t, h, v, p) /\ Counted(m, t, n) /\ UNCHANGED exists
    BY <1>a DEF MutexInv
  <2>2. /\ h \in 0 .. MaxHold /\ t \in Thread \cup {NoThread} /\ n \in Int /\ p \in Prio \cup {NoPrio}
        /\ v \in {0, 1} /\ mine[m][t] + n \in 0 .. MaxHold /\ mine[m][t] + n = mine[m][t] - 1
    BY <1>a, <1>2, <1>v, MutexAssumption
  <2> HIDE DEF h, v, p, n
  <2>3. /\ MutexTypeOK'
        /\ owner'[m] = t /\ hold'[m] = h /\ avail'[m] = v /\ original'[m] = p /\ exists'[m] = exists[m]
        /\ mine'[m][t] = mine[m][t] + n /\ \A x \in Thread \ {t} : mine'[m][x] = mine[m][x]
        /\ \A y \in Mtx \ {m} :
             UNCHANGED <<owner[y], hold[y], avail[y], original[y], mine[y], exists[y]>>
    BY <2>1, <2>2, SetEffect
  <2>4. h = hold[m] - 1 /\ v = 0 /\ p = original[m]
    BY <1>2 DEF h, v, p
  <2> QED BY <2>2, <2>3, <2>4
<1>5. \A x \in Thread : Holds(m, x)' <=> Holds(m, x)
  BY <1>1, <1>a, LocalStep DEF queueVars
<1>6. MutexOK(m)'
  <2>1. \A x \in Thread : ~Holds(m, x)'
    BY <1>a, <1>5, <1>b, <1>v
  <2>2. \A x \in Thread : mine'[m][x] \in Int /\ (owner'[m] # x => mine'[m][x] = 0)
    BY <1>a, <1>4, <1>v
  <2>3. hold'[m] >= 1
    BY <1>a, <1>4, <1>v
  <2> QED BY <1>a, <1>b, <1>2, <1>4, <1>v, <2>1, <2>2, <2>3, MutexTaken
<1> QED BY <1>1, <1>a, <1>4, <1>6, LocalMutexStep DEF queueVars

(* The owner gives the mutex back, and with it the lent priority. *)
LEMMA MutexReleaseFreeStep ==
  ASSUME MutexInv, Guarded, NEW t \in Thread \ {Idle}, NEW m \in Mtx, MutexReleaseFree(t, m)
  PROVE  MutexInv'
<1> USE KernelAssumption
<1>a. /\ InUser(t) /\ exists[m] /\ owner[m] = t /\ hold[m] = 1 /\ waitq[m] = <<>>
      /\ prio' = [prio EXCEPT ![t] = PrioBack(t, m)]
      /\ ready' = QueuesBack(t, m) /\ mask' = MaskBack(t, m)
      /\ SetOwner(m, NoThread, 0, avail[m] + 1, NoPrio) /\ Counted(m, t, -1)
      /\ lag' = (lag \/ PrioBack(t, m) # prio[t])
      /\ UNCHANGED <<waitq, defunct, stat, err, slice, timer, callVars, current, nest, due, exists>>
  BY DEF MutexReleaseFree, SetOwner
<1>b. /\ ~Holds(m, t) /\ t # NoThread /\ stat[t] = "READY" /\ \A v \in Thread : arg[v] # t
  BY <1>a, CallerView DEF MutexInv, Mtx
<1>v. /\ owner[m] \in Thread \cup {NoThread} /\ hold[m] \in 0 .. MaxHold /\ avail[m] \in {0, 1}
      /\ owner[m] = NoThread <=> avail[m] = 1
      /\ owner[m] = NoThread => hold[m] = 0 /\ waitq[m] = <<>>
      /\ owner[m] # NoThread => hold[m] >= 1 /\ original[m] \in Prio /\ owner[m] # Idle
      /\ \A x \in Thread : mine[m][x] \in 0 .. MaxHold
      /\ \A x \in Thread : owner[m] # x => mine[m][x] = 0 /\ ~Holds(m, x)
      /\ \A x \in Thread : owner[m] = x /\ ~Holds(m, x) => hold[m] = mine[m][x]
  BY <1>a, MutexView
<1>2. avail[m] = 0 /\ mine[m][t] = 1 /\ original[m] \in Prio
  BY <1>a, <1>b, <1>v
<1>k. KernelInv /\ prio \in [Thread -> Prio] /\ lag \in BOOLEAN
  BY DEF MutexInv, WaitInv, KernelInv, KernelTypeOK
<1>1. KernelInv'
  <2>1. CASE original[m] = prio[t]
    <3>1. UNCHANGED <<ready, mask, prio, lag>>
      <4>1. ready' = ready /\ mask' = mask
        BY <1>a, <2>1 DEF QueuesBack, MaskBack, PrioBack
      <4>2. prio' = [prio EXCEPT ![t] = prio[t]] /\ lag' = (lag \/ prio[t] # prio[t])
        BY <1>a, <2>1 DEF PrioBack
      <4>3. prio' = prio
        BY <1>k, <4>2
      <4>4. lag' = lag
        BY <1>k, <4>2
      <4> QED BY <4>1, <4>3, <4>4
    <3>2. UNCHANGED kernelVars
      BY <1>a, <3>1 DEF kernelVars, queueVars, threadVars
    <3> QED BY <1>k, <3>2, StepInv
  <2>2. CASE original[m] # prio[t]
    <3>p. PICK p \in Prio : p = original[m]
      BY <1>2
    <3>1. ready' = Requeued(t, p) /\ mask' = MaskWithout(t) \cup {p} /\ lag' = TRUE
      BY <1>a, <2>2, <3>p DEF QueuesBack, MaskBack, PrioBack
    <3>2. prio' = [prio EXCEPT ![t] = p]
      BY <1>a, <3>p DEF PrioBack
    <3>3. ChangePriority(t, t, p)
      BY <1>a, <1>b, <3>1, <3>2 DEF ChangePriority
    <3> QED BY <1>k, <3>3, ChangePriorityStep
  <2> QED BY <2>1, <2>2
<1>4. /\ MutexTypeOK'
      /\ owner'[m] = NoThread /\ hold'[m] = 0 /\ avail'[m] = 1 /\ exists'[m] = exists[m]
      /\ mine'[m][t] = 0 /\ \A x \in Thread \ {t} : mine'[m][x] = mine[m][x]
      /\ \A y \in Mtx \ {m} :
           UNCHANGED <<owner[y], hold[y], avail[y], original[y], mine[y], exists[y]>>
  <2> DEFINE v == avail[m] + 1  n == -1
  <2>1. MutexTypeOK /\ SetOwner(m, NoThread, 0, v, NoPrio) /\ Counted(m, t, n) /\ UNCHANGED exists
    BY <1>a DEF MutexInv
  <2>2. /\ 0 \in 0 .. MaxHold /\ NoThread \in Thread \cup {NoThread} /\ n \in Int /\ NoPrio \in Prio \cup {NoPrio}
        /\ v \in {0, 1} /\ v = 1 /\ mine[m][t] + n \in 0 .. MaxHold /\ mine[m][t] + n = 0
    BY <1>2, MutexAssumption
  <2> HIDE DEF v, n
  <2>3. /\ MutexTypeOK'
        /\ owner'[m] = NoThread /\ hold'[m] = 0 /\ avail'[m] = v /\ original'[m] = NoPrio /\ exists'[m] = exists[m]
        /\ mine'[m][t] = mine[m][t] + n /\ \A x \in Thread \ {t} : mine'[m][x] = mine[m][x]
        /\ \A y \in Mtx \ {m} :
             UNCHANGED <<owner[y], hold[y], avail[y], original[y], mine[y], exists[y]>>
    BY <2>1, <2>2, SetEffect
  <2> QED BY <2>2, <2>3
<1>5. \A x \in Thread : Holds(m, x)' <=> Holds(m, x)
  BY <1>1, <1>a, LocalStep
<1>6. MutexOK(m)'
  <2>1. \A x \in Thread : ~Holds(m, x)'
    BY <1>a, <1>5, <1>b, <1>v
  <2>2. \A x \in Thread : mine'[m][x] \in Int /\ (owner'[m] # x => mine'[m][x] = 0)
    BY <1>a, <1>4, <1>v
  <2> QED BY <1>a, <1>4, <2>1, <2>2, MutexTaken
<1> QED BY <1>1, <1>a, <1>4, <1>6, LocalMutexStep

(***************************************************************************)
(* The kernel's own steps.                                                 *)
(***************************************************************************)
LEMMA KernelKeepsMutexes ==
  ASSUME MutexInv, Guarded, [KernelNext]_kernelVars, OwnersStay \/ UNCHANGED kernelVars, UNCHANGED mutexVars
  PROVE  MutexInv'
<1> USE DEF MutexInv
<1>1. WaitInv' /\ FlushOK'
  BY StepInv, KernelKeepsFresh, KernelKeepsPlace, KernelKeepsCalls, KernelKeepsFlush DEF WaitInv
<1>2. FlushOwn'
  BY KernelKeepsFlusher DEF FlushOwn, mutexVars, WaitInv
<1>3. MutexTypeOK'
  BY DEF MutexTypeOK, mutexVars
<1>4. ASSUME NEW m \in Mtx PROVE MutexOK(m)'
  <2>1. \A x \in Thread : Holds(m, x)' => Holds(m, x)
    <3>1. PICK c \in Thread : Fades(m, c)
      BY KernelFades DEF Mtx
    <3> QED BY <3>1 DEF Fades
  <2>2. ASSUME NEW x \in Thread, Holds(m, x) PROVE Holds(m, x)' /\ timer'[x] = 0 /\ x \notin due'
    <3>1. exists[m] /\ owner[m] = x /\ timer[x] = 0 /\ x \notin due /\ x # NoThread
      BY <2>2, KernelAssumption DEF MutexOK, ServedOK
    <3>2. stat'[x] # "CLOSE" /\ \A t \in Thread : arg'[t] = x => pc'[t] # "del1"
      <4>1. CASE OwnersStay
        BY <3>1, <4>1 DEF OwnersStay
      <4>2. CASE UNCHANGED kernelVars
        BY <2>2, <4>2 DEF Holds, Deleting, kernelVars, threadVars, callVars
      <4> QED BY <4>1, <4>2
    <3> QED BY <2>2, <3>1, <3>2, KernelKeepsServed
  <2>3. waitq[m] = <<>> => waitq'[m] = <<>>
    BY KernelShrinksWaits DEF Mtx, WaitInv
  <2>4. UNCHANGED <<owner[m], hold[m], avail[m], original[m], mine[m], exists[m]>>
    BY DEF mutexVars
  <2> QED BY <2>1, <2>2, <2>3, <2>4, MutexKept
<1> QED BY <1>1, <1>2, <1>3, <1>4

(***************************************************************************)
(* rt_mutex_take that waits, and its return                                *)
(***************************************************************************)
LEMMA MutexWaitStep ==
  ASSUME MutexInv, NEW t \in Thread \ {Idle}, NEW m \in Mtx, NEW n \in 0 .. MaxTime, MutexWait(t, m, n)
  PROVE  MutexInv'
<1> USE KernelAssumption
<1>a. /\ MayBlock(t) /\ InUser(t) /\ nest = 0 /\ exists[m] /\ owner[m] # t /\ avail[m] = 0
      /\ Lend(t, owner[m])
      /\ stat' = [stat EXCEPT ![t] = "SUSPEND"] /\ timer' = [timer EXCEPT ![t] = n]
      /\ waitq' = [waitq EXCEPT ![m] = WaitInsert(waitq[m], t, MutexFlag[m])]
      /\ err' = [err EXCEPT ![t] = "EOK"] /\ call' = [call EXCEPT ![t] = m] /\ Goto(t, "sched")
      /\ UNCHANGED <<defunct, slice, arg, current, nest, due, lag, mutexVars>>
  BY DEF MutexWait, MayBlock, Errno
<1>b. /\ current = t /\ stat[t] = "READY" /\ pc[t] = "run" /\ ~Flushing(t)
      /\ \A o \in Obj : t \notin Range(waitq[o])
      /\ \A y \in Mtx : ~Holds(y, t)
  BY <1>a, CallerView DEF MutexInv, Mtx
<1>k. /\ KernelInv /\ WaitInv /\ FlushOK
      /\ pc \in [Thread -> Pc] /\ call \in [Thread -> Call] /\ stat \in [Thread -> Stat]
      /\ err \in [Thread -> Err] /\ timer \in [Thread -> 0 .. MaxTime] /\ prio \in [Thread -> Prio]
      /\ waitq \in [Obj -> Seq(Thread)] /\ \A o \in Obj : IsInjective(waitq[o])
  BY DEF MutexInv, WaitInv, KernelInv, KernelTypeOK, ListsConsistent, Call, Err
<1>v. /\ owner[m] \in Thread \cup {NoThread} /\ hold[m] \in 0 .. MaxHold /\ avail[m] \in {0, 1}
      /\ owner[m] = NoThread <=> avail[m] = 1
      /\ owner[m] = NoThread => hold[m] = 0 /\ waitq[m] = <<>>
      /\ owner[m] # NoThread => hold[m] >= 1 /\ original[m] \in Prio /\ owner[m] # Idle
      /\ \A x \in Thread : mine[m][x] \in 0 .. MaxHold
      /\ \A x \in Thread : owner[m] # x => mine[m][x] = 0 /\ ~Holds(m, x)
      /\ \A x \in Thread : owner[m] = x /\ ~Holds(m, x) => hold[m] = mine[m][x]
  BY <1>a, MutexView
<1>o. PICK o \in Thread \ {t, Idle} : o = owner[m]
  BY <1>a, <1>v
<1>q. /\ QOK(ready', mask') /\ prio' \in [Thread -> Prio]
      /\ \A x \in Thread \ {o} : prio'[x] = prio[x]
      /\ \A q \in Prio : \A x \in Range(ready'[q]) :
           x \in Thread \ {t} /\ prio'[x] = q /\ x \in Range(ready[prio[x]])
      /\ \A x \in Thread \ {t} : x \in Range(ready[prio[x]]) => x \in Range(ready'[prio'[x]])
  BY <1>a, <1>b, <1>k, <1>o, LendQueues
<1>p. /\ pc'[t] = "sched" /\ call'[t] = m /\ err'[t] = "EOK" /\ stat'[t] = "SUSPEND"
      /\ \A x \in Thread \ {t} : UNCHANGED <<pc[x], call[x], stat[x], err[x], timer[x]>>
  BY <1>a, <1>k DEF Goto
<1>w. \A x \in Obj : Range(waitq'[x]) = IF x = m THEN Range(waitq[m]) \cup {t} ELSE Range(waitq[x])
  <2>1. Range(WaitInsert(waitq[m], t, MutexFlag[m])) = Range(waitq[m]) \cup {t}
    BY <1>b, <1>k, WaitInsertRange DEF Mtx
  <2> QED BY <1>a, <1>k, <2>1 DEF Mtx
<1>1. KernelInv'
  <2>1. \A x \in Thread : Deleting(x) => Deleting(x)'
    BY <1>a, <1>b, <1>p DEF Deleting
  <2>2. stat'[t] # "READY" /\ \A x \in Thread \ {t} : stat'[x] = "READY" <=> stat[x] = "READY"
    BY <1>p
  <2>3. QueuesConsistent'
    <3>1. \A q \in Prio : \A x \in Range(ready'[q]) :
            /\ x \in Thread /\ prio'[x] = q
            /\ IF x = t THEN stat'[t] = "READY" ELSE x \in Range(ready[prio[x]])
      BY <1>q
    <3>2. stat'[t] = "READY" => t \in Range(ready'[prio'[t]])
      BY <2>2
    <3>3. \A x \in Thread \ {t} : x \in Range(ready[prio[x]]) => x \in Range(ready'[prio'[x]])
      BY <1>q
    <3>4. KernelInv /\ QOK(ready', mask') /\ prio' \in [Thread -> Prio]
      BY <1>k, <1>q
    <3> QED BY <2>1, <2>2, <3>1, <3>2, <3>3, <3>4, MovedQueues
  <2>4. JoinNone(ready')
    BY <1>k, <1>q DEF JoinNone
  <2>5. prio'[Idle] = prio[Idle]
    BY <1>o, <1>q
  <2> QED BY <1>a, <1>k, <1>q, <2>3, <2>4, <2>5, LendingBlockStep DEF Mtx
<1>2. FlushOK' /\ FlushOwn'
  <2>1. ~Flushing(current) /\ \A x \in Thread : Flushing(x)' => Flushing(x)
    BY <1>b, <1>p DEF Flushing
  <2> QED BY <1>k, <2>1, NoFlusher
<1>3. WaitInv'
  <2>1. \A y \in Obj : \A x \in Range(waitq'[y]) :
          \/ x \in Range(waitq[y]) /\ x # t /\ UNCHANGED err[x]
          \/ x = t /\ pc'[x] = "sched" /\ err'[x] = "EOK"
    <3>1. \A y \in Obj : Range(waitq[y]) \subseteq Thread
      BY <1>k, InvQueues
    <3> QED BY <1>b, <1>p, <1>w, <3>1 DEF Mtx
  <2>2. stat'[t] # "INIT" /\ (pc'[t] = "run" => call'[t] = "none") /\ pc'[t] \notin OpPc
    BY <1>p DEF OpPc
  <2>3. \A x \in Thread \ {t} : UNCHANGED <<pc[x], call[x]>> /\ (stat'[x] = "INIT" => stat[x] = "INIT")
    BY <1>p
  <2> QED BY <1>1, <1>k, <2>1, <2>2, <2>3, PlacesKept
<1>4. ASSUME NEW y \in Mtx PROVE MutexOK(y)'
  <2>1. ASSUME NEW x \in Thread PROVE Holds(y, x)' <=> Holds(y, x)
    <3>1. CASE x = t
      BY <1>b, <1>p, <1>w, <3>1 DEF Holds, Mtx
    <3>2. CASE x # t
      <4>1. x \in Range(waitq'[y]) <=> x \in Range(waitq[y])
        BY <1>w, <3>2 DEF Mtx
      <4>2. pc[t] \notin {"del1", "del2"} /\ pc'[t] \notin {"del1", "del2"}
        BY <1>b, <1>p
      <4> QED BY <1>a, <1>p, <3>2, <4>1, <4>2, HoldsKept DEF Mtx
    <3> QED BY <3>1, <3>2
  <2>2. waitq[y] = <<>> => waitq'[y] = <<>> \/ (exists[y] /\ owner[y] # NoThread)
    BY <1>a, <1>k, <1>o DEF Mtx
  <2>3. UNCHANGED <<owner[y], hold[y], avail[y], original[y], mine[y], exists[y]>>
    BY <1>a DEF mutexVars
  <2>4. \A x \in Thread : Holds(y, x) /\ timer[x] = 0 /\ x \notin due => timer'[x] = 0 /\ x \notin due'
    BY <1>a, <1>b, <1>p
  <2> QED BY <2>1, <2>2, <2>3, <2>4, MutexKept DEF MutexInv
<1>5. MutexTypeOK'
  BY <1>a DEF MutexInv, MutexTypeOK, mutexVars
<1> QED BY <1>2, <1>3, <1>4, <1>5 DEF MutexInv

(* The call returns, with RT_EOK exactly to the owner. *)
LEMMA MutexReturnStep ==
  ASSUME MutexInv, NEW t \in Thread, MutexReturn(t)
  PROVE  MutexInv'
<1> USE KernelAssumption
<1>m. PICK m \in Mtx : m = call[t]
  BY DEF MutexReturn
<1>k. /\ KernelInv /\ WaitInv /\ FlushOK /\ MutexTypeOK /\ MutexOK(m)
      /\ pc \in [Thread -> Pc] /\ call \in [Thread -> Call] /\ err \in [Thread -> Err]
  BY DEF MutexInv, WaitInv, KernelInv, KernelTypeOK, Call, Err
<1>a. /\ current = t /\ due = {} /\ pc[t] = "blocked" /\ call[t] = m
      /\ Goto(t, "run") /\ call' = [call EXCEPT ![t] = "none"]
      /\ Counted(m, t, IF err[t] = "EOK" THEN 1 ELSE 0)
      /\ UNCHANGED <<queueVars, stat, prio, err, slice, timer, arg, current, nest, due, lag,
                     owner, hold, avail, original, exists>>
  BY <1>m DEF MutexReturn, At, Running, threadVars
<1>b. stat[t] = "READY" /\ t # Idle
  BY <1>a, <1>k DEF KernelInv, CurrentOK, IdleOK
<1>c. (\A v \in Thread : arg[v] # t) /\ (\A o \in Obj : t \notin Range(waitq[o]))
  BY <1>a, <1>b, <1>k, RunningThread
<1>p. /\ pc'[t] = "run" /\ call'[t] = "none" /\ UNCHANGED <<waitq, stat, err>>
      /\ \A x \in Thread \ {t} : UNCHANGED <<pc[x], call[x], stat[x], err[x]>>
  BY <1>a, <1>k DEF Goto, queueVars
<1>1. KernelInv'
  <2>1. /\ "run" \in Pc \ OpPc /\ pc[t] \notin OpPc \cup {"sched", "reset"} /\ pc' = [pc EXCEPT ![t] = "run"]
        /\ call' \in [Thread -> Call] /\ \A v \in Thread \ {t} : call'[v] = call[v]
        /\ err' \in [Thread -> Err]
    BY <1>a, <1>k DEF Pc, OpPc, Goto, Call
  <2> QED BY <1>a, <1>b, <1>k, <2>1, PlaceStep
<1>2. FlushOK' /\ FlushOwn'
  <2>1. ~Flushing(current) /\ \A x \in Thread : Flushing(x)' => Flushing(x)
    BY <1>a, <1>p DEF Flushing
  <2> QED BY <1>k, <2>1, NoFlusher
<1>3. WaitInv'
  <2>1. \A y \in Obj : \A x \in Range(waitq'[y]) : x \in Range(waitq[y]) /\ x # t /\ UNCHANGED err[x]
    BY <1>c, <1>p
  <2>2. stat'[t] # "INIT" /\ call'[t] = "none" /\ pc'[t] \notin OpPc
    BY <1>b, <1>p DEF OpPc
  <2>3. \A x \in Thread \ {t} : UNCHANGED <<pc[x], call[x]>> /\ (stat'[x] = "INIT" => stat[x] = "INIT")
    BY <1>p
  <2> QED BY <1>1, <1>k, <2>1, <2>2, <2>3, PlacesKept
<1>4. \A y \in Mtx, x \in Thread \ {t} : Holds(y, x)' <=> Holds(y, x)
  <2>1. pc[t] \notin {"del1", "del2"} /\ pc'[t] \notin {"del1", "del2"}
    BY <1>a, <1>p
  <2> QED BY <1>a, <1>p, <2>1, HoldsKept DEF Mtx
<1>5. \A y \in Mtx : ~Holds(y, t)'
  <2>1. \A y \in Mtx : y # "none"
    BY DEF Mtx
  <2> QED BY <1>p, <2>1 DEF Holds
<1>6. Holds(m, t) <=> err[t] = "EOK"
  <2>1. ~Deleting(t)
    BY <1>c DEF Deleting
  <2> QED BY <1>a, <1>b, <1>c, <2>1 DEF Holds, Mtx
<1>7. \A y \in Mtx \ {m} : ~Holds(y, t)
  BY <1>a DEF Holds
<1>8. PICK n \in {0, 1} : Counted(m, t, n) /\ (Holds(m, t) <=> n = 1)
  BY <1>a, <1>6
<1>9. mine[m][t] + n \in 0 .. MaxHold /\ n \in Int
  <2>1. mine[m][t] \in 0 .. MaxHold /\ hold[m] \in 0 .. MaxHold
    BY <1>k DEF MutexTypeOK
  <2>2. Holds(m, t) => hold[m] = mine[m][t] + 1
    BY <1>k DEF MutexOK, OwnerOK, ServedOK
  <2> QED BY <1>8, <2>1, <2>2, MutexAssumption
<1>10. /\ MutexTypeOK'
       /\ mine'[m][t] = mine[m][t] + n /\ \A x \in Thread \ {t} : mine'[m][x] = mine[m][x]
       /\ \A y \in Mtx \ {m} : mine'[y] = mine[y]
  <2>1. mine' = [mine EXCEPT ![m] = [mine[m] EXCEPT ![t] = mine[m][t] + n]]
    BY <1>8 DEF Counted
  <2>2. mine \in [Mtx -> [Thread -> 0 .. MaxHold]]
    BY <1>k DEF MutexTypeOK
  <2>3. [mine[m] EXCEPT ![t] = mine[m][t] + n] \in [Thread -> 0 .. MaxHold]
    BY <1>9, <2>2
  <2>4. mine' \in [Mtx -> [Thread -> 0 .. MaxHold]] /\ mine'[m] = [mine[m] EXCEPT ![t] = mine[m][t] + n]
    BY <2>1, <2>2, <2>3
  <2> QED BY <1>a, <1>k, <2>1, <2>2, <2>4 DEF MutexTypeOK
<1>11. MutexOK(m)'
  <2>1. OwnerOK(m)'
    <3>1. \A x \in Thread : owner'[m] = x /\ exists[m] =>
             hold'[m] = mine'[m][x] + (IF Holds(m, x)' THEN 1 ELSE 0)
      <4> SUFFICES ASSUME NEW x \in Thread, owner[m] = x, exists[m]
                   PROVE  hold[m] = mine'[m][x] + (IF Holds(m, x)' THEN 1 ELSE 0)
        BY <1>a
      <4>1. hold[m] = mine[m][x] + (IF Holds(m, x) THEN 1 ELSE 0) /\ mine[m][x] \in Int
        BY <1>k DEF MutexOK, OwnerOK, MutexTypeOK
      <4>2. CASE x = t
        BY <1>5, <1>8, <1>10, <4>1, <4>2
      <4>3. CASE x # t
        BY <1>4, <1>10, <4>1, <4>3
      <4> QED BY <4>2, <4>3
    <3>2. \A x \in Thread : owner'[m] # x /\ exists[m] => mine'[m][x] = 0
      <4> SUFFICES ASSUME NEW x \in Thread, owner[m] # x, exists[m] PROVE mine'[m][x] = 0
        BY <1>a
      <4>1. mine[m][x] = 0 /\ ~Holds(m, x)
        BY <1>k DEF MutexOK, OwnerOK, ServedOK
      <4> QED BY <1>8, <1>10, <4>1
    <3> QED BY <1>a, <1>k, <3>1, <3>2 DEF MutexOK, OwnerOK, queueVars
  <2>2. ServedOK(m)'
    BY <1>4, <1>5, <1>a, <1>k DEF MutexOK, ServedOK
  <2>3. GoneEmpty(m)'
    BY <1>a, <1>k DEF MutexOK, GoneEmpty, queueVars
  <2> QED BY <2>1, <2>2, <2>3 DEF MutexOK
<1>12. ASSUME NEW y \in Mtx \ {m} PROVE MutexOK(y)'
  <2>1. \A x \in Thread : Holds(y, x)' <=> Holds(y, x)
    BY <1>4, <1>5, <1>7
  <2>2. UNCHANGED <<owner[y], hold[y], avail[y], original[y], mine[y], exists[y]>>
    BY <1>a, <1>10
  <2> QED BY <1>a, <2>1, <2>2, MutexKept DEF MutexInv, queueVars
<1> QED BY <1>2, <1>3, <1>10, <1>11, <1>12 DEF MutexInv

(***************************************************************************)
(* rt_mutex_release that hands the mutex over                              *)
(***************************************************************************)

(* The queues when the owner t has his priority back and the waiter u is   *)
(* ready behind those of its priority.                                     *)
LEMMA HandOverQueues ==
  ASSUME KernelInv, NEW t \in Thread, current = t, stat[t] = "READY",
         NEW m \in Mtx, original[m] \in Prio, NEW u \in Thread \ {t}, stat[u] = "SUSPEND",
         prio' = [prio EXCEPT ![t] = original[m]],
         Appended(ready', mask', QueuesBack(t, m), MaskBack(t, m), prio[u], u)
  PROVE  /\ QOK(ready', mask') /\ prio' \in [Thread -> Prio]
         /\ \A x \in Thread \ {t} : prio'[x] = prio[x]
         /\ u \in Range(ready'[prio'[u]])
         /\ \A q \in Prio : \A x \in Range(ready'[q]) :
              x \in Thread /\ prio'[x] = q /\ (x # u => x \in Range(ready[prio[x]]))
         /\ \A x \in Thread \ {u} : x \in Range(ready[prio[x]]) => x \in Range(ready'[prio'[x]])
<1>a. /\ prio \in [Thread -> Prio] /\ t \in Range(ready[prio[t]])
      /\ \A q \in Prio : Range(ready[q]) \subseteq Thread
      /\ \A q \in Prio : \A x \in Range(ready[q]) : stat[x] = "READY" /\ prio[x] = q
  BY InvQueues, RunningThread DEF KernelInv, KernelTypeOK, QueuesConsistent
<1>p. PICK p \in Prio : p = prio[u]
  BY <1>a
<1>o. PICK o \in Prio : o = original[m]
  OBVIOUS
<1> DEFINE r == QueuesBack(t, m)  k == MaskBack(t, m)
<1>1. /\ QOK(r, k)
      /\ Range(r[o]) = Range(ready[o]) \cup {t}
      /\ \A q \in Prio \ {o} : Range(r[q]) = Range(ready[q]) \ {t}
  BY <1>o, BackQueues
<1> HIDE DEF r, k
<1>2. \A q \in Prio : u \notin Range(r[q])
  BY <1>1, <1>a
<1> DEFINE s == [r EXCEPT ![p] = Append(r[p], u)]  l == k \cup {p}
<1>3. Appended(s, l, r, k, p, u) /\ ready' = s /\ mask' = l
  BY <1>p DEF r, k, Appended
<1> HIDE DEF s, l
<1>4. /\ QOK(s, l) /\ Range(s[p]) = Range(r[p]) \cup {u}
      /\ \A q \in Prio \ {p} : s[q] = r[q]
  BY <1>1, <1>2, <1>3, AppendQueues
<1>5. /\ QOK(ready', mask')
      /\ Range(ready'[p]) = Range(r[p]) \cup {u}
      /\ \A q \in Prio \ {p} : ready'[q] = r[q]
  BY <1>3, <1>4
<1>6. /\ prio' \in [Thread -> Prio] /\ prio'[t] = o
      /\ \A x \in Thread \ {t} : prio'[x] = prio[x]
  BY <1>a, <1>o
<1>7. u \in Range(ready'[prio'[u]])
  BY <1>5, <1>6, <1>p
<1>8. ASSUME NEW q \in Prio, NEW x \in Range(ready'[q])
      PROVE  x \in Thread /\ prio'[x] = q /\ (x # u => x \in Range(ready[prio[x]]))
  <2>1. CASE x = u
    <3>1. q = p
      BY <1>2, <1>5, <2>1
    <3> QED BY <1>6, <1>p, <2>1, <3>1
  <2>2. CASE x # u
    <3>1. x \in Range(r[q])
      BY <1>5, <2>2
    <3>2. CASE x = t
      <4>1. q = o
        BY <1>1, <3>1, <3>2
      <4> QED BY <1>a, <1>6, <3>2, <4>1
    <3>3. CASE x # t
      <4>1. x \in Range(ready[q])
        BY <1>1, <3>1, <3>3
      <4> QED BY <1>a, <1>6, <3>3, <4>1
    <3> QED BY <3>2, <3>3
  <2> QED BY <2>1, <2>2
<1>9. ASSUME NEW x \in Thread \ {u}, x \in Range(ready[prio[x]]) PROVE x \in Range(ready'[prio'[x]])
  <2>1. prio[x] \in Prio /\ prio'[x] \in Prio
    BY <1>a, <1>6
  <2>2. x \in Range(r[prio'[x]])
    <3>1. CASE x = t
      BY <1>1, <1>6, <3>1
    <3>2. CASE x # t
      <4>1. prio'[x] = prio[x]
        BY <1>6, <3>2
      <4> QED BY <1>1, <1>9, <2>1, <3>2, <4>1
    <3> QED BY <3>1, <3>2
  <2> QED BY <1>5, <2>1, <2>2
<1> QED BY <1>5, <1>6, <1>7, <1>8, <1>9

(* The first waiter becomes the owner before its call returns. *)
LEMMA MutexHandOverStep ==
  ASSUME MutexInv, NEW t \in Thread \ {Idle}, NEW m \in Mtx, MutexHandOver(t, m)
  PROVE  MutexInv'
<1> USE KernelAssumption
<1>k. /\ KernelInv /\ WaitInv /\ FlushOK /\ MutexTypeOK /\ m \in Obj
      /\ pc \in [Thread -> Pc] /\ call \in [Thread -> Call] /\ stat \in [Thread -> Stat]
      /\ err \in [Thread -> Err] /\ timer \in [Thread -> 0 .. MaxTime] /\ prio \in [Thread -> Prio]
      /\ waitq \in [Obj -> Seq(Thread)]
  BY DEF MutexInv, WaitInv, KernelInv, KernelTypeOK, Call, Err, Mtx
<1>u. PICK u \in Thread : u = Head(waitq[m]) /\ u \in Range(waitq[m])
  BY <1>k, HeadRange DEF MutexHandOver
<1>a. /\ InUser(t) /\ exists[m] /\ owner[m] = t /\ hold[m] = 1 /\ waitq[m] # <<>>
      /\ prio' = [prio EXCEPT ![t] = original[m]]
      /\ Appended(ready', mask', QueuesBack(t, m), MaskBack(t, m), prio[u], u)
      /\ waitq' = UnlinkAll(waitq, u)
      /\ stat' = [stat EXCEPT ![u] = "READY"] /\ timer' = [timer EXCEPT ![u] = 0]
      /\ SetOwner(m, u, 1, avail[m], prio[u]) /\ Counted(m, t, -1)
      /\ Goto(t, "sched")
      /\ UNCHANGED <<defunct, err, slice, call, arg, current, nest, due, lag, exists>>
  BY <1>u DEF MutexHandOver, GiveTo, PrioBack, Appended
<1>b. /\ current = t /\ due = {} /\ stat[t] = "READY" /\ call[t] = "none" /\ pc[t] = "run"
      /\ ~Flushing(t)
      /\ \A o \in Obj : t \notin Range(waitq[o])
      /\ \A y \in Mtx : ~Holds(y, t)
  BY <1>a, CallerView DEF MutexInv, Mtx
<1>w. /\ u # Idle /\ u # t /\ stat[u] = "SUSPEND" /\ call[u] = m /\ \A v \in Thread : arg[v] # u
      /\ pc[u] \in {"sched", "blocked"} /\ err[u] = "EOK"
  BY <1>b, <1>k, <1>u, WaiterFacts DEF WaitInv, WaitPlace
<1>v. /\ owner[m] = NoThread <=> avail[m] = 1
      /\ owner[m] # NoThread => hold[m] >= 1 /\ original[m] \in Prio /\ owner[m] # Idle
      /\ \A x \in Thread : owner[m] # x => mine[m][x] = 0 /\ ~Holds(m, x)
      /\ \A x \in Thread : owner[m] = x /\ ~Holds(m, x) => hold[m] = mine[m][x]
      /\ avail[m] \in {0, 1}
  BY <1>a, MutexView
<1>2. /\ avail[m] = 0 /\ mine[m][t] = 1 /\ mine[m][u] = 0 /\ original[m] \in Prio
      /\ \A x \in Thread : ~Holds(m, x)
  BY <1>a, <1>b, <1>v, <1>w
<1>q. /\ QOK(ready', mask') /\ prio' \in [Thread -> Prio]
      /\ \A x \in Thread \ {t} : prio'[x] = prio[x]
      /\ u \in Range(ready'[prio'[u]])
      /\ \A q \in Prio : \A x \in Range(ready'[q]) :
           x \in Thread /\ prio'[x] = q /\ (x # u => x \in Range(ready[prio[x]]))
      /\ \A x \in Thread \ {u} : x \in Range(ready[prio[x]]) => x \in Range(ready'[prio'[x]])
  <2>1. /\ KernelInv /\ current = t /\ stat[t] = "READY" /\ original[m] \in Prio
        /\ u \in Thread \ {t} /\ stat[u] = "SUSPEND"
        /\ prio' = [prio EXCEPT ![t] = original[m]]
        /\ Appended(ready', mask', QueuesBack(t, m), MaskBack(t, m), prio[u], u)
    BY <1>2, <1>a, <1>b, <1>k, <1>w
  <2> QED BY <2>1, HandOverQueues
<1>p. /\ pc'[t] = "sched" /\ \A x \in Thread \ {t} : pc'[x] = pc[x]
      /\ stat'[u] = "READY" /\ \A x \in Thread \ {u} : stat'[x] = stat[x]
      /\ timer'[u] = 0 /\ \A x \in Thread \ {u} : timer'[x] = timer[x]
  BY <1>a, <1>k DEF Goto
<1>r. \A x \in Obj : Range(waitq'[x]) = Range(waitq[x]) \ {u}
  BY <1>a, <1>k, WaitRemoved
<1>1. KernelInv'
  <2>1. \A x \in Thread : Deleting(x) => Deleting(x)'
    BY <1>a, <1>b, <1>p DEF Deleting
  <2>2. QueuesConsistent'
    <3>1. \A q \in Prio : \A x \in Range(ready'[q]) :
            /\ x \in Thread /\ prio'[x] = q
            /\ IF x = u THEN stat'[u] = "READY" ELSE x \in Range(ready[prio[x]])
      BY <1>p, <1>q
    <3>2. stat'[u] = "READY" => u \in Range(ready'[prio'[u]])
      BY <1>q
    <3>3. \A x \in Thread \ {u} : x \in Range(ready[prio[x]]) => x \in Range(ready'[prio'[x]])
      BY <1>q
    <3>4. \A x \in Thread \ {u} : stat'[x] = "READY" <=> stat[x] = "READY"
      BY <1>p
    <3>5. KernelInv /\ QOK(ready', mask') /\ prio' \in [Thread -> Prio]
      BY <1>k, <1>q
    <3> QED BY <2>1, <3>1, <3>2, <3>3, <3>4, <3>5, MovedQueues
  <2>3. \A x \in Thread \ {u} : (\A p \in Prio : x \notin Range(ready[p])) =>
                                \A p \in Prio : x \notin Range(ready'[p])
    <3> SUFFICES ASSUME NEW x \in Thread \ {u}, NEW p \in Prio, x \in Range(ready'[p])
                 PROVE  \E q \in Prio : x \in Range(ready[q])
      OBVIOUS
    <3>1. prio[x] \in Prio
      BY <1>k
    <3> QED BY <1>q, <3>1
  <2>4. prio'[Idle] = prio[Idle]
    BY <1>q
  <2>5. /\ pc' \in [Thread -> Pc] /\ pc'[Idle] = "run"
        /\ \A v \in Thread : pc'[v] = pc[v] \/ (pc'[v] \notin OpPc /\ pc[v] \notin OpPc)
    BY <1>a, <1>b, <1>k, <1>p DEF Goto, Pc, OpPc, KernelInv, IdleOK
  <2>6. pc[current] # "sched" /\ pc'[current] \in {"sched", "reset"} /\ lag' \in BOOLEAN
    BY <1>a, <1>b, <1>k, <1>p DEF KernelInv, KernelTypeOK
  <2>7. err' \in [Thread -> Err] /\ call' \in [Thread -> Call] /\ \A v \in Thread : call'[v] = call[v]
    BY <1>a, <1>k
  <2>8. /\ stat' = [stat EXCEPT ![u] = "READY"] /\ timer' = [timer EXCEPT ![u] = 0]
        /\ waitq' = UnlinkAll(waitq, u) /\ u = Head(waitq[m]) /\ waitq[m] # <<>>
        /\ UNCHANGED <<defunct, slice, arg, nest, due, current>> /\ due = {}
    BY <1>a, <1>b, <1>u
  <2> QED BY <1>k, <1>q, <2>2, <2>3, <2>4, <2>5, <2>6, <2>7, <2>8, LendingWakeStep
<1>3. FlushOK' /\ FlushOwn'
  <2>1. ~Flushing(current) /\ \A x \in Thread : Flushing(x)' => Flushing(x)
    BY <1>b, <1>p DEF Flushing
  <2> QED BY <1>k, <2>1, NoFlusher
<1>4. WaitInv'
  <2>1. \A y \in Obj : \A x \in Range(waitq'[y]) : x \in Range(waitq[y]) /\ x # t /\ UNCHANGED err[x]
    BY <1>a, <1>b, <1>r
  <2>2. stat'[t] # "INIT" /\ (pc'[t] = "run" => call'[t] = "none") /\ pc'[t] \notin OpPc
    BY <1>b, <1>p, <1>w DEF OpPc
  <2>3. \A x \in Thread \ {t} : UNCHANGED <<pc[x], call[x]>> /\ (stat'[x] = "INIT" => stat[x] = "INIT")
    BY <1>a, <1>p
  <2> QED BY ZenonT(60), <1>1, <1>k, <2>1, <2>2, <2>3, PlacesKept
<1>5. /\ MutexTypeOK'
      /\ owner'[m] = u /\ hold'[m] = 1 /\ avail'[m] = 0 /\ original'[m] \in Prio /\ exists'[m]
      /\ mine'[m][t] = 0 /\ \A x \in Thread \ {t} : mine'[m][x] = mine[m][x]
      /\ \A y \in Mtx \ {m} :
           UNCHANGED <<owner[y], hold[y], avail[y], original[y], mine[y], exists[y]>>
  <2> DEFINE v == avail[m]  p == prio[u]  n == -1
  <2>1. MutexTypeOK /\ SetOwner(m, u, 1, v, p) /\ Counted(m, t, n) /\ UNCHANGED exists
    BY <1>a, <1>k
  <2>2. /\ 1 \in 0 .. MaxHold /\ u \in Thread \cup {NoThread} /\ n \in Int /\ p \in Prio \cup {NoPrio}
        /\ v \in {0, 1} /\ v = 0 /\ p \in Prio /\ mine[m][t] + n \in 0 .. MaxHold /\ mine[m][t] + n = 0
    BY <1>2, <1>k, MutexAssumption
  <2> HIDE DEF v, p, n
  <2>3. /\ MutexTypeOK'
        /\ owner'[m] = u /\ hold'[m] = 1 /\ avail'[m] = v /\ original'[m] = p /\ exists'[m] = exists[m]
        /\ mine'[m][t] = mine[m][t] + n /\ \A x \in Thread \ {t} : mine'[m][x] = mine[m][x]
        /\ \A y \in Mtx \ {m} :
             UNCHANGED <<owner[y], hold[y], avail[y], original[y], mine[y], exists[y]>>
    BY <2>1, <2>2, SetEffect
  <2> QED BY <1>a, <2>2, <2>3
<1>6. \A y \in Mtx : ~Holds(y, t)'
  <2>1. \A y \in Mtx : y # "none"
    BY DEF Mtx
  <2>2. call'[t] = "none"
    BY <1>a, <1>b
  <2> QED BY <2>1, <2>2 DEF Holds
<1>7. \A y \in Mtx, x \in Thread \ {t, u} : Holds(y, x)' <=> Holds(y, x)
  <2>1. pc[t] \notin {"del1", "del2"} /\ pc'[t] \notin {"del1", "del2"}
    BY <1>b, <1>p
  <2> SUFFICES ASSUME NEW y \in Mtx, NEW x \in Thread \ {t, u} PROVE Holds(y, x)' <=> Holds(y, x)
    OBVIOUS
  <2>2. x \in Range(waitq'[y]) <=> x \in Range(waitq[y])
    BY <1>r DEF Mtx
  <2>3. UNCHANGED <<stat[x], err[x], arg>> /\ \A v \in Thread \ {t} : UNCHANGED <<pc[v], call[v]>>
    BY <1>a, <1>p
  <2> QED BY <2>1, <2>2, <2>3, HoldsKept DEF Mtx
<1>8. Holds(m, u)'
  <2>1. ~Deleting(u)'
    BY <1>a, <1>w DEF Deleting
  <2>2. u \notin Range(waitq'[m])
    <3>1. m \in Obj
      BY <1>k
    <3> QED BY <1>r, <3>1
  <2> QED BY <1>a, <1>p, <1>w, <2>1, <2>2 DEF Holds
<1>9. MutexOK(m)'
  <2>1. \A x \in Thread : Holds(m, x)' <=> x = u
    BY <1>2, <1>6, <1>7, <1>8
  <2>2. OwnerOK(m)'
    <3>1. owner'[m] \in Thread /\ owner'[m] # NoThread /\ avail'[m] # 1
      BY <1>5
    <3>2. \A x \in Thread : owner'[m] # x => mine'[m][x] = 0
      BY <1>2, <1>5, <1>a, <1>v
    <3>3. \A x \in Thread : owner'[m] = x => hold'[m] = mine'[m][x] + (IF Holds(m, x)' THEN 1 ELSE 0)
      BY <1>2, <1>5, <1>w, <2>1
    <3>4. hold'[m] >= 1 /\ original'[m] \in Prio /\ owner'[m] # Idle
      BY <1>5, <1>w
    <3> QED BY <3>1, <3>2, <3>3, <3>4 DEF OwnerOK
  <2>3. ServedOK(m)'
    BY <1>5, <1>a, <1>b, <1>p, <2>1 DEF ServedOK
  <2>4. GoneEmpty(m)'
    BY <1>5 DEF GoneEmpty
  <2> QED BY <2>2, <2>3, <2>4 DEF MutexOK
<1>10. ASSUME NEW y \in Mtx \ {m} PROVE MutexOK(y)'
  <2>1. \A x \in Thread : Holds(y, x)' <=> Holds(y, x)
    <3>1. ~Holds(y, u) /\ ~Holds(y, u)'
      BY <1>a, <1>w DEF Holds
    <3> QED BY <1>6, <1>7, <1>b, <3>1
  <2>2. waitq[y] = <<>> => waitq'[y] = <<>>
    BY <1>a, <1>k, EmptyStays DEF Mtx
  <2>3. UNCHANGED <<owner[y], hold[y], avail[y], original[y], mine[y], exists[y]>>
    BY <1>5
  <2>4. \A x \in Thread : Holds(y, x) /\ timer[x] = 0 /\ x \notin due => timer'[x] = 0 /\ x \notin due'
    BY <1>a, <1>b, <1>p
  <2>5. MutexOK(y)
    BY DEF MutexInv
  <2> QED BY <2>1, <2>2, <2>3, <2>4, <2>5, MutexKept
<1> QED BY <1>3, <1>4, <1>5, <1>9, <1>10 DEF MutexInv

(***************************************************************************)
(* Mutexes come and go.                                                    *)
(***************************************************************************)

(* rt_mutex_detach, rt_mutex_delete *)
LEMMA MutexDetachStep ==
  ASSUME MutexInv, Guarded, NEW t \in Thread \ {Idle}, NEW m \in Mtx, MutexDetach(t, m)
  PROVE  MutexInv'
<1>k. /\ KernelInv /\ WaitInv /\ FlushOK /\ MutexTypeOK /\ m \in Obj
      /\ pc \in [Thread -> Pc] /\ call \in [Thread -> Call]
  BY DEF MutexInv, WaitInv, KernelInv, KernelTypeOK, Call, Mtx
<1>a. /\ Detach(t, m) /\ InUser(t) /\ owner[m] \in {NoThread, t}
      /\ Goto(t, "flush") /\ call' = [call EXCEPT ![t] = m]
      /\ UNCHANGED <<waitq, stat, err, timer, arg, current, due, mutexVars>>
  BY DEF MutexDetach, Detach, queueVars, threadVars, mutexVars
<1>b. /\ current = t /\ stat[t] = "READY" /\ pc[t] = "run"
      /\ \A o \in Obj : t \notin Range(waitq[o])
  BY <1>a, CallerView DEF MutexInv, Mtx
<1>p. /\ pc'[t] = "flush" /\ call'[t] = m
      /\ \A x \in Thread \ {t} : UNCHANGED <<pc[x], call[x]>>
  BY <1>a, <1>k DEF Goto
<1>1. KernelInv' /\ FlushOK'
  BY <1>a, <1>k, DetachStep
<1>2. WaitInv' /\ \A y \in Mtx, x \in Thread : Holds(y, x)' <=> Holds(y, x)
  BY <1>1, <1>a, <1>b, <1>k, <1>p, MoveStep DEF Mtx
<1>3. FlushOwn'
  <2> SUFFICES ASSUME NEW x \in Thread, Flushing(x)' PROVE owner'[call'[x]] \in {NoThread, x}
    BY DEF FlushOwn
  <2>1. x = t
    BY <1>1, <1>a, <1>b DEF FlushOK
  <2> QED BY <1>a, <1>p, <2>1 DEF mutexVars
<1>4. MutexTypeOK'
  BY <1>a, <1>k DEF MutexTypeOK, mutexVars
<1>5. ASSUME NEW y \in Mtx PROVE MutexOK(y)'
  <2>1. UNCHANGED <<owner[y], hold[y], avail[y], original[y], mine[y], exists[y], waitq, timer, due>>
    BY <1>a DEF mutexVars
  <2> QED BY <1>2, <2>1, MutexKept DEF MutexInv
<1> QED BY <1>1, <1>2, <1>3, <1>4, <1>5 DEF MutexInv

(* rt_mutex_init, rt_mutex_create *)
LEMMA MutexInitStep ==
  ASSUME MutexInv, NEW t \in Thread \ {Idle}, NEW m \in Mtx, MutexInit(t, m)
  PROVE  MutexInv'
<1> USE KernelAssumption
<1>k. /\ KernelInv /\ MutexTypeOK /\ m \in Obj /\ waitq \in [Obj -> Seq(Thread)]
      /\ OwnerOK(m) /\ ServedOK(m) /\ GoneEmpty(m)
  BY DEF MutexInv, MutexOK, WaitInv, KernelInv, KernelTypeOK, Mtx
<1>a. /\ ObjectInit(t, m) /\ InUser(t) /\ ~exists[m]
      /\ exists' = [exists EXCEPT ![m] = TRUE] /\ waitq' = [waitq EXCEPT ![m] = <<>>]
      /\ UNCHANGED <<stat, err, timer, callVars, current, nest, due>>
      /\ SetOwner(m, NoThread, 0, 1, NoPrio)
      /\ mine' = [mine EXCEPT ![m] = [u \in Thread |-> 0]]
  BY DEF MutexInit, ObjectInit, threadVars
<1>1. KernelInv'
  BY <1>a, <1>k, ObjectInitStep
<1>2. UNCHANGED waitq /\ waitq[m] = <<>>
  <2>1. waitq[m] = <<>>
    BY <1>a, <1>k DEF GoneEmpty
  <2> QED BY <1>a, <1>k, <2>1
<1>3. /\ MutexTypeOK'
      /\ owner'[m] = NoThread /\ hold'[m] = 0 /\ avail'[m] = 1 /\ exists'[m]
      /\ \A x \in Thread : mine'[m][x] = 0
      /\ \A y \in Mtx \ {m} :
           UNCHANGED <<owner[y], hold[y], avail[y], original[y], mine[y], exists[y]>>
  <2>1. [u \in Thread |-> 0] \in [Thread -> 0 .. MaxHold] /\ 0 \in 0 .. MaxHold
    BY MutexAssumption
  <2> QED BY <1>a, <1>k, <2>1 DEF MutexTypeOK, SetOwner
<1>4. \A x \in Thread : ~Holds(m, x)'
  <2>1. \A x \in Thread : Holds(m, x)' <=> Holds(m, x)
    BY <1>1, <1>2, <1>a, LocalStep
  <2> QED BY <1>a, <1>k, <2>1 DEF ServedOK
<1>5. MutexOK(m)'
  BY <1>2, <1>3, <1>4, MutexTaken
<1> QED BY <1>1, <1>2, <1>3, <1>5, <1>a, LocalMutexStep

(* Where a thread is that detaches a mutex. *)
LEMMA FlusherView ==
  ASSUME MutexInv, NEW t \in Thread, Flushing(t), current = t
  PROVE  /\ stat[t] = "READY" /\ call[t] \in Mtx /\ t # Idle
         /\ \A o \in Obj : t \notin Range(waitq[o])
         /\ \A m \in Mtx : ~Holds(m, t)
         /\ owner[call[t]] \in {NoThread, t}
<1>1. pc[t] \in {"flush", "flushlock"} /\ stat[t] = "READY"
  BY DEF Flushing, MutexInv, WaitInv, KernelInv, CurrentOK
<1>2. call[t] \in Mtx /\ owner[call[t]] \in {NoThread, t}
  BY DEF MutexInv, FlushOK, FlushOwn, Mtx
<1>3. (\A o \in Obj : t \notin Range(waitq[o])) /\ t # Idle
  BY <1>1, RunningThread DEF MutexInv, WaitInv, KernelInv, IdleOK
<1>4. \A m \in Mtx : ~Holds(m, t)
  BY <1>1 DEF Holds
<1> QED BY <1>1, <1>2, <1>3, <1>4

(* The loop of rt_ipc_list_resume_all looks at the list, *)
LEMMA MutexFlushCheckStep ==
  ASSUME MutexInv, NEW t \in Thread, FlushCheck(t), UNCHANGED <<owner, hold, avail, original, mine>>
  PROVE  MutexInv'
<1>k. /\ KernelInv /\ WaitInv /\ FlushOK /\ MutexTypeOK /\ pc \in [Thread -> Pc]
  BY DEF MutexInv, WaitInv, KernelInv, KernelTypeOK
<1>a. /\ current = t /\ pc[t] = "flush" /\ Goto(t, "flushlock")
      /\ UNCHANGED <<waitq, stat, err, timer, call, arg, due, mutexVars>>
  BY DEF FlushCheck, At, Running, queueVars, threadVars, mutexVars
<1>b. stat[t] = "READY" /\ \A o \in Obj : t \notin Range(waitq[o])
  BY <1>a, FlusherView DEF Flushing
<1>p. pc'[t] = "flushlock" /\ \A x \in Thread \ {t} : UNCHANGED <<pc[x], call[x]>>
  BY <1>a, <1>k DEF Goto
<1>1. KernelInv' /\ FlushOK'
  BY <1>k, FlushCheckStep
<1>2. WaitInv' /\ \A y \in Mtx, x \in Thread : Holds(y, x)' <=> Holds(y, x)
  BY <1>1, <1>a, <1>b, <1>k, <1>p, MoveStep DEF Mtx
<1>3. FlushOwn'
  <2>1. \A x \in Thread : Flushing(x)' => Flushing(x)
    BY <1>a, <1>p DEF Flushing
  <2> QED BY <1>a, <2>1 DEF FlushOwn, MutexInv, mutexVars
<1>4. MutexTypeOK'
  BY <1>a, <1>k DEF MutexTypeOK, mutexVars
<1>5. ASSUME NEW y \in Mtx PROVE MutexOK(y)'
  <2>1. UNCHANGED <<owner[y], hold[y], avail[y], original[y], mine[y], exists[y], waitq, timer, due>>
    BY <1>a DEF mutexVars
  <2> QED BY <1>2, <2>1, MutexKept DEF MutexInv
<1> QED BY <1>1, <1>2, <1>3, <1>4, <1>5 DEF MutexInv

(* wakes its first thread with an error, which is not to be served, *)
LEMMA MutexFlushWakeStep ==
  ASSUME MutexInv, NEW t \in Thread, FlushWake(t), UNCHANGED <<owner, hold, avail, original, mine>>
  PROVE  MutexInv'
<1>k. /\ KernelInv /\ WaitInv /\ FlushOK /\ MutexTypeOK
      /\ pc \in [Thread -> Pc] /\ stat \in [Thread -> Stat] /\ err \in [Thread -> Err]
      /\ timer \in [Thread -> 0 .. MaxTime] /\ waitq \in [Obj -> Seq(Thread)]
  BY DEF MutexInv, WaitInv, KernelInv, KernelTypeOK, Err
<1>1. /\ KernelInv' /\ FlushOK' /\ UNCHANGED exists
      /\ call[t] \in Obj /\ waitq[call[t]] # <<>>
      /\ waitq' = UnlinkAll(waitq, Head(waitq[call[t]]))
  BY <1>k, FlushWakeStep
<1>o. PICK o \in Obj : o = call[t]
  BY <1>1
<1>w. PICK w \in Thread : w = Head(waitq[o]) /\ w \in Range(waitq[o])
  BY <1>1, <1>k, <1>o, HeadRange
<1>a. /\ current = t /\ pc[t] = "flushlock" /\ Goto(t, "flush") /\ due = {}
      /\ stat' = [stat EXCEPT ![w] = "READY"] /\ timer' = [timer EXCEPT ![w] = 0]
      /\ err' = [err EXCEPT ![w] = "ERROR"] /\ waitq' = UnlinkAll(waitq, w)
      /\ UNCHANGED <<call, arg, current, due>>
  BY <1>1, <1>o, <1>w DEF FlushWake, WakeWithError, Wake, MakeReady, At, Running
<1>b. /\ stat[t] = "READY" /\ (\A y \in Obj : t \notin Range(waitq[y]))
      /\ \A y \in Mtx : ~Holds(y, t)
  BY <1>a, FlusherView DEF Flushing
<1>c. /\ stat[w] = "SUSPEND" /\ call[w] = o /\ w # t /\ pc[w] \in {"sched", "blocked"}
  BY <1>b, <1>k, <1>w, WaiterFacts DEF WaitInv, WaitPlace
<1>p. /\ pc'[t] = "flush" /\ \A x \in Thread \ {t} : pc'[x] = pc[x]
      /\ stat'[w] = "READY" /\ err'[w] = "ERROR" /\ timer'[w] = 0
      /\ \A x \in Thread \ {w} : UNCHANGED <<stat[x], err[x], timer[x]>>
  BY <1>a, <1>k DEF Goto
<1>r. \A y \in Obj : Range(waitq'[y]) = Range(waitq[y]) \ {w}
  BY <1>a, <1>k, WaitRemoved
<1>2. WaitInv'
  <2>1. \A y \in Obj : \A x \in Range(waitq'[y]) : x \in Range(waitq[y]) /\ x # t /\ UNCHANGED err[x]
    <3>1. \A y \in Obj : Range(waitq[y]) \subseteq Thread
      BY <1>k, InvQueues
    <3> QED BY <1>b, <1>p, <1>r, <3>1
  <2>2. stat'[t] # "INIT" /\ (pc'[t] = "run" => call'[t] = "none") /\ pc'[t] \notin OpPc
    BY <1>b, <1>c, <1>p DEF OpPc
  <2>3. \A x \in Thread \ {t} : UNCHANGED <<pc[x], call[x]>> /\ (stat'[x] = "INIT" => stat[x] = "INIT")
    BY <1>a, <1>p
  <2>4. WaitInv /\ KernelInv'
    BY <1>1, <1>k
  <2> QED BY <2>1, <2>2, <2>3, <2>4, PlacesKept
<1>3. \A y \in Mtx, x \in Thread : Holds(y, x)' <=> Holds(y, x)
  <2> SUFFICES ASSUME NEW y \in Mtx, NEW x \in Thread PROVE Holds(y, x)' <=> Holds(y, x)
    OBVIOUS
  <2>1. CASE x = t
    BY <1>b, <1>p, <2>1 DEF Holds
  <2>2. CASE x = w
    <3>1. ~Holds(y, x)
      BY <1>c, <1>w, <2>2 DEF Holds
    <3>2. ~Holds(y, x)'
      BY <1>c, <1>p, <2>2 DEF Holds
    <3> QED BY <3>1, <3>2
  <2>3. CASE x \notin {t, w}
    <3>1. pc[t] \notin {"del1", "del2"} /\ pc'[t] \notin {"del1", "del2"}
      BY <1>a, <1>p
    <3>2. x \in Range(waitq'[y]) <=> x \in Range(waitq[y])
      BY <1>r, <2>3 DEF Mtx
    <3>3. UNCHANGED <<stat[x], err[x], arg>> /\ \A v \in Thread \ {t} : UNCHANGED <<pc[v], call[v]>>
      BY <1>a, <1>p, <2>3
    <3> QED BY <2>3, <3>1, <3>2, <3>3, HoldsKept DEF Mtx
  <2> QED BY <2>1, <2>2, <2>3
<1>4. FlushOwn'
  <2>1. \A x \in Thread : Flushing(x)' => Flushing(x)
    BY <1>a, <1>p DEF Flushing
  <2> QED BY <1>a, <2>1 DEF FlushOwn, MutexInv
<1>5. MutexTypeOK'
  BY <1>1, <1>k DEF MutexTypeOK
<1>6. ASSUME NEW y \in Mtx PROVE MutexOK(y)'
  <2>1. waitq[y] = <<>> => waitq'[y] = <<>>
    BY <1>a, <1>k, EmptyStays DEF Mtx
  <2>2. \A x \in Thread : Holds(y, x) /\ timer[x] = 0 /\ x \notin due => timer'[x] = 0 /\ x \notin due'
    BY <1>a, <1>p
  <2>3. UNCHANGED <<owner[y], hold[y], avail[y], original[y], mine[y], exists[y]>>
    BY <1>1
  <2> QED BY <1>3, <2>1, <2>2, <2>3, MutexKept DEF MutexInv
<1> QED BY <1>1, <1>2, <1>4, <1>5, <1>6 DEF MutexInv

(* and ends: nobody was handed the mutex that goes. *)
LEMMA MutexFlushEndStep ==
  ASSUME MutexInv, NEW t \in Thread, FlushEnd(t), UNCHANGED <<owner, hold, avail, original, mine>>
  PROVE  MutexInv'
<1>k. /\ KernelInv /\ WaitInv /\ FlushOK /\ MutexTypeOK
      /\ pc \in [Thread -> Pc] /\ call \in [Thread -> Call] /\ exists \in [Obj -> BOOLEAN]
  BY DEF MutexInv, WaitInv, KernelInv, KernelTypeOK, Call, MutexTypeOK, Mtx
<1>a. /\ current = t /\ pc[t] = "flush" /\ Goto(t, "run") /\ waitq[call[t]] = <<>>
      /\ exists' = [exists EXCEPT ![call[t]] = FALSE] /\ call' = [call EXCEPT ![t] = "none"]
      /\ UNCHANGED <<waitq, stat, err, timer, arg, due>>
  BY DEF FlushEnd, At, Running, queueVars, threadVars
<1>b. /\ stat[t] = "READY" /\ (\A o \in Obj : t \notin Range(waitq[o]))
      /\ call[t] \in Mtx /\ owner[call[t]] \in {NoThread, t}
      /\ \A y \in Mtx : ~Holds(y, t)
  BY <1>a, FlusherView DEF Flushing
<1>m. PICK m \in Mtx : m = call[t]
  BY <1>b
<1>p. /\ pc'[t] = "run" /\ call'[t] = "none"
      /\ \A x \in Thread \ {t} : UNCHANGED <<pc[x], call[x]>>
      /\ ~exists'[m] /\ \A y \in Mtx \ {m} : exists'[y] = exists[y]
  BY <1>a, <1>k, <1>m DEF Goto, Mtx
<1>1. KernelInv' /\ FlushOK' /\ exists' \in [Obj -> BOOLEAN]
  BY <1>k, FlushEndStep
<1>2. WaitInv' /\ \A y \in Mtx, x \in Thread : Holds(y, x)' <=> Holds(y, x)
  BY <1>1, <1>a, <1>b, <1>k, <1>p, MoveStep DEF Mtx
<1>3. FlushOwn'
  <2>1. \A x \in Thread : ~Flushing(x)'
    BY <1>a, <1>k, <1>p DEF Flushing, FlushOK
  <2> QED BY <2>1 DEF FlushOwn
<1>4. MutexTypeOK'
  BY <1>1, <1>k DEF MutexTypeOK, Mtx
<1>5. MutexOK(m)'
  <2>1. ASSUME NEW x \in Thread PROVE ~Holds(m, x)'
    <3>1. ASSUME Holds(m, x) PROVE FALSE
      <4>1. owner[m] = x
        BY <3>1 DEF MutexInv, MutexOK, ServedOK
      <4> QED BY <1>b, <1>m, <3>1, <4>1, KernelAssumption
    <3> QED BY <1>2, <3>1
  <2> QED BY <1>a, <1>m, <1>p, <2>1 DEF MutexOK, OwnerOK, ServedOK, GoneEmpty
<1>6. ASSUME NEW y \in Mtx \ {m} PROVE MutexOK(y)'
  <2>1. UNCHANGED <<owner[y], hold[y], avail[y], original[y], mine[y], exists[y], waitq, timer, due>>
    BY <1>a, <1>p
  <2> QED BY <1>2, <2>1, MutexKept DEF MutexInv
<1> QED BY <1>1, <1>2, <1>3, <1>4, <1>5, <1>6 DEF MutexInv

(***************************************************************************)
(* The theorems.                                                           *)
(***************************************************************************)

LEMMA MutexInitInv == Init => MutexInv
<1> SUFFICES ASSUME Init PROVE MutexInv
  OBVIOUS
<1> USE KernelAssumption
<1>1. KernelInv
  BY InitInv DEF Init
<1>2. \A t \in Thread : pc[t] = "run" /\ call[t] = "none"
  BY DEF Init, KernelInit
<1>3. \A o \in Obj : waitq[o] = <<>> /\ Range(waitq[o]) = {}
  BY DEF Init, KernelInit, Range
<1>4. WaitInv
  BY <1>1, <1>2, <1>3 DEF WaitInv, FreshOK, PlaceOK, WaitPlace
<1>5. FlushOK /\ FlushOwn
  BY <1>2 DEF FlushOK, FlushOwn, Flushing
<1>6. MutexTypeOK
  BY MutexAssumption DEF MutexTypeOK, Init
<1>7. ASSUME NEW m \in Mtx PROVE MutexOK(m)
  <2>1. \A t \in Thread : ~Holds(m, t)
    BY <1>2 DEF Holds
  <2>2. /\ exists[m] /\ owner[m] = NoThread /\ hold[m] = 0 /\ avail[m] = 1
        /\ \A t \in Thread : mine[m][t] = 0
    BY DEF Init
  <2> QED BY <1>3, <2>1, <2>2 DEF MutexOK, OwnerOK, ServedOK, GoneEmpty, Mtx
<1> QED BY <1>4, <1>5, <1>6, <1>7 DEF MutexInv

LEMMA MutexStepInv ==
  ASSUME MutexInv, Guarded, [Next]_vars
  PROVE  MutexInv'
<1>1. ASSUME KernelNext, OwnersStay, UNCHANGED mutexVars PROVE MutexInv'
  BY <1>1, KernelKeepsMutexes
<1>2. ASSUME NEW t \in Thread, InMutexCall(t) PROVE MutexInv'
  BY <1>2, MutexReturnStep, MutexFlushCheckStep, MutexFlushWakeStep, MutexFlushEndStep DEF InMutexCall
<1>3. ASSUME NEW t \in Thread \ {Idle}, MutexCall(t) PROVE MutexInv'
  <2> PICK m \in Mtx :
        \/ MutexTakeAgain(t, m) \/ MutexTakeFree(t, m) \/ MutexTryFail(t, m)
        \/ \E n \in 0 .. MaxTime : MutexWait(t, m, n)
        \/ MutexRelease(t, m) \/ MutexDetach(t, m) \/ MutexInit(t, m)
    BY <1>3 DEF MutexCall
  <2>1. CASE MutexTakeAgain(t, m) \/ MutexTakeFree(t, m)
    BY <2>1, MutexTakeStep
  <2>2. CASE MutexTryFail(t, m) \/ MutexReleaseOther(t, m)
    BY <2>2, MutexRefuseStep
  <2>3. CASE \E n \in 0 .. MaxTime : MutexWait(t, m, n)
    BY <2>3, MutexWaitStep
  <2>4. CASE MutexReleaseInner(t, m)
    BY <2>4, MutexReleaseInnerStep
  <2>5. CASE MutexReleaseFree(t, m)
    BY <2>5, MutexReleaseFreeStep
  <2>6. CASE MutexHandOver(t, m)
    BY <2>6, MutexHandOverStep
  <2>7. CASE MutexDetach(t, m) \/ MutexInit(t, m)
    BY <2>7, MutexDetachStep, MutexInitStep
  <2> QED BY <2>1, <2>2, <2>3, <2>4, <2>5, <2>6, <2>7 DEF MutexRelease
<1>4. CASE UNCHANGED vars
  <2>1. UNCHANGED kernelVars /\ UNCHANGED mutexVars
    BY <1>4 DEF vars
  <2> QED BY <2>1, KernelKeepsMutexes
<1> QED BY <1>1, <1>2, <1>3, <1>4 DEF Next

(* Every system of mutexes keeps the invariant in which threads suspend,   *)
(* delete and reprioritise each other, and detach mutexes, only as Guarded *)
(* says, and no owner exits.                                               *)
THEOREM MutexInvariant == Guarded => (Spec => []MutexInv)
<1> SUFFICES ASSUME Guarded PROVE Spec => []MutexInv
  OBVIOUS
<1>1. Init => MutexInv
  BY MutexInitInv
<1>2. MutexInv /\ [Next]_vars => MutexInv'
  BY MutexStepInv
<1> QED BY <1>1, <1>2, PTL DEF Spec

(* Mutual exclusion: a thread whose rt_mutex_take returned RT_EOK is the   *)
(* owner until it releases, however the mutex is handed over to waiters    *)
(* whose timeouts, resumptions and suspensions come in between.            *)
THEOREM MutualExclusionHolds == Guarded => (Spec => []MutualExclusion)
<1>1. MutexInv => MutualExclusion
  <2> SUFFICES ASSUME MutexInv, NEW m \in Mtx, NEW t \in Thread, exists[m], mine[m][t] > 0
               PROVE  owner[m] = t /\ hold[m] = mine[m][t]
    BY DEF MutualExclusion
  <2>1. OwnerOK(m) /\ ServedOK(m) /\ mine[m][t] \in Int
    BY DEF MutexInv, MutexOK, MutexTypeOK
  <2>2. owner[m] = t
    BY <2>1 DEF OwnerOK
  <2>3. ~Holds(m, t)
    BY <2>1, <2>2 DEF OwnerOK, ServedOK
  <2> QED BY <2>1, <2>2, <2>3 DEF OwnerOK
<1> QED BY <1>1, MutexInvariant, PTL

(* rt_mutex_take, rt_mutex_release and rt_mutex_detach, which lend, give   *)
(* back and hand over, leave the ready queues, the wait lists, the timers  *)
(* and preemption as the kernel needs them, and no thread waits for a      *)
(* mutex that has no owner.                                                *)
THEOREM MutexesStaySound == Guarded => (Spec => []MutexSound)
<1>1. MutexInv => MutexSound
  <2> SUFFICES ASSUME MutexInv PROVE MutexSound
    OBVIOUS
  <2>1. KernelSound
    BY HeadIsHighest DEF MutexInv, WaitInv, KernelInv, KernelSound
  <2>2. WaitedForIsOwned
    BY DEF MutexInv, MutexOK, OwnerOK, WaitedForIsOwned
  <2> QED BY <2>1, <2>2 DEF MutexInv, MutexSound
<1> QED BY <1>1, MutexInvariant, PTL

(***************************************************************************)
(* Priority inheritance.                                                   *)
(***************************************************************************)

(* One mutex, and no other reason to change a priority: with two, a thread *)
(* may be lent a priority for the one he keeps when he releases the other. *)
OneMutex == PrioChoices = {} /\ \A a, b \in Mtx : a = b

(* The wait lists are in the order of priorities. *)
InOrder == \A m \in Mtx : MutexFlag[m] = "PRIO"

(* Waiters are never lent a priority, so the list is in the order of the   *)
(* priorities they were started with, whatever is lent to the owner.       *)
Sorted(q) ==
  \A i, j \in 1 .. Len(q) : i < j => InitPrio[q[i]] <= InitPrio[q[j]]

(* The owner is alive, waits for nothing he owns, and what he will be      *)
(* given back is the priority he was started with.                         *)
OwnerLent(m) ==
  \A t \in Thread : owner[m] = t =>
    /\ original[m] = InitPrio[t] /\ t \notin Range(waitq[m])
    /\ exists[m] => stat[t] \in {"READY", "SUSPEND"}

(* A mutex that goes or is gone has lent nothing. *)
Going(m) == ~exists[m] \/ \E t \in Thread : Flushing(t) /\ call[t] = m

NothingLent == \A t \in Thread : prio[t] = InitPrio[t]

LendOK(m) == OwnerLent(m) /\ (InOrder => Sorted(waitq[m])) /\ (Going(m) => NothingLent)

LendInv == BoostEnds /\ (InOrder => OwnerInherits) /\ \A m \in Mtx : LendOK(m)

LEMMA SortedUnlink ==
  ASSUME NEW q \in Seq(Thread), Sorted(q), NEW u
  PROVE  Sorted(Unlink(q, u))
<1>1. CASE u \notin Range(q)
  BY <1>1 DEF Unlink
<1>2. CASE u \in Range(q)
  <2> DEFINE k == CHOOSE i \in DOMAIN q : q[i] = u
  <2>1. k \in 1 .. Len(q)
    BY <1>2 DEF Range
  <2>2. Unlink(q, u) = RemoveAt(q, k)
    BY <1>2 DEF Unlink
  <2> HIDE DEF k
  <2>3. /\ Len(RemoveAt(q, k)) = Len(q) - 1 /\ Len(q) \in Nat
        /\ \A j \in 1 .. Len(q) - 1 : RemoveAt(q, k)[j] = IF j < k THEN q[j] ELSE q[j + 1]
    BY <2>1, RemoveAtIndex
  <2> DEFINE r == RemoveAt(q, k)
  <2> HIDE DEF r
  <2>4. ASSUME NEW i \in 1 .. Len(q) - 1, NEW j \in 1 .. Len(q) - 1, i < j
        PROVE  InitPrio[r[i]] <= InitPrio[r[j]]
    <3>1. PICK a \in 1 .. Len(q) : r[i] = q[a] /\ a = IF i < k THEN i ELSE i + 1
      BY <2>1, <2>3 DEF r
    <3>2. PICK b \in 1 .. Len(q) : r[j] = q[b] /\ b = IF j < k THEN j ELSE j + 1
      BY <2>1, <2>3 DEF r
    <3>3. a < b
      BY <2>1, <2>4, <3>1, <3>2
    <3> QED BY <3>1, <3>2, <3>3 DEF Sorted
  <2> QED BY <2>2, <2>3, <2>4 DEF Sorted, r
<1> QED BY <1>1, <1>2

(* rt_ipc_list_suspend keeps the order. *)
LEMMA SortedInsert ==
  ASSUME NEW q \in Seq(Thread), Sorted(q), NEW t \in Thread,
         prio[t] = InitPrio[t], \A x \in Range(q) : prio[x] = InitPrio[x]
  PROVE  Sorted(WaitInsert(q, t, "PRIO"))
<1> DEFINE lower == {i \in DOMAIN q : prio[t] < prio[q[i]]}
<1>a. /\ Len(q) \in Nat /\ DOMAIN q = 1 .. Len(q)
      /\ \A i \in 1 .. Len(q) : q[i] \in Thread /\ prio[q[i]] = InitPrio[q[i]] /\ InitPrio[q[i]] \in Int
      /\ InitPrio[t] \in Int
  BY SMTT(60), KernelAssumption DEF Range, Prio
<1>1. CASE lower # {}
  <2>1. lower \subseteq Nat
    BY <1>a
  <2>2. PICK k \in lower : k = Min(lower) /\ \A x \in lower : k <= x
    BY <1>1, <2>1, MinProperties
  <2>3. k \in 1 .. Len(q) /\ InitPrio[t] < InitPrio[q[k]]
    BY <1>a
  <2>4. WaitInsert(q, t, "PRIO") = InsertAt(q, k, t)
    BY <1>1, <2>2 DEF WaitInsert
  <2>5. \A i \in 1 .. Len(q) : i < k => InitPrio[q[i]] <= InitPrio[t]
    <3> SUFFICES ASSUME NEW i \in 1 .. Len(q), i < k PROVE InitPrio[q[i]] <= InitPrio[t]
      OBVIOUS
    <3>1. i \notin lower
      <4>1. \A x \in lower : k <= x
        BY <2>2
      <4> HIDE DEF lower
      <4> QED BY <1>a, <2>3, <4>1
    <3>2. ~(InitPrio[t] < InitPrio[q[i]])
      BY <1>a, <3>1
    <3> QED BY <1>a, <3>2
  <2>6. \A i \in 1 .. Len(q) : i >= k => InitPrio[t] <= InitPrio[q[i]]
    BY <1>a, <2>3 DEF Sorted
  <2> HIDE DEF lower
  <2> DEFINE r == InsertAt(q, k, t)
  <2>7. /\ Len(r) = Len(q) + 1
        /\ \A j \in 1 .. Len(q) + 1 : r[j] = IF j < k THEN q[j] ELSE IF j = k THEN t ELSE q[j - 1]
    BY <2>3, InsertAtIndex
  <2> HIDE DEF r
  <2>8. ASSUME NEW i \in 1 .. Len(q) + 1, NEW j \in 1 .. Len(q) + 1, i < j
        PROVE  InitPrio[r[i]] <= InitPrio[r[j]]
    <3>1. CASE i < k /\ j < k
      BY <1>a, <2>3, <2>7, <2>8, <3>1 DEF Sorted
    <3>2. CASE i < k /\ j = k
      BY SMTT(60), <1>a, <2>3, <2>5, <2>7, <3>2
    <3>3. CASE i < k /\ j > k
      <4>1. j - 1 \in 1 .. Len(q) /\ i \in 1 .. Len(q) /\ i < j - 1
        BY <1>a, <2>3, <3>3
      <4> QED BY <2>3, <2>7, <3>3, <4>1 DEF Sorted
    <3>4. CASE i = k
      <4>1. j - 1 \in 1 .. Len(q) /\ j - 1 >= k /\ j # k /\ ~(j < k)
        BY <1>a, <2>3, <2>8, <3>4
      <4>2. r[i] = t /\ r[j] = q[j - 1]
        BY <2>3, <2>7, <3>4, <4>1
      <4> QED BY <2>6, <4>1, <4>2
    <3>5. CASE i > k
      <4>1. /\ j - 1 \in 1 .. Len(q) /\ i - 1 \in 1 .. Len(q) /\ i - 1 < j - 1
            /\ ~(i < k) /\ ~(j < k) /\ i # k /\ j # k
        BY <1>a, <2>3, <2>8, <3>5
      <4> QED BY <2>7, <4>1 DEF Sorted
    <3> QED BY <2>3, <2>8, <3>1, <3>2, <3>3, <3>4, <3>5
  <2> QED BY <2>4, <2>7, <2>8 DEF Sorted, r
<1>2. CASE lower = {}
  <2>1. WaitInsert(q, t, "PRIO") = Append(q, t)
    BY <1>2 DEF WaitInsert
  <2>2. \A i \in 1 .. Len(q) : InitPrio[q[i]] <= InitPrio[t]
    BY <1>2, <1>a
  <2> DEFINE r == Append(q, t)
  <2>3. /\ Len(r) = Len(q) + 1
        /\ \A j \in 1 .. Len(q) + 1 : r[j] = IF j <= Len(q) THEN q[j] ELSE t
    BY <1>a
  <2> HIDE DEF r
  <2>4. ASSUME NEW i \in 1 .. Len(q) + 1, NEW j \in 1 .. Len(q) + 1, i < j
        PROVE  InitPrio[r[i]] <= InitPrio[r[j]]
    <3>1. i \in 1 .. Len(q) /\ r[i] = q[i]
      BY <1>a, <2>3, <2>4
    <3>2. CASE j \in 1 .. Len(q)
      BY <2>3, <2>4, <3>1, <3>2 DEF Sorted
    <3>3. CASE j = Len(q) + 1
      <4>1. r[j] = t
        BY <1>a, <2>3, <3>3
      <4> QED BY <2>2, <3>1, <4>1
    <3> QED BY <1>a, <3>2, <3>3
  <2> QED BY <2>1, <2>3, <2>4 DEF Sorted, r
<1> QED BY <1>1, <1>2

(* The first waiter has the highest priority. *)
LEMMA SortedHead ==
  ASSUME NEW q \in Seq(Thread), Sorted(q), NEW x \in Range(q)
  PROVE  InitPrio[Head(q)] <= InitPrio[x]
<1>1. PICK i \in 1 .. Len(q) : x = q[i]
  BY DEF Range
<1>2. Head(q) = q[1] /\ 1 \in 1 .. Len(q) /\ q[1] \in Thread /\ InitPrio[q[1]] \in Int
  BY <1>1, KernelAssumption DEF Prio
<1> QED BY <1>1, <1>2 DEF Sorted

(* One thread leaves the wait lists, or none. *)
Thinned == waitq' = waitq \/ \E u \in Thread : waitq' = UnlinkAll(waitq, u)

LEMMA ThinnedLists ==
  ASSUME KernelInv, Thinned, NEW m \in Mtx
  PROVE  /\ Range(waitq'[m]) \subseteq Range(waitq[m])
         /\ Sorted(waitq[m]) => Sorted(waitq'[m])
<1>1. waitq \in [Mtx -> Seq(Thread)]
  BY DEF KernelInv, KernelTypeOK, Mtx
<1>2. CASE waitq' = waitq
  BY <1>2
<1>3. ASSUME NEW u \in Thread, waitq' = UnlinkAll(waitq, u)
      PROVE  /\ Range(waitq'[m]) \subseteq Range(waitq[m])
             /\ Sorted(waitq[m]) => Sorted(waitq'[m])
  <2>1. waitq'[m] = Unlink(waitq[m], u)
    BY <1>1, <1>3 DEF UnlinkAll
  <2>2. Range(waitq'[m]) \subseteq Range(waitq[m])
    BY <1>3, WaitRemoved DEF Mtx
  <2>3. Sorted(waitq[m]) => Sorted(Unlink(waitq[m], u))
    BY <1>1, SortedUnlink
  <2> QED BY <2>1, <2>2, <2>3
<1> QED BY <1>2, <1>3 DEF Thinned

(* A step that lends nothing and changes no owner. *)
LEMMA LendKept ==
  ASSUME MutexInv, LendInv, Thinned, UNCHANGED <<owner, original>>,
         \A x \in Thread :
           \/ prio'[x] = prio[x]
           \/ /\ prio'[x] = InitPrio[x] /\ stat[x] # "SUSPEND"
              /\ \A m \in Mtx : owner[m] = x => ~exists[m],
         \A m \in Mtx : /\ exists'[m] => exists[m]
                        /\ Going(m)' => NothingLent,
         \A m \in Mtx, x \in Thread :
           owner[m] = x /\ exists[m] /\ stat[x] \in {"READY", "SUSPEND"} => stat'[x] \in {"READY", "SUSPEND"}
  PROVE  LendInv'
<1>k. /\ KernelInv /\ prio \in [Thread -> Prio] /\ \A x \in Thread : prio[x] \in Int
      /\ \A m \in Mtx : \A x \in Range(waitq[m]) : x \in Thread /\ stat[x] = "SUSPEND"
      /\ owner \in [Mtx -> Thread \cup {NoThread}]
      /\ \A m \in Mtx : ~exists[m] => waitq[m] = <<>>
  <2>1. /\ KernelInv /\ prio \in [Thread -> Prio] /\ \A x \in Thread : prio[x] \in Int
        /\ owner \in [Mtx -> Thread \cup {NoThread}]
    BY DEF MutexInv, WaitInv, KernelInv, KernelTypeOK, MutexOK, MutexTypeOK, Prio
  <2>2. \A m \in Mtx : \A x \in Range(waitq[m]) : x \in Thread /\ stat[x] = "SUSPEND"
    BY <2>1, InvQueues DEF KernelInv, ListsConsistent, Mtx
  <2>3. \A m \in Mtx : ~exists[m] => waitq[m] = <<>>
    BY DEF MutexInv, MutexOK, GoneEmpty
  <2> QED BY <2>1, <2>2, <2>3
<1>1. BoostEnds'
  BY DEF LendInv, BoostEnds
<1>2. InOrder => OwnerInherits'
  <2> SUFFICES ASSUME InOrder, NEW m \in Mtx, NEW x \in Range(waitq'[m]), owner'[m] # NoThread
               PROVE  prio'[owner'[m]] <= prio'[x]
    BY DEF OwnerInherits
  <2>1. x \in Range(waitq[m])
    BY <1>k, ThinnedLists
  <2>2. exists[m]
    <3>1. waitq[m] # <<>>
      BY <2>1 DEF Range
    <3> QED BY <1>k, <3>1
  <2>3. prio'[x] = prio[x] /\ prio'[owner[m]] = prio[owner[m]]
    BY <1>k, <2>1, <2>2
  <2> QED BY <2>1, <2>3 DEF LendInv, OwnerInherits
<1>3. ASSUME NEW m \in Mtx PROVE LendOK(m)'
  <2>1. OwnerLent(m)'
    BY <1>k, ThinnedLists DEF LendInv, LendOK, OwnerLent
  <2>2. InOrder => Sorted(waitq[m])'
    <3>1. InOrder => Sorted(waitq'[m])
      BY <1>k, ThinnedLists DEF LendInv, LendOK
    <3> QED BY <3>1 DEF Sorted
  <2>3. Going(m)' => NothingLent'
    BY DEF NothingLent
  <2> QED BY <2>1, <2>2, <2>3 DEF LendOK
<1> QED BY <1>1, <1>2, <1>3 DEF LendInv

(* The steps after which everybody has his own priority. *)
LEMMA AllBack ==
  ASSUME NothingLent', owner' \in [Mtx -> Thread \cup {NoThread}],
         \A m \in Mtx : OwnerLent(m)',
         \A m \in Mtx : InOrder =>
           /\ Sorted(waitq'[m])
           /\ \A o \in Thread, x \in Range(waitq'[m]) :
                owner'[m] = o => x \in Thread /\ InitPrio[o] <= InitPrio[x]
  PROVE  LendInv'
<1>1. BoostEnds'
  BY DEF NothingLent, BoostEnds
<1>2. InOrder => OwnerInherits'
  BY DEF NothingLent, OwnerInherits
<1>3. \A m \in Mtx : InOrder => Sorted(waitq[m])'
  BY DEF Sorted
<1> QED BY <1>1, <1>2, <1>3 DEF LendInv, LendOK

(* What is known of the one mutex and its threads. *)
LEMMA LendView ==
  ASSUME MutexInv, LendInv, OneMutex, NEW m \in Mtx
  PROVE  /\ \A y \in Mtx : y = m
         /\ KernelInv /\ WaitInv /\ FlushOK /\ MutexTypeOK
         /\ prio \in [Thread -> Prio] /\ waitq \in [Obj -> Seq(Thread)] /\ IsInjective(waitq[m])
         /\ owner \in [Mtx -> Thread \cup {NoThread}] /\ original \in [Mtx -> Prio \cup {NoPrio}]
         /\ exists \in [Mtx -> BOOLEAN]
         /\ \A x \in Range(waitq[m]) : x \in Thread /\ stat[x] = "SUSPEND" /\ owner[m] # x
         /\ \A x \in Thread : owner[m] # x => prio[x] = InitPrio[x]
         /\ \A t \in Thread : owner[m] = t => original[m] = InitPrio[t] /\ t \notin Range(waitq[m])
         /\ (InOrder => Sorted(waitq[m])) /\ OwnerLent(m) /\ (Going(m) => NothingLent)
<1>1. \A y \in Mtx : y = m
  BY DEF OneMutex
<1>2. /\ KernelInv /\ WaitInv /\ FlushOK /\ MutexTypeOK
      /\ prio \in [Thread -> Prio] /\ waitq \in [Obj -> Seq(Thread)] /\ IsInjective(waitq[m])
      /\ owner \in [Mtx -> Thread \cup {NoThread}] /\ original \in [Mtx -> Prio \cup {NoPrio}]
      /\ exists \in [Mtx -> BOOLEAN]
  BY DEF MutexInv, WaitInv, KernelInv, KernelTypeOK, ListsConsistent, MutexTypeOK, Mtx
<1>3. LendOK(m)
  BY DEF LendInv
<1>4. \A x \in Range(waitq[m]) : x \in Thread /\ stat[x] = "SUSPEND"
  BY <1>2, InvQueues DEF KernelInv, ListsConsistent, Mtx
<1>5. \A t \in Thread : owner[m] = t => original[m] = InitPrio[t] /\ t \notin Range(waitq[m])
  BY <1>3 DEF LendOK, OwnerLent
<1>6. \A x \in Thread : owner[m] # x => prio[x] = InitPrio[x]
  BY <1>1 DEF LendInv, BoostEnds
<1> QED BY <1>1, <1>2, <1>3, <1>4, <1>5, <1>6 DEF LendOK

(* Under the one mutex nothing is lent when its owner has his own priority. *)
LEMMA OwnPriority ==
  ASSUME MutexInv, LendInv, OneMutex, NEW m \in Mtx,
         \A t \in Thread : owner[m] = t => original[m] = prio[t]
  PROVE  NothingLent
BY LendView DEF NothingLent

(***************************************************************************)
(* The steps of the kernel.                                                *)
(***************************************************************************)

(* Without RT_THREAD_CTRL_CHANGE_PRIORITY only a thread that is not yet    *)
(* started gets another priority, and it is its own.                       *)
LEMMA KernelLends ==
  ASSUME KernelInv, PrioChoices = {}, [KernelNext]_kernelVars, NEW x \in Thread
  PROVE  /\ prio'[x] = prio[x] \/ (prio'[x] = InitPrio[x] /\ stat[x] \notin {"READY", "SUSPEND"})
         /\ stat[x] \in {"READY", "SUSPEND"} => stat'[x] \in {"READY", "SUSPEND", "CLOSE"}
<1> DEFINE Kept == /\ prio'[x] = prio[x] \/ (prio'[x] = InitPrio[x] /\ stat[x] \notin {"READY", "SUSPEND"})
                   /\ stat[x] \in {"READY", "SUSPEND"} => stat'[x] \in {"READY", "SUSPEND", "CLOSE"}
<1> USE DEF threadVars, queueVars
<1>t. stat \in [Thread -> Stat] /\ prio \in [Thread -> Prio]
  BY DEF KernelInv, KernelTypeOK
<1>1. CASE UNCHANGED kernelVars
  BY <1>1 DEF kernelVars
<1>2. ASSUME NEW v \in Thread, InCall(v) PROVE Kept
  <2>1. CASE Schedule(v) \/ Return(v) \/ SuspendLocked(v) \/ ResumeLocked(v)
    BY <1>t, <2>1 DEF Schedule, Return, SuspendLocked, ResumeLocked
  <2>2. CASE ResumeInsert(v)
    BY <1>t, <2>2 DEF ResumeInsert, InsertThread
  <2>3. CASE DeleteTimer(v) \/ DeleteClose(v) \/ DeleteDefunct(v)
    BY <1>t, <2>3 DEF DeleteTimer, DeleteClose, DeleteDefunct
  <2> QED BY <1>2, <2>1, <2>2, <2>3 DEF InCall
<1>3. ASSUME NEW v \in Thread, UserCall(v) PROVE Kept
  <2>1. CASE (\E n \in 1 .. MaxTime : Sleep(v, n)) \/ SuspendSelf(v) \/ Yield(v) \/ EnterCritical(v) \/ ExitCritical(v) \/ Exit(v)
    BY <1>t, <2>1 DEF Sleep, SuspendSelf, SuspendFor, Yield, EnterCritical, ExitCritical, Exit
  <2>2. CASE \E u \in Thread : Suspend(v, u) \/ Resume(v, u) \/ Delete(v, u)
    BY <1>t, <2>2 DEF Suspend, Resume, Delete, Begin
  <2>3. ASSUME NEW u \in Thread, Create(v, u) PROVE Kept
    <3>1. stat[u] \in {"CLOSE", "NONE"} /\ stat' = [stat EXCEPT ![u] = "INIT"] /\ prio' = [prio EXCEPT ![u] = InitPrio[u]]
      BY <2>3 DEF Create
    <3> QED BY <1>t, <3>1
  <2>4. ASSUME NEW u \in Thread, Startup(v, u) PROVE Kept
    <3>1. stat[u] = "INIT" /\ stat' = [stat EXCEPT ![u] = "SUSPEND"] /\ prio' = [prio EXCEPT ![u] = InitPrio[u]]
      BY <2>4 DEF Startup
    <3> QED BY <1>t, <3>1
  <2> QED BY <1>3, <2>1, <2>2, <2>3, <2>4 DEF UserCall
<1>4. CASE IdleExcute
  <2>1. Head(defunct) \in Thread /\ stat[Head(defunct)] = "CLOSE"
    BY <1>4, HeadRange DEF IdleExcute, KernelInv, KernelTypeOK, ListsConsistent
  <2> QED BY <1>t, <1>4, <2>1 DEF IdleExcute
<1>5. CASE Tick
  BY <1>t, <1>5 DEF Tick
<1>6. ASSUME NEW v \in Thread, Timeout(v) PROVE Kept
  BY <1>t, <1>6 DEF Timeout, MakeReady
<1> QED BY <1>1, <1>2, <1>3, <1>4, <1>5, <1>6 DEF KernelNext, ThreadStep, Interrupt

LEMMA KernelKeepsLend ==
  ASSUME MutexInv, LendInv, OneMutex, Guarded, [KernelNext]_kernelVars,
         OwnersStay \/ UNCHANGED kernelVars, UNCHANGED mutexVars
  PROVE  LendInv'
<1>k. KernelInv /\ owner \in [Mtx -> Thread \cup {NoThread}]
  BY DEF MutexInv, WaitInv, MutexTypeOK
<1>1. Thinned
  BY <1>k, KernelUnlinks DEF Thinned
<1>2. ASSUME NEW x \in Thread
      PROVE  \/ prio'[x] = prio[x]
             \/ /\ prio'[x] = InitPrio[x] /\ stat[x] # "SUSPEND"
                /\ \A m \in Mtx : owner[m] = x => ~exists[m]
  <2>1. prio'[x] = prio[x] \/ (prio'[x] = InitPrio[x] /\ stat[x] \notin {"READY", "SUSPEND"})
    BY <1>k, KernelLends DEF OneMutex
  <2> QED BY <2>1 DEF LendInv, LendOK, OwnerLent
<1>3. ASSUME NEW m \in Mtx PROVE (exists'[m] => exists[m]) /\ (Going(m)' => NothingLent)
  <2>1. \A t \in Thread : Flushing(t)' => Flushing(t) /\ call'[t] = call[t]
    BY <1>k, KernelKeepsFlusher
  <2>2. Going(m)' => Going(m)
    BY <2>1 DEF Going, mutexVars
  <2> QED BY <2>2 DEF LendInv, LendOK, mutexVars
<1>4. ASSUME NEW m \in Mtx, NEW x \in Thread, owner[m] = x, exists[m], stat[x] \in {"READY", "SUSPEND"}
      PROVE  stat'[x] \in {"READY", "SUSPEND"}
  <2>1. stat'[x] \in {"READY", "SUSPEND", "CLOSE"}
    BY <1>k, <1>4, KernelLends DEF OneMutex
  <2>2. CASE OwnersStay
    BY <1>4, <2>1, <2>2, KernelAssumption DEF OwnersStay
  <2>3. CASE UNCHANGED kernelVars
    BY <1>4, <2>3 DEF kernelVars, threadVars
  <2> QED BY <2>2, <2>3
<1> QED BY <1>1, <1>2, <1>3, <1>4, LendKept DEF mutexVars

(***************************************************************************)
(* The steps of rt_mutex_*.                                                *)
(***************************************************************************)

(* The steps that lend nothing and take nothing back. *)
LEMMA LendCallStep ==
  ASSUME MutexInv, LendInv, Thinned, UNCHANGED <<owner, original, prio>>,
         \A x \in Thread : stat[x] \in {"READY", "SUSPEND"} => stat'[x] \in {"READY", "SUSPEND"},
         \A m \in Mtx : (exists'[m] => exists[m]) /\ (Going(m)' => NothingLent)
  PROVE  LendInv'
BY LendKept

LEMMA LendLocalStep ==
  ASSUME MutexInv, LendInv, UNCHANGED <<queueVars, stat, prio, owner, original, exists>>,
         \A x \in Thread : Flushing(x)' => Flushing(x) /\ call'[x] = call[x]
  PROVE  LendInv'
<1>1. Thinned
  BY DEF Thinned, queueVars
<1>2. \A m \in Mtx : Going(m)' => Going(m)
  BY DEF Going
<1>3. \A m \in Mtx : (exists'[m] => exists[m]) /\ (Going(m)' => NothingLent)
  BY <1>2 DEF LendInv, LendOK
<1> QED BY <1>1, <1>3, LendCallStep

(* Recursive calls and calls that fail change no owner and no priority. *)
LEMMA LendKeepCalls ==
  ASSUME MutexInv, LendInv, NEW t \in Thread, NEW m \in Mtx,
         MutexTakeAgain(t, m) \/ MutexTryFail(t, m) \/ MutexReleaseOther(t, m) \/ MutexReleaseInner(t, m)
  PROVE  LendInv'
<1>1. /\ UNCHANGED <<queueVars, stat, prio, callVars, exists>>
  BY DEF MutexTakeAgain, MutexTryFail, MutexReleaseOther, MutexReleaseInner, threadVars, mutexVars
<1>2. UNCHANGED <<owner, original>>
  <2>1. owner \in [Mtx -> Thread \cup {NoThread}] /\ original \in [Mtx -> Prio \cup {NoPrio}]
    BY DEF MutexInv, MutexTypeOK
  <2>2. CASE MutexTakeAgain(t, m) \/ MutexReleaseInner(t, m)
    BY <2>1, <2>2 DEF MutexTakeAgain, MutexReleaseInner, SetOwner
  <2>3. CASE MutexTryFail(t, m) \/ MutexReleaseOther(t, m)
    BY <2>3 DEF MutexTryFail, MutexReleaseOther, mutexVars
  <2> QED BY <2>2, <2>3
<1>3. \A x \in Thread : Flushing(x)' => Flushing(x) /\ call'[x] = call[x]
  BY <1>1 DEF Flushing, callVars
<1> QED BY <1>1, <1>2, <1>3, LendLocalStep

(* A waiting thread returns. *)
LEMMA LendReturn ==
  ASSUME MutexInv, LendInv, NEW t \in Thread, MutexReturn(t)
  PROVE  LendInv'
<1>1. pc \in [Thread -> Pc] /\ call \in [Thread -> Call]
  BY DEF MutexInv, WaitInv, KernelInv, KernelTypeOK, Call
<1>2. \A x \in Thread : Flushing(x)' => Flushing(x) /\ call'[x] = call[x]
  BY <1>1 DEF MutexReturn, Goto, Flushing
<1>3. UNCHANGED <<queueVars, stat, prio, owner, original, exists>>
  BY DEF MutexReturn, threadVars
<1> QED BY <1>2, <1>3, LendLocalStep

(* rt_mutex_take lends the caller's priority to the owner, and the caller  *)
(* takes his place in the order of the list.                               *)
LEMMA LendWait ==
  ASSUME MutexInv, LendInv, OneMutex, NEW t \in Thread \ {Idle}, NEW m \in Mtx,
         NEW n \in 0 .. MaxTime, MutexWait(t, m, n), MutexInv'
  PROVE  LendInv'
<1> USE KernelAssumption
<1>a. /\ InUser(t) /\ exists[m] /\ owner[m] # t /\ avail[m] = 0 /\ Lend(t, owner[m])
      /\ stat' = [stat EXCEPT ![t] = "SUSPEND"]
      /\ waitq' = [waitq EXCEPT ![m] = WaitInsert(waitq[m], t, MutexFlag[m])]
      /\ Goto(t, "sched") /\ UNCHANGED <<owner, original, exists>>
  BY DEF MutexWait, MayBlock, mutexVars
<1>v. /\ \A y \in Mtx : y = m
      /\ prio \in [Thread -> Prio] /\ waitq \in [Obj -> Seq(Thread)]
      /\ \A x \in Range(waitq[m]) : x \in Thread /\ owner[m] # x
      /\ \A x \in Thread : owner[m] # x => prio[x] = InitPrio[x]
      /\ (InOrder => Sorted(waitq[m])) /\ OwnerLent(m)
  BY LendView
<1>w. /\ current = t /\ stat[t] = "READY" /\ pc[t] = "run"
      /\ stat \in [Thread -> Stat] /\ pc \in [Thread -> Pc] /\ m \in Obj /\ FlushOK
      /\ IsInjective(waitq[m]) /\ t \notin Range(waitq[m])
  BY <1>a, CallerView DEF MutexInv, WaitInv, KernelInv, KernelTypeOK, ListsConsistent, Mtx
<1>o. PICK o \in Thread : o = owner[m] /\ o # t
  <2>1. owner[m] \in Thread \cup {NoThread} /\ (owner[m] = NoThread <=> avail[m] = 1)
    BY <1>a, MutexView
  <2> QED BY <1>a, <2>1
<1>i. \A x \in Thread : prio[x] \in Int
  BY <1>v DEF Prio
<1>p. /\ \A x \in Thread \ {o} : prio'[x] = prio[x]
      /\ prio'[o] <= prio[o] /\ prio'[o] <= prio[t]
  <2>1. CASE prio[t] < prio[o]
    BY <1>a, <1>i, <1>o, <1>v, <2>1 DEF Lend
  <2>2. CASE ~(prio[t] < prio[o])
    BY <1>a, <1>i, <1>o, <2>2 DEF Lend
  <2> QED BY <2>1, <2>2
<1>q. prio'[o] \in Int
  <2>1. prio' \in [Thread -> Prio]
    BY DEF MutexInv, WaitInv, KernelInv, KernelTypeOK
  <2> QED BY <1>o, <2>1 DEF Prio
<1>r. Range(waitq'[m]) = Range(waitq[m]) \cup {t}
  <2>1. Range(WaitInsert(waitq[m], t, MutexFlag[m])) = Range(waitq[m]) \cup {t}
    BY <1>v, <1>w, WaitInsertRange
  <2> QED BY <1>a, <1>v, <1>w, <2>1
<1>1. BoostEnds'
  BY <1>a, <1>o, <1>p, <1>v DEF BoostEnds
<1>2. InOrder => OwnerInherits'
  <2> SUFFICES ASSUME InOrder, NEW x \in Range(waitq'[m]) PROVE prio'[o] <= prio'[x]
    BY <1>a, <1>o, <1>v DEF OwnerInherits
  <2>1. CASE x = t
    BY <1>o, <1>p, <2>1
  <2>2. CASE x \in Range(waitq[m])
    <3>1. x \in Thread \ {o} /\ prio[o] <= prio[x]
      BY <1>o, <1>v, <2>2 DEF LendInv, OwnerInherits
    <3> QED BY <1>i, <1>p, <1>q, <3>1
  <2> QED BY <1>r, <2>1, <2>2
<1>3. LendOK(m)'
  <2>1. OwnerLent(m)'
    <3>1. o \notin Range(waitq'[m]) /\ stat'[o] = stat[o]
      BY <1>a, <1>o, <1>r, <1>v, <1>w
    <3> QED BY <1>a, <1>o, <1>v, <3>1 DEF OwnerLent
  <2>2. InOrder => Sorted(waitq[m])'
    <3> SUFFICES ASSUME InOrder PROVE Sorted(waitq[m])'
      OBVIOUS
    <3>1. Sorted(WaitInsert(waitq[m], t, "PRIO"))
      <4>1. prio[t] = InitPrio[t] /\ \A x \in Range(waitq[m]) : prio[x] = InitPrio[x]
        BY <1>a, <1>v
      <4> QED BY <1>v, <1>w, <4>1, SortedInsert
    <3>2. Sorted(waitq'[m])
      BY <1>a, <1>v, <1>w, <3>1 DEF InOrder
    <3> QED BY <3>2 DEF Sorted
  <2>3. ~Going(m)'
    <3>1. \A x \in Thread : ~Flushing(x)'
      BY <1>a, <1>w DEF Goto, Flushing, FlushOK
    <3> QED BY <1>a, <3>1 DEF Going
  <2> QED BY <2>1, <2>2, <2>3 DEF LendOK
<1> QED BY <1>1, <1>2, <1>3, <1>v DEF LendInv

(* A free mutex is taken, and what its owner will get back is his own      *)
(* priority.                                                               *)
LEMMA LendTakeFree ==
  ASSUME MutexInv, LendInv, OneMutex, NEW t \in Thread \ {Idle}, NEW m \in Mtx, MutexTakeFree(t, m)
  PROVE  LendInv'
<1> USE KernelAssumption
<1>a. /\ InUser(t) /\ exists[m] /\ owner[m] # t /\ avail[m] > 0
      /\ owner' = [owner EXCEPT ![m] = t] /\ original' = [original EXCEPT ![m] = prio[t]]
      /\ UNCHANGED <<waitq, stat, prio, exists>>
  BY DEF MutexTakeFree, SetOwner, queueVars
<1>v. /\ \A y \in Mtx : y = m
      /\ owner \in [Mtx -> Thread \cup {NoThread}] /\ original \in [Mtx -> Prio \cup {NoPrio}]
      /\ \A x \in Thread : owner[m] # x => prio[x] = InitPrio[x]
  BY LendView
<1>w. owner[m] = NoThread /\ waitq[m] = <<>> /\ stat[t] = "READY"
  <2>1. stat[t] = "READY"
    BY <1>a, CallerView DEF MutexInv
  <2>2. avail[m] \in {0, 1} /\ (owner[m] = NoThread <=> avail[m] = 1) /\ (owner[m] = NoThread => waitq[m] = <<>>)
    BY <1>a, MutexView
  <2> QED BY <1>a, <2>1, <2>2
<1>1. NothingLent'
  BY <1>a, <1>v, <1>w DEF NothingLent
<1>2. owner' \in [Mtx -> Thread \cup {NoThread}]
  BY <1>a, <1>v
<1>3. waitq'[m] = <<>> /\ Range(waitq'[m]) = {} /\ owner'[m] = t /\ original'[m] = InitPrio[t] /\ stat'[t] = "READY"
  BY <1>a, <1>v, <1>w DEF Range
<1>4. OwnerLent(m)' /\ Sorted(waitq'[m])
  BY <1>3 DEF OwnerLent, Sorted
<1> QED BY <1>v, <1>1, <1>2, <1>3, <1>4, AllBack

(* rt_mutex_release of the last hold gives the owner his priority back,    *)
(* and nobody waits.                                                       *)
LEMMA LendReleaseFree ==
  ASSUME MutexInv, LendInv, OneMutex, NEW t \in Thread \ {Idle}, NEW m \in Mtx, MutexReleaseFree(t, m)
  PROVE  LendInv'
<1> USE KernelAssumption
<1>a. /\ owner[m] = t /\ waitq[m] = <<>> /\ prio' = [prio EXCEPT ![t] = original[m]]
      /\ owner' = [owner EXCEPT ![m] = NoThread] /\ UNCHANGED waitq
  BY DEF MutexReleaseFree, SetOwner, PrioBack
<1>v. /\ \A y \in Mtx : y = m
      /\ prio \in [Thread -> Prio] /\ owner \in [Mtx -> Thread \cup {NoThread}]
      /\ \A x \in Thread : owner[m] # x => prio[x] = InitPrio[x]
      /\ original[m] = InitPrio[t]
  BY <1>a, LendView
<1>1. NothingLent'
  BY <1>a, <1>v DEF NothingLent
<1>2. owner' \in [Mtx -> Thread \cup {NoThread}] /\ owner'[m] = NoThread
  BY <1>a, <1>v
<1>3. waitq'[m] = <<>> /\ Range(waitq'[m]) = {}
  BY <1>a DEF Range
<1>4. OwnerLent(m)' /\ Sorted(waitq'[m])
  BY <1>2, <1>3 DEF OwnerLent, Sorted
<1> QED BY <1>v, <1>1, <1>2, <1>3, <1>4, AllBack

(* The first waiter of an ordered list, who becomes the owner, has the     *)
(* highest priority of those that wait: nothing has to be lent to him.     *)
LEMMA LendHandOver ==
  ASSUME MutexInv, LendInv, OneMutex, NEW t \in Thread \ {Idle}, NEW m \in Mtx, MutexHandOver(t, m)
  PROVE  LendInv'
<1> USE KernelAssumption
<1>v. /\ \A y \in Mtx : y = m
      /\ prio \in [Thread -> Prio] /\ waitq \in [Obj -> Seq(Thread)]
      /\ owner \in [Mtx -> Thread \cup {NoThread}] /\ original \in [Mtx -> Prio \cup {NoPrio}]
      /\ \A x \in Range(waitq[m]) : x \in Thread /\ owner[m] # x
      /\ \A x \in Thread : owner[m] # x => prio[x] = InitPrio[x]
      /\ \A x \in Thread : owner[m] = x => original[m] = InitPrio[x]
      /\ (InOrder => Sorted(waitq[m]))
  BY LendView
<1>k. KernelInv /\ m \in Obj /\ stat \in [Thread -> Stat]
  BY DEF MutexInv, WaitInv, KernelInv, KernelTypeOK, Mtx
<1>u. PICK u \in Thread : u = Head(waitq[m]) /\ u \in Range(waitq[m])
  BY <1>k, <1>v, HeadRange DEF MutexHandOver
<1>a. /\ owner[m] = t /\ prio' = [prio EXCEPT ![t] = original[m]]
      /\ waitq' = UnlinkAll(waitq, u) /\ stat' = [stat EXCEPT ![u] = "READY"]
      /\ owner' = [owner EXCEPT ![m] = u] /\ original' = [original EXCEPT ![m] = prio[u]]
  BY <1>u DEF MutexHandOver, GiveTo, SetOwner, PrioBack
<1>r. Range(waitq'[m]) = Range(waitq[m]) \ {u} /\ waitq'[m] = Unlink(waitq[m], u)
  <2>1. \A x \in Obj : Range(waitq'[x]) = Range(waitq[x]) \ {u}
    BY <1>a, <1>k, WaitRemoved
  <2> QED BY <1>a, <1>k, <1>v, <2>1 DEF UnlinkAll
<1>1. NothingLent'
  BY <1>a, <1>v DEF NothingLent
<1>2. owner' \in [Mtx -> Thread \cup {NoThread}] /\ owner'[m] = u
  BY <1>a, <1>v
<1>3. OwnerLent(m)'
  <2>1. original'[m] = InitPrio[u] /\ stat'[u] = "READY" /\ u \notin Range(waitq'[m])
    BY <1>a, <1>k, <1>r, <1>u, <1>v
  <2> QED BY <1>2, <2>1 DEF OwnerLent
<1>4. InOrder => Sorted(waitq'[m])
  BY <1>k, <1>r, <1>v, SortedUnlink
<1>5. InOrder => \A x \in Range(waitq'[m]) : x \in Thread /\ InitPrio[u] <= InitPrio[x]
  BY <1>k, <1>r, <1>u, <1>v, SortedHead
<1> QED BY <1>v, <1>1, <1>2, <1>3, <1>4, <1>5, AllBack

(* Only a mutex that has lent nothing is detached. *)
LEMMA LendDetach ==
  ASSUME MutexInv, LendInv, OneMutex, Guarded, NEW t \in Thread \ {Idle}, NEW m \in Mtx, MutexDetach(t, m)
  PROVE  LendInv'
<1>1. NothingLent
  <2>1. owner[m] = NoThread \/ (owner[m] = t /\ original[m] = prio[t])
    BY DEF MutexDetach
  <2> QED BY <2>1, OwnPriority, KernelAssumption
<1>2. UNCHANGED <<waitq, stat, prio, owner, original, exists>>
  BY DEF MutexDetach, Detach, queueVars, threadVars
<1> QED BY <1>1, <1>2, LendCallStep DEF Thinned

(* The waiters of a mutex that goes are woken one by one. *)
LEMMA LendFlush ==
  ASSUME MutexInv, LendInv, NEW t \in Thread, FlushCheck(t) \/ FlushWake(t) \/ FlushEnd(t),
         UNCHANGED <<owner, original>>
  PROVE  LendInv'
<1>k. /\ KernelInv /\ FlushOK /\ pc \in [Thread -> Pc] /\ stat \in [Thread -> Stat]
      /\ call \in [Thread -> Call] /\ exists \in [Mtx -> BOOLEAN]
  BY DEF MutexInv, WaitInv, KernelInv, KernelTypeOK, Call, MutexTypeOK
<1>1. Flushing(t)
  BY DEF FlushCheck, FlushWake, FlushEnd, At, Flushing
<1>2. \A m \in Mtx : (exists'[m] => exists[m]) /\ (Going(m)' => NothingLent)
  <2>1. \A x \in Thread : Flushing(x)' => Flushing(x) /\ call'[x] = call[x]
    BY <1>1, <1>k DEF FlushCheck, FlushWake, FlushEnd, Goto, Flushing
  <2>2. \A m \in Mtx : (exists'[m] => exists[m]) /\ (exists[m] => exists'[m] \/ call[t] = m)
    BY <1>k DEF FlushCheck, FlushWake, FlushEnd
  <2>3. \A m \in Mtx : Going(m)' => Going(m)
    BY <1>1, <2>1, <2>2 DEF Going
  <2> QED BY <2>2, <2>3 DEF LendInv, LendOK
<1>3. CASE FlushCheck(t) \/ FlushEnd(t)
  <2>1. UNCHANGED <<waitq, stat, prio>>
    BY <1>3 DEF FlushCheck, FlushEnd, queueVars, threadVars
  <2> QED BY <1>2, <2>1, LendCallStep DEF Thinned
<1>4. CASE FlushWake(t)
  <2>1. PICK u \in Thread : u = Head(waitq[call[t]])
    <3>1. waitq[call[t]] # <<>> /\ call[t] \in Obj
      BY <1>4, <1>k, FlushWakeStep
    <3> QED BY <1>k, <3>1, HeadRange DEF KernelInv, KernelTypeOK
  <2>2. /\ waitq' = UnlinkAll(waitq, u) /\ stat' = [stat EXCEPT ![u] = "READY"] /\ UNCHANGED prio
    BY <1>4, <2>1 DEF FlushWake, WakeWithError, Wake, MakeReady
  <2>3. \A x \in Thread : stat[x] \in {"READY", "SUSPEND"} => stat'[x] \in {"READY", "SUSPEND"}
    BY <1>k, <2>2
  <2> QED BY <1>2, <2>2, <2>3, LendCallStep DEF Thinned
<1> QED BY <1>3, <1>4

(* rt_mutex_init, rt_mutex_create of a mutex that is gone *)
LEMMA LendObjectInit ==
  ASSUME MutexInv, LendInv, OneMutex, NEW t \in Thread, NEW m \in Mtx, MutexInit(t, m)
  PROVE  LendInv'
<1>a. /\ ~exists[m] /\ waitq' = [waitq EXCEPT ![m] = <<>>] /\ UNCHANGED prio
      /\ owner' = [owner EXCEPT ![m] = NoThread]
  BY DEF MutexInit, ObjectInit, SetOwner, threadVars
<1>v. /\ \A y \in Mtx : y = m
      /\ waitq \in [Obj -> Seq(Thread)] /\ owner \in [Mtx -> Thread \cup {NoThread}]
      /\ Going(m) => NothingLent
  BY LendView
<1>1. NothingLent'
  BY <1>a, <1>v DEF NothingLent, Going
<1>2. owner' \in [Mtx -> Thread \cup {NoThread}] /\ owner'[m] = NoThread
  BY <1>a, <1>v
<1>3. waitq'[m] = <<>> /\ Range(waitq'[m]) = {}
  BY <1>a, <1>v DEF Range, Mtx
<1>4. OwnerLent(m)' /\ Sorted(waitq'[m])
  BY <1>2, <1>3, KernelAssumption DEF OwnerLent, Sorted
<1> QED BY <1>v, <1>1, <1>2, <1>3, <1>4, KernelAssumption, AllBack

(***************************************************************************)
(* Every step.                                                             *)
(***************************************************************************)
InheritInv == MutexInv /\ LendInv

LEMMA InheritInitInv ==
  ASSUME Init, OneMutex
  PROVE  InheritInv
<1>1. MutexInv
  BY MutexInitInv
<1>2. \A m \in Mtx : owner[m] = NoThread /\ waitq[m] = <<>>
  BY DEF Init, KernelInit, Mtx
<1>3. NothingLent
  BY DEF Init, KernelInit, NothingLent
<1>4. BoostEnds /\ OwnerInherits
  BY <1>2, <1>3 DEF BoostEnds, OwnerInherits, NothingLent
<1>5. \A m \in Mtx : LendOK(m)
  BY <1>2, <1>3, KernelAssumption DEF LendOK, OwnerLent, Sorted
<1> QED BY <1>1, <1>4, <1>5 DEF InheritInv, LendInv

LEMMA InheritStepInv ==
  ASSUME InheritInv, OneMutex, Guarded, [Next]_vars
  PROVE  InheritInv'
<1> USE DEF InheritInv
<1>0. MutexInv'
  BY MutexStepInv
<1>1. ASSUME KernelNext, OwnersStay, UNCHANGED mutexVars PROVE LendInv'
  BY <1>1, KernelKeepsLend
<1>2. ASSUME NEW t \in Thread, InMutexCall(t) PROVE LendInv'
  BY <1>2, LendReturn, LendFlush DEF InMutexCall
<1>3. ASSUME NEW t \in Thread \ {Idle}, MutexCall(t) PROVE LendInv'
  <2> PICK m \in Mtx :
        \/ MutexTakeAgain(t, m) \/ MutexTakeFree(t, m) \/ MutexTryFail(t, m)
        \/ \E n \in 0 .. MaxTime : MutexWait(t, m, n)
        \/ MutexRelease(t, m) \/ MutexDetach(t, m) \/ MutexInit(t, m)
    BY <1>3 DEF MutexCall
  <2>1. CASE MutexTakeAgain(t, m) \/ MutexTryFail(t, m) \/ MutexReleaseOther(t, m) \/ MutexReleaseInner(t, m)
    BY <2>1, LendKeepCalls
  <2>2. CASE MutexTakeFree(t, m)
    BY <2>2, LendTakeFree
  <2>3. CASE \E n \in 0 .. MaxTime : MutexWait(t, m, n)
    BY <1>0, <2>3, LendWait
  <2>4. CASE MutexReleaseFree(t, m) \/ MutexHandOver(t, m)
    BY <2>4, LendReleaseFree, LendHandOver
  <2>5. CASE MutexDetach(t, m) \/ MutexInit(t, m)
    BY <2>5, LendDetach, LendObjectInit
  <2> QED BY <2>1, <2>2, <2>3, <2>4, <2>5 DEF MutexRelease
<1>4. CASE UNCHANGED vars
  <2>1. [KernelNext]_kernelVars /\ UNCHANGED kernelVars /\ UNCHANGED mutexVars
    BY <1>4 DEF vars
  <2>2. MutexInv /\ LendInv
    OBVIOUS
  <2> QED BY <1>0, <2>1, <2>2, KernelKeepsLend
<1> QED BY <1>0, <1>1, <1>2, <1>3, <1>4 DEF Next

(* With one mutex whose list is in the order of priorities, lending keeps  *)
(* its promise: the owner never runs below the priority of a thread that   *)
(* waits for him, whoever times out, is suspended, resumed or woken with   *)
(* an error in between.                                                    *)
THEOREM OwnersInherit == Guarded /\ OneMutex /\ InOrder => (Spec => []OwnerInherits)
<1> SUFFICES ASSUME Guarded, OneMutex, InOrder PROVE Spec => []OwnerInherits
  OBVIOUS
<1>1. Init => InheritInv
  BY InheritInitInv
<1>2. InheritInv /\ [Next]_vars => InheritInv'
  BY InheritStepInv
<1>3. InheritInv => OwnerInherits
  BY DEF InheritInv, LendInv
<1> QED BY <1>1, <1>2, <1>3, PTL DEF Spec

(* And lending ends, with a list in either order: a thread that owns no    *)
(* mutex has the priority it was started with, however often it was lent   *)
(* another one.                                                            *)
THEOREM BoostsEnd == Guarded /\ OneMutex => (Spec => []BoostEnds)
<1> SUFFICES ASSUME Guarded, OneMutex PROVE Spec => []BoostEnds
  OBVIOUS
<1>1. Init => InheritInv
  BY InheritInitInv
<1>2. InheritInv /\ [Next]_vars => InheritInv'
  BY InheritStepInv
<1>3. InheritInv => BoostEnds
  BY DEF InheritInv, LendInv
<1> QED BY <1>1, <1>2, <1>3, PTL DEF Spec
===============================================================================
