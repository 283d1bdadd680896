------------------------------ MODULE PoolProof ------------------------------
(***************************************************************************)
(* Theorems about pools with a free list, for any number of threads,       *)
(* objects, blocks and ticks.  The memory pools of src/mempool.c: no block *)
(* is lost or handed out twice, the kernel stays sound, and, when nobody   *)
(* waits with a timeout, suspend_thread_count is the number of waiting     *)
(* threads.  The pool of each message queue of src/ipc.c: no message is    *)
(* lost or in two places.  The mailboxes of src/ipc.c and the data queues  *)
(* of dataqueue.c: each implements the abstract bounded queue.             *)
(***************************************************************************)
EXTENDS Mempool, ObjectsProof

(***************************************************************************)
(* Memory pools: the inductive invariants.                                 *)
(***************************************************************************)

PoolTypes ==
  /\ freeCount \in [Pool -> Nat] /\ blockList \in [Pool -> Seq(Chunk)]
  /\ out \in [Pool -> SUBSET Chunk] /\ suspended \in [Pool -> Int]
  /\ exists \in [Pool -> BOOLEAN]

(* BlocksAccounted of one pool with free list q, f blocks in it and the    *)
(* blocks of a allocated.                                                  *)
Accounted(f, q, a) ==
  /\ q \in Seq(Chunk) /\ f = Len(q) /\ IsInjective(q)
  /\ a \subseteq Chunk /\ Range(q) \cap a = {} /\ Range(q) \cup a = Chunk

(* BlocksAccounted is inductive once it speaks of every pool, also of one  *)
(* that is detached: a woken thread may still take a block of it.          *)
BlockInv ==
  PoolTypes /\ \A m \in Pool : Accounted(freeCount[m], blockList[m], out[m])

(* The kernel's invariant with what a flush relies on. *)
PoolInv == KernelInv /\ FlushOK /\ exists \in [Pool -> BOOLEAN]

(* Without timeouts no waiter has a running or an expired timer.           *)
WaitersUntimed ==
  \A m \in Pool : \A u \in Range(waitq[m]) : timer[u] = 0 /\ u \notin due

PendInv ==
  /\ PoolInv /\ suspended \in [Pool -> Int]
  /\ WaitersUntimed /\ PendedCounted

(***************************************************************************)
(* The blocks.                                                             *)
(***************************************************************************)

(* rt_mp_init links every block into the list, once. *)
LEMMA FreshList ==
  /\ Cardinality(Chunk) \in Nat
  /\ Accounted(Cardinality(Chunk), SetToSeq(Chunk), {})
<1> DEFINE n == Cardinality(Chunk)  q == SetToSeq(Chunk)
<1>1. IsFiniteSet(Chunk)
  BY MempoolAssumption
<1>2. n \in Nat /\ ExistsBijection(1 .. n, Chunk)
  BY <1>1, FS_CardinalityType
<1>3. \E f \in [1 .. n -> Chunk] : IsInjective(f)
  BY <1>2 DEF ExistsBijection, Bijection, Injection
<1>4. q \in [1 .. n -> Chunk] /\ IsInjective(q)
  BY <1>3 DEF SetToSeq
<1>5. IsFiniteSet(1 .. n) /\ Cardinality(1 .. n) = n
  BY <1>2, FS_Interval
<1>6. q \in Injection(1 .. n, Chunk)
  BY <1>4 DEF Injection
<1> HIDE DEF q
<1>7. q \in Surjection(1 .. n, Chunk)
  BY <1>1, <1>5, <1>6, FS_Injection
<1>8. Range(q) = Chunk
  BY <1>4, <1>7 DEF Surjection, Range
<1>9. q \in Seq(Chunk) /\ Len(q) = n
  BY <1>2, <1>4
<1> QED BY <1>2, <1>4, <1>8, <1>9 DEF Accounted, q

(* rt_mp_alloc moves the first block of the list to its caller. *)
LEMMA TakenBlock ==
  ASSUME BlockInv, NEW m \in Pool, blockList[m] # <<>>, TakeBlock(m), UNCHANGED <<suspended, exists>>
  PROVE  BlockInv'
<1> USE DEF BlockInv, PoolTypes
<1> DEFINE q == blockList[m]  b == Head(q)
<1>1. /\ Accounted(freeCount[m], q, out[m]) /\ q \in Seq(Chunk) /\ q # <<>>
      /\ IsInjective(q) /\ freeCount[m] = Len(q) /\ Len(q) \in Nat \ {0}
  BY EmptySeq DEF Accounted
<1>2. /\ Tail(q) \in Seq(Chunk) /\ IsInjective(Tail(q)) /\ Len(Tail(q)) = Len(q) - 1
      /\ Range(Tail(q)) \subseteq Range(q) \ {b}
  BY <1>1, TailRange
<1>3. b \in Range(q) /\ b \in Chunk
  BY <1>1, HeadRange
<1>4. Range(q) \subseteq Range(Tail(q)) \cup {b}
  <2> SUFFICES ASSUME NEW i \in 1 .. Len(q), i # 1 PROVE q[i] \in Range(Tail(q))
    BY SMTT(60), <1>1 DEF Range
  <2>1. /\ i - 1 \in 1 .. Len(q) - 1 /\ DOMAIN Tail(q) = 1 .. Len(q) - 1
        /\ Tail(q)[i - 1] = q[i]
    BY <1>1, <1>2
  <2> HIDE DEF q
  <2> QED BY <2>1 DEF Range
<1>5. Accounted(freeCount[m] - 1, Tail(q), out[m] \cup {b})
  <2> HIDE DEF q, b
  <2> QED BY <1>1, <1>2, <1>3, <1>4 DEF Accounted
<1>6. /\ freeCount' = [freeCount EXCEPT ![m] = freeCount[m] - 1]
      /\ blockList' = [blockList EXCEPT ![m] = Tail(q)]
      /\ out' = [out EXCEPT ![m] = out[m] \cup {b}]
  BY DEF TakeBlock
<1>7. freeCount[m] - 1 \in Nat /\ out[m] \cup {b} \subseteq Chunk
  BY <1>1, <1>3
<1> HIDE DEF q, b
<1> QED BY <1>2, <1>5, <1>6, <1>7

(* rt_mp_free puts it back in front. *)
LEMMA FreedBlock ==
  ASSUME BlockInv, NEW t, NEW m \in Pool, NEW b \in Chunk, MpFree(t, m, b)
  PROVE  BlockInv'
<1> USE DEF BlockInv, PoolTypes
<1> DEFINE q == blockList[m]  r == <<b>> \o q
<1>1. /\ q \in Seq(Chunk) /\ IsInjective(q) /\ freeCount[m] = Len(q) /\ Len(q) \in Nat
      /\ out[m] \subseteq Chunk /\ Range(q) \cap out[m] = {} /\ Range(q) \cup out[m] = Chunk
  BY DEF Accounted
<1>2. b \in out[m] /\ b \notin Range(q)
  BY <1>1 DEF MpFree
<1>3. /\ r \in Seq(Chunk) /\ IsInjective(r) /\ Range(r) = Range(q) \cup {b}
  BY <1>1, <1>2, PrependRange
<1>4. Len(r) = Len(q) + 1
  BY <1>1
<1>5. /\ freeCount' = [freeCount EXCEPT ![m] = freeCount[m] + 1]
      /\ blockList' = [blockList EXCEPT ![m] = r]
      /\ out' = [out EXCEPT ![m] = out[m] \ {b}] /\ UNCHANGED exists
  BY DEF MpFree, CountFreed
<1>6. suspended' \in [Pool -> Int]
  BY DEF MpFree
<1> HIDE DEF q, r
<1>7. Accounted(freeCount[m] + 1, r, out[m] \ {b})
  BY <1>1, <1>2, <1>3, <1>4 DEF Accounted
<1>8. freeCount[m] + 1 \in Nat
  BY <1>1
<1> QED BY <1>1, <1>3, <1>5, <1>6, <1>7, <1>8

(* The other operations leave the blocks alone, but for rt_mp_init. *)
LEMMA BlockStepInv ==
  ASSUME BlockInv, [Next]_vars
  PROVE  BlockInv'
<1> USE DEF BlockInv, PoolTypes
<1>1. ASSUME UNCHANGED <<freeCount, blockList, out>>, suspended' \in [Pool -> Int], exists' \in [Pool -> BOOLEAN]
      PROVE  BlockInv'
  BY <1>1
<1>2. CASE UNCHANGED poolVars
  BY <1>1, <1>2 DEF poolVars
<1>3. ASSUME NEW t \in Thread, MpFlush(t) PROVE BlockInv'
  <2>1. suspended' \in [Pool -> Int] /\ UNCHANGED <<freeCount, blockList, out>>
    <3>1. UNCHANGED <<freeCount, blockList, out>>
      BY <1>3 DEF MpFlush
    <3>2. suspended' = suspended \/ suspended' = [suspended EXCEPT ![call[t]] = suspended[call[t]] - 1]
      BY <1>3 DEF MpFlush
    <3>3. ASSUME NEW c PROVE [suspended EXCEPT ![c] = suspended[c] - 1] \in [Pool -> Int]
      <4>1. CASE c \in Pool
        BY <4>1
      <4>2. CASE c \notin Pool
        BY <4>2
      <4> QED BY <4>1, <4>2
    <3> QED BY SMTT(60), <3>1, <3>2, <3>3
  <2>2. exists' \in [Pool -> BOOLEAN]
    BY <1>3 DEF MpFlush, FlushCheck, FlushWake, FlushEnd
  <2> QED BY <1>1, <2>1, <2>2
<1>4. ASSUME NEW t \in Thread, NEW m \in Pool, MpFail(t, m) PROVE BlockInv'
  BY <1>1, <1>4 DEF MpFail, Resumed
<1>5. ASSUME NEW t \in Thread, NEW m \in Pool, MpTakeWoken(t, m) PROVE BlockInv'
  BY <1>5, TakenBlock DEF MpTakeWoken, Resumed
<1>6. ASSUME NEW t \in Thread \ {Idle}, MpCall(t) PROVE BlockInv'
  <2>1. PICK m \in Pool :
          \/ MpAlloc(t, m) \/ (\E n \in IF Timed THEN 0 .. MaxTime ELSE {0} : MpWait(t, m, n))
          \/ (\E b \in Chunk : MpFree(t, m, b)) \/ MpDetach(t, m) \/ MpInit(t, m)
    BY <1>6 DEF MpCall
  <2>2. CASE MpAlloc(t, m)
    <3>1. blockList[m] # <<>>
      BY <2>2, EmptySeq DEF MpAlloc, Accounted
    <3> QED BY <2>2, <3>1, TakenBlock DEF MpAlloc
  <2>3. CASE \E n \in IF Timed THEN 0 .. MaxTime ELSE {0} : MpWait(t, m, n)
    BY <1>1, <2>3 DEF MpWait
  <2>4. CASE \E b \in Chunk : MpFree(t, m, b)
    BY <2>4, FreedBlock
  <2>5. CASE MpDetach(t, m)
    BY <1>1, <2>5 DEF MpDetach, Detach
  <2>6. CASE MpInit(t, m)
    <3> DEFINE q == SetToSeq(Chunk)  n == Cardinality(Chunk)
    <3>1. /\ freeCount' = [freeCount EXCEPT ![m] = n] /\ blockList' = [blockList EXCEPT ![m] = q]
          /\ out' = [out EXCEPT ![m] = {}] /\ suspended' = [suspended EXCEPT ![m] = 0]
          /\ exists' = [exists EXCEPT ![m] = TRUE]
      BY <2>6 DEF MpInit, ObjectInit
    <3>2. n \in Nat /\ Accounted(n, q, {}) /\ q \in Seq(Chunk)
      BY FreshList DEF Accounted
    <3> HIDE DEF n, q
    <3> QED BY <3>1, <3>2
  <2> QED BY <2>1, <2>2, <2>3, <2>4, <2>5, <2>6
<1> QED BY <1>2, <1>3, <1>4, <1>5, <1>6 DEF Next, vars

LEMMA BlockInitInv == Init => BlockInv
<1> SUFFICES ASSUME Init PROVE BlockInv
  OBVIOUS
<1> DEFINE q == SetToSeq(Chunk)  n == Cardinality(Chunk)
<1>1. n \in Nat /\ Accounted(n, q, {}) /\ q \in Seq(Chunk)
  BY FreshList DEF Accounted
<1>2. /\ freeCount = [m \in Pool |-> n] /\ blockList = [m \in Pool |-> q]
      /\ out = [m \in Pool |-> {}] /\ suspended = [m \in Pool |-> 0]
      /\ exists = [m \in Pool |-> TRUE]
  BY DEF Init
<1> HIDE DEF n, q
<1> QED BY <1>1, <1>2 DEF BlockInv, PoolTypes

(* A block is in the free list, which block_free_count counts, or out with *)
(* one caller, whatever rt_mp_alloc, the wake-ups of rt_mp_free, timeouts  *)
(* and re-initialised pools do; nothing is assumed of the callers.         *)
THEOREM BlocksStayAccounted == Spec => []BlocksAccounted
<1>1. BlockInv => BlocksAccounted
  BY DEF BlockInv, Accounted, BlocksAccounted
<1> QED BY <1>1, BlockInitInv, BlockStepInv, PTL DEF Spec

(***************************************************************************)
(* The kernel under the pools.                                             *)
(***************************************************************************)

(* A pool operation that neither the scheduler nor a list sees. *)
LEMMA PoolUnseen ==
  ASSUME PoolInv, Guarded, UNCHANGED <<kernelVars, exists>>
  PROVE  PoolInv'
<1>1. [KernelNext]_kernelVars
  OBVIOUS
<1> QED BY <1>1, StepInv, KernelKeepsFlush DEF PoolInv

(* rt_mp_alloc on an empty pool. *)
LEMMA MpWaitStep ==
  ASSUME PoolInv, NEW t \in Thread, NEW m \in Pool, NEW n \in 0 .. MaxTime, MpWait(t, m, n)
  PROVE  PoolInv'
<1> DEFINE q == <<t>> \o waitq[m]
<1>1. /\ MayBlock(t) /\ SuspendFor(t, m, n) /\ waitq' = [waitq EXCEPT ![m] = q]
      /\ err' = [err EXCEPT ![t] = "EOK"] /\ UNCHANGED exists
  BY DEF MpWait
<1>2. t \notin Range(waitq[m])
  <2>1. stat[t] = "READY"
    BY <1>1 DEF PoolInv, KernelInv, CurrentOK, MayBlock, InUser, Running
  <2> QED BY <2>1 DEF PoolInv, KernelInv, ListsConsistent, Pool
<1>3. q \in Seq(Thread) /\ IsInjective(q) /\ Range(q) = Range(waitq[m]) \cup {t}
  BY <1>2, PrependRange DEF PoolInv, KernelInv, KernelTypeOK, ListsConsistent, Pool
<1> HIDE DEF q
<1>4. KernelInv'
  BY <1>1, <1>3, JoinStep DEF PoolInv, Pool
<1>5. FlushOK'
  <2>1. pc \in [Thread -> Pc] /\ pc[t] = "run" /\ t = current /\ pc' = [pc EXCEPT ![t] = "sched"]
    BY <1>1 DEF PoolInv, KernelInv, KernelTypeOK, MayBlock, InUser, Running, SuspendFor, Goto
  <2> QED BY <2>1, NoFlush DEF PoolInv, Flushing
<1> QED BY <1>1, <1>4, <1>5 DEF PoolInv

(* Its return, with a block or with an error. *)
LEMMA ResumedStep ==
  ASSUME PoolInv, NEW t \in Thread, NEW m \in Pool, Resumed(t, m)
  PROVE  PoolInv'
<1> USE DEF PoolInv, Resumed, At, Running, Goto, threadVars
<1>a. pc \in [Thread -> Pc] /\ call \in [Thread -> Call] /\ err \in [Thread -> Err]
  BY DEF KernelInv, KernelTypeOK, Call, Err
<1>1. t # Idle /\ "none" \in Call
  BY DEF KernelInv, IdleOK, Call
<1>2. KernelInv'
  <2>1. /\ call' \in [Thread -> Call] /\ \A v \in Thread \ {t} : call'[v] = call[v]
        /\ err' \in [Thread -> Err] /\ "run" \in Pc \ OpPc
        /\ pc[t] \notin OpPc \cup {"sched", "reset"}
    BY <1>a, <1>1 DEF Pc, OpPc
  <2>2. UNCHANGED <<queueVars, stat, prio, slice, timer, arg, current, nest, due, lag>>
    OBVIOUS
  <2> QED BY <1>1, <2>1, <2>2, PlaceStep
<1>3. FlushOK'
  <2>1. ~Flushing(current) /\ \A x \in Thread : Flushing(x)' => Flushing(x)
    BY <1>a DEF Flushing
  <2> QED BY <2>1, NoFlush
<1> QED BY <1>2, <1>3

(* rt_mp_free. *)
LEMMA MpFreeStep ==
  ASSUME PoolInv, Guarded, NEW t \in Thread \ {Idle}, NEW m \in Pool, NEW b \in Chunk, MpFree(t, m, b)
  PROVE  PoolInv'
<1> USE DEF PoolInv, InUser, Running, Goto, Pool
<1>a. pc \in [Thread -> Pc] /\ call \in [Thread -> Call] /\ err \in [Thread -> Err]
  BY DEF KernelInv, KernelTypeOK, Call, Err
<1>1. CASE suspended[m] > 0
  <2>1. /\ waitq[m] # <<>> /\ Wake(Head(waitq[m])) /\ due = {} /\ current = t /\ pc[t] = "run"
        /\ err' = [err EXCEPT ![Head(waitq[m])] = "EOK"] /\ pc' = [pc EXCEPT ![t] = "sched"]
        /\ UNCHANGED <<defunct, prio, slice, call, arg, current, nest, due, lag, exists>>
    BY <1>1 DEF MpFree
  <2>2. KernelInv'
    <3>1. err' \in [Thread -> Err]
      BY <1>a, <2>1 DEF Err
    <3>2. /\ pc' \in [Thread -> Pc] /\ pc'[current] = "sched" /\ pc[current] # "sched"
          /\ \A v \in Thread : pc'[v] = pc[v] \/ (pc'[v] \notin OpPc /\ pc[v] \notin OpPc)
      BY <1>a, <2>1 DEF Pc, OpPc
    <3>3. pc'[Idle] = "run" /\ lag' \in BOOLEAN
      BY <1>a, <2>1, KernelAssumption DEF KernelInv, IdleOK, KernelTypeOK
    <3> QED BY <1>a, <2>1, <3>1, <3>2, <3>3, WakeStep
  <2>3. FlushOK'
    <3>1. ~Flushing(current) /\ \A x \in Thread : Flushing(x)' => Flushing(x)
      BY <1>a, <2>1 DEF Flushing
    <3> QED BY <3>1, NoFlush
  <2> QED BY <2>1, <2>2, <2>3
<1>2. CASE ~(suspended[m] > 0)
  <2>1. UNCHANGED <<kernelVars, exists>>
    BY <1>2 DEF MpFree, kernelVars, queueVars, threadVars, callVars
  <2> QED BY <2>1, PoolUnseen
<1> QED BY <1>1, <1>2

LEMMA MpInitStep ==
  ASSUME PoolInv, NEW t \in Thread \ {Idle}, NEW m \in Pool, MpInit(t, m)
  PROVE  PoolInv'
<1>1. KernelInv'
  BY ObjectInitStep DEF PoolInv, MpInit, Pool
<1>2. FlushOK'
  <2>1. current = t /\ pc[t] = "run" /\ UNCHANGED <<pc, call>>
    BY DEF MpInit, ObjectInit, InUser, Running, callVars
  <2>2. ~Flushing(current) /\ \A x \in Thread : Flushing(x)' => Flushing(x)
    BY <2>1 DEF Flushing
  <2> QED BY <2>2, NoFlush DEF PoolInv
<1>3. exists' \in [Pool -> BOOLEAN]
  BY DEF MpInit, ObjectInit, PoolInv
<1> QED BY <1>1, <1>2, <1>3 DEF PoolInv

LEMMA PoolInitInv == Init => PoolInv
<1> SUFFICES ASSUME Init PROVE PoolInv
  OBVIOUS
<1>1. KernelInv
  BY InitInv DEF Init
<1>2. FlushOK
  BY DEF FlushOK, Flushing, Init, KernelInit
<1> QED BY <1>1, <1>2 DEF PoolInv, Init

LEMMA PoolStepInv ==
  ASSUME PoolInv, Guarded, [Next]_vars
  PROVE  PoolInv'
<1>1. ASSUME [KernelNext]_kernelVars, UNCHANGED poolVars PROVE PoolInv'
  BY <1>1, StepInv, KernelKeepsFlush DEF PoolInv, poolVars
<1>2. ASSUME NEW t \in Thread, MpFlush(t) PROVE PoolInv'
  BY <1>2, FlushCheckStep, FlushWakeStep, FlushEndStep DEF MpFlush, PoolInv, Pool
<1>3. ASSUME NEW t \in Thread, NEW m \in Pool, MpFail(t, m) \/ MpTakeWoken(t, m) PROVE PoolInv'
  BY <1>3, ResumedStep DEF MpFail, MpTakeWoken
<1>4. ASSUME NEW t \in Thread \ {Idle}, MpCall(t) PROVE PoolInv'
  <2>1. PICK m \in Pool :
          \/ MpAlloc(t, m) \/ (\E n \in IF Timed THEN 0 .. MaxTime ELSE {0} : MpWait(t, m, n))
          \/ (\E b \in Chunk : MpFree(t, m, b)) \/ MpDetach(t, m) \/ MpInit(t, m)
    BY <1>4 DEF MpCall
  <2>2. CASE MpAlloc(t, m)
    BY <2>2, PoolUnseen DEF MpAlloc
  <2>3. CASE \E n \in IF Timed THEN 0 .. MaxTime ELSE {0} : MpWait(t, m, n)
    <3>1. PICK n \in 0 .. MaxTime : MpWait(t, m, n)
      BY <2>3, KernelAssumption
    <3> QED BY <3>1, MpWaitStep
  <2>4. CASE \E b \in Chunk : MpFree(t, m, b)
    BY <2>4, MpFreeStep
  <2>5. CASE MpDetach(t, m)
    BY <2>5, DetachStep DEF MpDetach, PoolInv, Pool
  <2>6. CASE MpInit(t, m)
    BY <2>6, MpInitStep
  <2> QED BY <2>1, <2>2, <2>3, <2>4, <2>5, <2>6
<1>5. CASE UNCHANGED vars
  BY <1>1, <1>5 DEF vars
<1> QED BY <1>1, <1>2, <1>3, <1>4, <1>5 DEF Next

THEOREM PoolInvariant == Guarded => (Spec => []PoolInv)
<1> SUFFICES ASSUME Guarded PROVE Spec => []PoolInv
  OBVIOUS
<1>1. Init => PoolInv
  BY PoolInitInv
<1>2. PoolInv /\ [Next]_vars => PoolInv'
  BY PoolStepInv
<1> QED BY <1>1, <1>2, PTL DEF Spec

(* rt_mp_alloc, which puts its caller in front of the wait list, rt_mp_free *)
(* and rt_mp_delete leave the ready queues, wait lists, timers and          *)
(* preemption as the kernel needs them.                                     *)
THEOREM PoolsStaySound == Guarded => (Spec => []KernelSound)
<1>1. PoolInv => KernelSound
  BY HeadIsHighest DEF PoolInv, KernelInv, KernelSound
<1> QED BY <1>1, PoolInvariant, PTL

(***************************************************************************)
(* suspend_thread_count.                                                   *)
(***************************************************************************)

(* The first thread leaves a wait list, and only that list changes. *)
LEMMA FirstLeaves ==
  ASSUME KernelInv, NEW m \in Pool, waitq[m] # <<>>, waitq' = UnlinkAll(waitq, Head(waitq[m]))
  PROVE  /\ Len(waitq'[m]) = Len(waitq[m]) - 1
         /\ \A x \in Pool \ {m} : waitq'[x] = waitq[x]
         /\ \A x \in Pool : Range(waitq'[x]) \subseteq Range(waitq[x])
<1> DEFINE q == waitq[m]  h == Head(q)
<1>1. q \in Seq(Thread) /\ IsInjective(q) /\ q # <<>>
  BY DEF KernelInv, KernelTypeOK, ListsConsistent, Pool
<1>2. h \in Range(q) /\ h \in Thread
  BY <1>1, HeadRange
<1>3. Unlinked(Obj, UnlinkAll(waitq, h), waitq, h)
  BY InvQueues, UnlinkAllProperties DEF WOK
<1>4. \A x \in Pool \ {m} : h \notin Range(waitq[x])
  BY <1>2, WaiterFacts DEF Pool
<1>0. m \in Obj
  BY DEF Pool
<1>5. waitq'[m] = Unlink(q, h)
  BY SMTT(60), <1>0, <1>3 DEF Unlinked
<1> HIDE DEF q
<1>6. Len(Unlink(q, h)) = Len(q) - 1
  <2> DEFINE k == CHOOSE i \in DOMAIN q : q[i] = h
  <2>1. k \in 1 .. Len(q)
    BY <1>1, <1>2 DEF Range
  <2> HIDE DEF k
  <2>2. Len(RemoveAt(q, k)) = Len(q) - 1
    BY <1>1, <2>1, RemoveAtIndex
  <2> QED BY ZenonT(60), <1>2, <2>2 DEF Unlink, k
<1> QED BY <1>3, <1>4, <1>5, <1>6 DEF Unlinked, Pool, q

(* The kernel takes no waiter off a list: none is in a list of expired     *)
(* timers, none is worked on, and WaitersStay keeps it from being deleted. *)
LEMMA KernelKeepsWaiters ==
  ASSUME KernelInv, Guarded, WaitersUntimed, WaitersStay, [KernelNext]_kernelVars
  PROVE  UNCHANGED waitq
<1> USE DEF queueVars
<1>w. waitq \in [Pool -> Seq(Thread)] /\ \A m \in Pool : IsInjective(waitq[m])
  BY DEF KernelInv, KernelTypeOK, ListsConsistent, Pool
<1>1. ASSUME NEW u \in Thread, \A m \in Pool : u \notin Range(waitq[m])
      PROVE  UnlinkAll(waitq, u) = waitq
  BY <1>w, <1>1 DEF UnlinkAll, Unlink
<1>2. ASSUME NEW t \in Thread, InCall(t) PROVE UNCHANGED waitq
  <2>1. CASE Schedule(t) \/ Return(t) \/ ResumeInsert(t) \/ DeleteTimer(t) \/ DeleteClose(t) \/ DeleteDefunct(t)
    BY <2>1 DEF Schedule, Return, ResumeInsert, DeleteTimer, DeleteClose, DeleteDefunct
  <2>2. CASE SuspendLocked(t) \/ ResumeLocked(t)
    <3>1. pc[t] \in {"suspend", "resume", "start"} /\ waitq' = UnlinkAll(waitq, arg[t])
      BY <2>2 DEF SuspendLocked, ResumeLocked, At
    <3>2. arg[t] # NoThread
      BY <3>1 DEF KernelInv, ControlOK, Control, OpPc
    <3>3. arg[t] \in Thread
      BY <3>2 DEF KernelInv, KernelTypeOK
    <3>4. \A m \in Pool : arg[t] \notin Range(waitq[m])
      BY WaiterFacts DEF Pool
    <3> QED BY <1>1, <3>1, <3>3, <3>4
  <2> QED BY <1>2, <2>1, <2>2 DEF InCall
<1>3. ASSUME NEW t \in Thread, UserCall(t) PROVE UNCHANGED waitq
  <2>1. CASE (\E n \in 1 .. MaxTime : Sleep(t, n)) \/ SuspendSelf(t) \/ Yield(t) \/ EnterCritical(t) \/ ExitCritical(t) \/ Exit(t)
    BY <2>1 DEF Sleep, SuspendSelf, Yield, EnterCritical, ExitCritical, Exit
  <2>2. CASE \E u \in Thread : \/ Suspend(t, u) \/ Resume(t, u) \/ Create(t, u) \/ Startup(t, u)
                              \/ \E p \in PrioChoices : ChangePriority(t, u, p)
    BY <2>2 DEF Suspend, Resume, Create, Startup, ChangePriority
  <2>3. ASSUME NEW u \in Thread, Delete(t, u) PROVE UNCHANGED waitq
    <3>1. waitq' = UnlinkAll(waitq, u) /\ arg'[t] = u /\ pc'[t] = "del1"
      BY <2>3 DEF Delete, Begin, Goto, KernelInv, KernelTypeOK
    <3>2. call[u] \notin Pool
      BY <3>1 DEF WaitersStay
    <3>3. \A m \in Pool : u \notin Range(waitq[m])
      BY <3>2, WaiterFacts DEF Pool
    <3> QED BY <1>1, <3>1, <3>3
  <2> QED BY <1>3, <2>1, <2>2, <2>3 DEF UserCall
<1>4. CASE IdleExcute \/ Tick
  BY <1>4 DEF IdleExcute, Tick
<1>5. ASSUME NEW t \in Thread, Timeout(t) PROVE UNCHANGED waitq
  <2>1. waitq' = UnlinkAll(waitq, t) /\ t \in due
    BY <1>5 DEF Timeout, MakeReady
  <2> QED BY <1>1, <2>1 DEF WaitersUntimed
<1>6. CASE UNCHANGED kernelVars
  BY <1>6 DEF kernelVars
<1> QED BY <1>2, <1>3, <1>4, <1>5, <1>6 DEF KernelNext, ThreadStep, Interrupt

(* The kernel starts the timer of the running thread only, which waits for *)
(* nothing. *)
LEMMA KernelKeepsUntimed ==
  ASSUME KernelInv, Guarded, WaitersUntimed, WaitersStay, [KernelNext]_kernelVars
  PROVE  WaitersUntimed'
<1> USE DEF threadVars
<1> SUFFICES ASSUME NEW m \in Pool, NEW u \in Range(waitq[m])
             PROVE  timer'[u] = 0 /\ u \notin due'
  BY KernelKeepsWaiters DEF WaitersUntimed
<1>1. /\ timer[u] = 0 /\ u \notin due /\ u \in Thread /\ timer \in [Thread -> 0 .. MaxTime]
      /\ u = current => pc[u] = "sched"
  BY WaiterFacts DEF WaitersUntimed, KernelInv, KernelTypeOK, Pool
<1>2. ASSUME UNCHANGED due,
             \/ UNCHANGED timer
             \/ \E v : timer' = [timer EXCEPT ![v] = 0]
             \/ \E v \in Thread \ {u}, n \in 0 .. MaxTime : timer' = [timer EXCEPT ![v] = n]
      PROVE  timer'[u] = 0 /\ u \notin due'
  BY <1>1, <1>2
<1>3. ASSUME NEW t \in Thread, InCall(t) PROVE timer'[u] = 0 /\ u \notin due'
  BY <1>2, <1>3 DEF InCall, Schedule, Return, SuspendLocked, ResumeLocked, ResumeInsert, DeleteTimer, DeleteClose, DeleteDefunct
<1>4. ASSUME NEW t \in Thread, UserCall(t) PROVE timer'[u] = 0 /\ u \notin due'
  <2>1. t # u
    BY <1>1, <1>4 DEF UserCall, Sleep, SuspendSelf, Yield, EnterCritical, ExitCritical, Exit,
                      Suspend, Resume, Delete, Create, Startup, ChangePriority, MayControl, MayBlock, InUser, Running
  <2>2. CASE (\E n \in 1 .. MaxTime : Sleep(t, n)) \/ SuspendSelf(t)
    <3>1. \E n \in 0 .. MaxTime : SuspendFor(t, "sleep", n) \/ SuspendFor(t, "suspend", n)
      BY <2>2, KernelAssumption DEF Sleep, SuspendSelf
    <3> QED BY <1>2, <2>1, <3>1 DEF SuspendFor
  <2>3. CASE Yield(t) \/ EnterCritical(t) \/ ExitCritical(t) \/ Exit(t)
    BY <1>2, <2>3 DEF Yield, EnterCritical, ExitCritical, Exit
  <2>4. CASE \E v \in Thread : \/ Suspend(t, v) \/ Resume(t, v) \/ Delete(t, v)
                              \/ Create(t, v) \/ Startup(t, v)
                              \/ \E p \in PrioChoices : ChangePriority(t, v, p)
    BY <1>2, <2>4 DEF Suspend, Resume, Delete, Create, Startup, ChangePriority
  <2> QED BY <1>4, <2>2, <2>3, <2>4 DEF UserCall
<1>5. CASE IdleExcute
  BY <1>2, <1>5 DEF IdleExcute
<1>6. CASE Tick
  BY <1>1, <1>6 DEF Tick, TimerAfterTick
<1>7. ASSUME NEW t \in Thread, Timeout(t) PROVE timer'[u] = 0 /\ u \notin due'
  BY <1>1, <1>7 DEF Timeout
<1>8. CASE UNCHANGED kernelVars
  BY <1>2, <1>8 DEF kernelVars
<1> QED BY <1>3, <1>4, <1>5, <1>6, <1>7, <1>8 DEF KernelNext, ThreadStep, Interrupt

(* What is left when the first waiter is woken and counted down. *)
LEMMA CountedDown ==
  ASSUME PendInv, NEW m \in Pool, waitq[m] # <<>>, Wake(Head(waitq[m])),
         suspended' = [suspended EXCEPT ![m] = suspended[m] - 1], UNCHANGED <<due, exists>>
  PROVE  WaitersUntimed' /\ PendedCounted' /\ suspended' \in [Pool -> Int]
<1> USE DEF PendInv, PoolInv
<1>1. waitq' = UnlinkAll(waitq, Head(waitq[m])) /\ timer' = [timer EXCEPT ![Head(waitq[m])] = 0]
  BY DEF Wake, MakeReady
<1>2. /\ Len(waitq'[m]) = Len(waitq[m]) - 1
      /\ \A x \in Pool \ {m} : waitq'[x] = waitq[x]
      /\ \A x \in Pool : Range(waitq'[x]) \subseteq Range(waitq[x])
  BY <1>1, FirstLeaves
<1>3. \A x \in Pool : Range(waitq[x]) \subseteq Thread
  BY InvQueues DEF Pool
<1>4. WaitersUntimed'
  BY <1>1, <1>2, <1>3 DEF WaitersUntimed, KernelInv, KernelTypeOK
<1>5. PendedCounted'
  BY <1>2 DEF PendedCounted
<1> QED BY <1>4, <1>5

(* A step that changes no wait list, no timer and no counter. *)
LEMMA CountKept ==
  ASSUME PendInv, UNCHANGED <<waitq, timer, due, suspended>>, \A m \in Pool : exists'[m] => exists[m]
  PROVE  WaitersUntimed' /\ PendedCounted' /\ suspended' \in [Pool -> Int]
BY DEF PendInv, WaitersUntimed, PendedCounted

LEMMA PendStepInv ==
  ASSUME PendInv, Guarded, ~Timed, [Next]_vars
  PROVE  PendInv'
<1>0. PoolInv'
  BY PoolStepInv DEF PendInv
<1> SUFFICES WaitersUntimed' /\ PendedCounted' /\ suspended' \in [Pool -> Int]
  BY <1>0 DEF PendInv
<1> USE DEF threadVars, queueVars
<1>1. CASE KernelNext /\ WaitersStay /\ UNCHANGED poolVars
  <2>1. UNCHANGED waitq /\ WaitersUntimed'
    BY <1>1, KernelKeepsWaiters, KernelKeepsUntimed DEF PendInv, PoolInv
  <2> QED BY <1>1, <2>1 DEF PendInv, PendedCounted, poolVars
<1>2. ASSUME NEW t \in Thread, MpFlush(t)
      PROVE  WaitersUntimed' /\ PendedCounted' /\ suspended' \in [Pool -> Int]
  <2>1. CASE FlushCheck(t)
    BY <1>2, <2>1, CountKept DEF MpFlush, FlushCheck, At
  <2>2. CASE FlushWake(t)
    <3>1. call[t] \in Pool /\ waitq[call[t]] # <<>>
      BY <2>2, FlushWakeStep DEF PendInv, PoolInv, Pool
    <3>2. /\ Wake(Head(waitq[call[t]])) /\ UNCHANGED <<due, exists>>
          /\ suspended' = [suspended EXCEPT ![call[t]] = suspended[call[t]] - 1]
      BY <1>2, <2>2 DEF MpFlush, FlushWake, WakeWithError, At
    <3> QED BY <3>1, <3>2, CountedDown
  <2>3. CASE FlushEnd(t)
    <3>1. UNCHANGED <<waitq, timer, due, suspended>> /\ exists' = [exists EXCEPT ![call[t]] = FALSE]
      BY <1>2, <2>3 DEF MpFlush, FlushEnd, At
    <3>2. \A m \in Pool : exists'[m] => exists[m]
      BY <3>1 DEF PendInv, PoolInv
    <3> QED BY <3>1, <3>2, CountKept
  <2> QED BY <1>2, <2>1, <2>2, <2>3 DEF MpFlush
<1>3. ASSUME NEW t \in Thread, NEW m \in Pool, MpFail(t, m) \/ MpTakeWoken(t, m)
      PROVE  WaitersUntimed' /\ PendedCounted' /\ suspended' \in [Pool -> Int]
  BY <1>3, CountKept DEF MpFail, MpTakeWoken, Resumed
<1>4. ASSUME NEW t \in Thread \ {Idle}, MpCall(t)
      PROVE  WaitersUntimed' /\ PendedCounted' /\ suspended' \in [Pool -> Int]
  <2>1. PICK m \in Pool :
          \/ MpAlloc(t, m) \/ (\E n \in IF Timed THEN 0 .. MaxTime ELSE {0} : MpWait(t, m, n))
          \/ (\E b \in Chunk : MpFree(t, m, b)) \/ MpDetach(t, m) \/ MpInit(t, m)
    BY <1>4 DEF MpCall
  <2>2. CASE MpAlloc(t, m)
    BY <2>2, CountKept DEF MpAlloc, kernelVars
  <2>3. CASE MpWait(t, m, 0)
    <3>1. /\ t \in Thread /\ due = {} /\ UNCHANGED <<due, exists>>
          /\ timer' = [timer EXCEPT ![t] = 0] /\ waitq' = [waitq EXCEPT ![m] = <<t>> \o waitq[m]]
          /\ suspended' = [suspended EXCEPT ![m] = suspended[m] + 1]
      BY <2>3 DEF MpWait, SuspendFor, MayBlock, InUser, Running
    <3>2. /\ waitq \in [Pool -> Seq(Thread)] /\ timer \in [Thread -> 0 .. MaxTime] /\ t \notin Range(waitq[m])
          /\ IsInjective(waitq[m])
      <4>1. stat[t] = "READY"
        BY <2>3 DEF MpWait, PendInv, PoolInv, KernelInv, CurrentOK, MayBlock, InUser, Running
      <4> QED BY <4>1 DEF PendInv, PoolInv, KernelInv, KernelTypeOK, ListsConsistent, Pool
    <3>3. /\ Len(<<t>> \o waitq[m]) = Len(waitq[m]) + 1
          /\ Range(<<t>> \o waitq[m]) = Range(waitq[m]) \cup {t}
      BY <3>1, <3>2, PrependRange
    <3>4. PendedCounted'
      BY <3>1, <3>2, <3>3 DEF PendInv, PendedCounted
    <3>5. WaitersUntimed'
      <4> SUFFICES ASSUME NEW x \in Pool, NEW u \in Range(waitq'[x])
                   PROVE  timer'[u] = 0 /\ u \notin due'
        BY DEF WaitersUntimed
      <4>1. u = t \/ u \in Range(waitq[x])
        BY <3>1, <3>2, <3>3
      <4>2. Range(waitq[x]) \subseteq Thread
        BY <3>2, HeadRange
      <4> QED BY <3>1, <3>2, <4>1, <4>2 DEF PendInv, WaitersUntimed
    <3> QED BY <3>1, <3>4, <3>5 DEF PendInv
  <2>4. ASSUME NEW b \in Chunk, MpFree(t, m, b)
        PROVE  WaitersUntimed' /\ PendedCounted' /\ suspended' \in [Pool -> Int]
    <3>1. CASE suspended[m] > 0
      BY <2>4, <3>1, CountedDown DEF MpFree
    <3>2. CASE ~(suspended[m] > 0)
      BY <2>4, <3>2, CountKept DEF MpFree
    <3> QED BY <3>1, <3>2
  <2>5. CASE MpDetach(t, m)
    BY <2>5, CountKept DEF MpDetach, Detach
  <2>6. CASE MpInit(t, m)
    <3>1. /\ waitq'[m] = <<>> /\ \A x \in Pool \ {m} : waitq'[x] = waitq[x]
          /\ UNCHANGED <<timer, due>> /\ exists' = [exists EXCEPT ![m] = TRUE]
          /\ suspended' = [suspended EXCEPT ![m] = 0]
      BY <2>6, ObjectInitStep DEF MpInit, ObjectInit, PendInv, PoolInv, Pool
    <3>2. Len(waitq'[m]) = 0 /\ Range(waitq'[m]) = {}
      BY <3>1 DEF Range
    <3> QED BY <3>1, <3>2 DEF PendInv, PoolInv, PendedCounted, WaitersUntimed
  <2> QED BY <2>1, <2>2, <2>3, <2>4, <2>5, <2>6
<1>5. CASE UNCHANGED vars
  BY <1>5, CountKept DEF vars, kernelVars, poolVars
<1> QED BY <1>1, <1>2, <1>3, <1>4, <1>5 DEF Next

LEMMA PendInitInv == Init => PendInv
<1> SUFFICES ASSUME Init PROVE PendInv
  OBVIOUS
<1>1. waitq = [m \in Pool |-> <<>>] /\ suspended = [m \in Pool |-> 0]
  BY DEF Init, KernelInit, Pool
<1>2. \A m \in Pool : waitq[m] = <<>> /\ Len(waitq[m]) = 0 /\ Range(waitq[m]) = {}
  BY <1>1 DEF Range
<1> QED BY <1>1, <1>2, PoolInitInv DEF PendInv, WaitersUntimed, PendedCounted

(* suspend_thread_count, by which rt_mp_free decides whether to wake, is   *)
(* the length of the wait list: through rt_mp_alloc, rt_mp_free, flushes,  *)
(* detaches and re-initialised pools, when no thread waits with a timeout  *)
(* and none is deleted while it waits.                                     *)
THEOREM PendedStaysCounted == Guarded /\ ~Timed => (Spec => []PendedCounted)
<1> SUFFICES ASSUME Guarded, ~Timed PROVE Spec => []PendedCounted
  OBVIOUS
<1>1. Init => PendInv
  BY PendInitInv
<1>2. PendInv /\ [Next]_vars => PendInv'
  BY PendStepInv
<1>3. PendInv => PendedCounted
  BY DEF PendInv
<1> QED BY <1>1, <1>2, <1>3, PTL DEF Spec
(***************************************************************************)
(* A block for the thread that rt_mp_free has woken.                       *)
(***************************************************************************)

(* Who waits or was woken, and has not yet returned, is an allocator; in   *)
(* the second case there is a block in the list.                           *)
AllocatorServed ==
  \A m \in Pool, x \in Thread :
    /\ x \in Range(waitq[m]) => x \in Allocator
    /\ Holds(m, x) => x \in Allocator /\ freeCount[m] > 0

WokenInv == PoolInv /\ BlockInv /\ WaitInv /\ AllocatorServed

(* What takes no block keeps it, if it lets nobody new be served. *)
LEMMA ServedKept ==
  ASSUME AllocatorServed,
         \A m \in Pool, x \in Thread :
           /\ x \in Range(waitq'[m]) => x \in Range(waitq[m])
           /\ Holds(m, x)' => Holds(m, x),
         UNCHANGED freeCount
  PROVE  AllocatorServed'
BY DEF AllocatorServed

(* A thread that returns from its wait without error was served. *)
LEMMA ReturningHolds ==
  ASSUME WaitInv, NEW t \in Thread, NEW m \in Pool,
         current = t, pc[t] = "blocked", call[t] = m, err[t] = "EOK"
  PROVE  Holds(m, t)
<1>1. stat[t] = "READY"
  BY DEF WaitInv, KernelInv, CurrentOK
<1>2. (\A v \in Thread : arg[v] # t) /\ t \notin Range(waitq[m])
  BY <1>1, RunningThread DEF WaitInv, Pool
<1> QED BY <1>1, <1>2 DEF Holds, Deleting

(* rt_mp_alloc with a block in the list: the one allocator is its caller,  *)
(* so nobody else is about to take one.                                    *)
LEMMA AllocKeepsServed ==
  ASSUME WokenInv, Guarded, \A a, b \in Allocator : a = b,
         NEW t \in Thread, NEW m \in Pool, MpAlloc(t, m)
  PROVE  WaitInv' /\ AllocatorServed'
<1>1. /\ InUser(t) /\ t \in Allocator /\ UNCHANGED kernelVars
      /\ \A y \in Pool \ {m} : freeCount'[y] = freeCount[y]
  BY DEF MpAlloc, TakeBlock, WokenInv, BlockInv, PoolTypes
<1>2. \A o \in Pool : ~Holds(o, t)
  BY <1>1, CallerView DEF WokenInv, Pool
<1>3. \A x \in Thread : ~Holds(m, x)
  BY <1>1, <1>2 DEF WokenInv, AllocatorServed
<1>4. [KernelNext]_kernelVars /\ UNCHANGED <<waitq, call, stat, pc, err, arg>>
  BY <1>1 DEF kernelVars, queueVars, threadVars, callVars
<1>5. WaitInv'
  <2>1. KernelInv' /\ FreshOK' /\ WaitPlace' /\ PlaceOK'
    BY <1>4, StepInv, KernelKeepsFresh, KernelKeepsPlace, KernelKeepsCalls DEF WokenInv, WaitInv
  <2> QED BY <2>1 DEF WaitInv
<1>6. \A o \in Pool, x \in Thread : Holds(o, x)' <=> Holds(o, x)
  BY <1>4 DEF Holds, Deleting
<1>7. AllocatorServed'
  BY <1>1, <1>3, <1>4, <1>6 DEF WokenInv, AllocatorServed
<1> QED BY <1>5, <1>7

(* rt_mp_alloc on an empty pool, with any time to wait. *)
LEMMA WaitKeepsServed ==
  ASSUME WokenInv, KernelInv', NEW t \in Thread, NEW m \in Pool, NEW n, MpWait(t, m, n)
  PROVE  WaitInv' /\ AllocatorServed'
<1>k. /\ WaitInv /\ KernelInv' /\ KernelInv /\ AllocatorServed
      /\ pc \in [Thread -> Pc] /\ call \in [Thread -> Call] /\ err \in [Thread -> Err]
      /\ stat \in [Thread -> Stat] /\ waitq \in [Pool -> Seq(Thread)]
      /\ \A o \in Pool : Range(waitq[o]) \subseteq Thread
  BY InvQueues DEF WokenInv, WaitInv, KernelInv, KernelTypeOK, Call, Err, Pool
<1>a. /\ InUser(t) /\ t \in Allocator /\ Goto(t, "sched") /\ call' = [call EXCEPT ![t] = m]
      /\ stat' = [stat EXCEPT ![t] = "SUSPEND"] /\ err' = [err EXCEPT ![t] = "EOK"]
      /\ waitq' = [waitq EXCEPT ![m] = <<t>> \o waitq[m]] /\ UNCHANGED <<arg, freeCount>>
  BY DEF MpWait, MayBlock, SuspendFor
<1>b. pc[t] = "run" /\ (\A o \in Pool : t \notin Range(waitq[o])) /\ IsInjective(waitq[m])
  BY <1>a, <1>k, CallerView DEF Pool, KernelInv, ListsConsistent
<1>p. /\ pc'[t] = "sched" /\ call'[t] = m /\ err'[t] = "EOK" /\ stat'[t] = "SUSPEND"
      /\ \A x \in Thread \ {t} : UNCHANGED <<pc[x], call[x], stat[x], err[x]>>
  BY <1>a, <1>k DEF Goto
<1>w. \A o \in Pool : Range(waitq'[o]) = IF o = m THEN Range(waitq[m]) \cup {t} ELSE Range(waitq[o])
  <2>1. Range(<<t>> \o waitq[m]) = Range(waitq[m]) \cup {t}
    BY <1>b, <1>k, PrependRange
  <2>2. /\ waitq'[m] = <<t>> \o waitq[m] /\ \A o \in Pool \ {m} : waitq'[o] = waitq[o]
    BY <1>a, <1>k
  <2> QED BY <2>1, <2>2
<1>1. WaitInv'
  <2>1. \A y \in Obj : \A x \in Range(waitq'[y]) :
          \/ x \in Range(waitq[y]) /\ x # t /\ UNCHANGED err[x]
          \/ x = t /\ pc'[x] = "sched" /\ err'[x] = "EOK"
    BY <1>b, <1>k, <1>p, <1>w DEF Pool
  <2>2. stat'[t] # "INIT" /\ (pc'[t] = "run" => call'[t] = "none") /\ pc'[t] \notin OpPc
    BY <1>p DEF OpPc
  <2>3. \A x \in Thread \ {t} : UNCHANGED <<pc[x], call[x]>> /\ (stat'[x] = "INIT" => stat[x] = "INIT")
    BY <1>p
  <2> QED BY <1>k, <2>1, <2>2, <2>3, PlacesKept
<1>2. ASSUME NEW o \in Pool, NEW x \in Thread, Holds(o, x)' PROVE Holds(o, x)
  <2>1. CASE x = t
    <3>1. ~Holds(o, t)'
      BY <1>p, <1>w DEF Holds
    <3> QED BY <1>2, <2>1, <3>1
  <2>2. CASE x # t
    <3>1. x \in Range(waitq'[o]) <=> x \in Range(waitq[o])
      BY <1>w, <2>2
    <3>2. pc[t] \notin {"del1", "del2"} /\ pc'[t] \notin {"del1", "del2"}
      BY <1>b, <1>p
    <3> QED BY <1>2, <1>a, <1>p, <2>2, <3>1, <3>2, HoldsKept DEF Pool
  <2> QED BY <2>1, <2>2
<1>3. AllocatorServed'
  BY <1>2, <1>a, <1>k, <1>w DEF AllocatorServed
<1> QED BY <1>1, <1>3

(* Its return: with an error nothing is taken, without one the one         *)
(* allocator takes the block.                                              *)
LEMMA ReturnKeepsServed ==
  ASSUME WokenInv, KernelInv', \A a, b \in Allocator : a = b,
         NEW t \in Thread, NEW m \in Pool, MpFail(t, m) \/ MpTakeWoken(t, m)
  PROVE  WaitInv' /\ AllocatorServed'
<1>k. /\ WaitInv /\ KernelInv' /\ KernelInv /\ AllocatorServed
      /\ pc \in [Thread -> Pc] /\ call \in [Thread -> Call]
      /\ freeCount \in [Pool -> Nat]
  BY DEF WokenInv, WaitInv, KernelInv, KernelTypeOK, Call, BlockInv, PoolTypes
<1>a. /\ current = t /\ pc[t] = "blocked" /\ call[t] = m
      /\ Goto(t, "run") /\ call' = [call EXCEPT ![t] = "none"]
      /\ UNCHANGED <<waitq, stat, err, arg>>
  BY DEF MpFail, MpTakeWoken, Resumed, At, Running, queueVars, threadVars
<1>b. stat[t] = "READY"
  BY <1>a, <1>k DEF KernelInv, CurrentOK
<1>c. \A o \in Obj : t \notin Range(waitq[o])
  BY <1>a, <1>b, <1>k, RunningThread
<1>p. /\ pc'[t] = "run" /\ call'[t] = "none"
      /\ \A x \in Thread \ {t} : UNCHANGED <<pc[x], call[x], stat[x], err[x]>>
  BY <1>a, <1>k DEF Goto
<1>1. WaitInv'
  <2>1. \A y \in Obj : \A x \in Range(waitq'[y]) : x \in Range(waitq[y]) /\ x # t /\ UNCHANGED err[x]
    BY <1>a, <1>c
  <2>2. stat'[t] # "INIT" /\ call'[t] = "none" /\ pc'[t] \notin OpPc
    BY <1>a, <1>b, <1>p DEF OpPc
  <2>3. \A x \in Thread \ {t} : UNCHANGED <<pc[x], call[x]>> /\ (stat'[x] = "INIT" => stat[x] = "INIT")
    BY <1>a, <1>p
  <2> QED BY <1>k, <2>1, <2>2, <2>3, PlacesKept
<1>2. ASSUME NEW o \in Pool, NEW x \in Thread, Holds(o, x)' PROVE Holds(o, x) /\ x # t
  <2>1. x # t
    <3>1. o # "none"
      BY KernelAssumption DEF Pool
    <3> QED BY <1>2, <1>p, <3>1 DEF Holds
  <2>2. pc[t] \notin {"del1", "del2"} /\ pc'[t] \notin {"del1", "del2"}
    BY <1>a, <1>p
  <2> QED BY <1>2, <1>a, <1>p, <2>1, <2>2, HoldsKept DEF Pool
<1>3. ASSUME NEW o \in Pool, NEW x \in Thread, Holds(o, x)' PROVE freeCount'[o] = freeCount[o]
  <2>1. CASE MpFail(t, m)
    BY <2>1 DEF MpFail
  <2>2. CASE MpTakeWoken(t, m)
    <3>1. Holds(m, t)
      BY <1>a, <1>k, <2>2, ReturningHolds DEF MpTakeWoken
    <3>2. x \in Allocator /\ t \in Allocator
      BY <1>2, <1>3, <1>k, <3>1 DEF AllocatorServed
    <3> QED BY <1>2, <1>3, <3>2
  <2> QED BY <2>1, <2>2
<1>4. AllocatorServed'
  BY <1>2, <1>3, <1>a, <1>k DEF AllocatorServed
<1> QED BY <1>1, <1>4

(* rt_mp_free: the thread it wakes finds the block that was freed. *)
LEMMA FreeKeepsServed ==
  ASSUME WokenInv, Guarded, KernelInv', NEW t \in Thread, NEW m \in Pool, NEW b \in Chunk, MpFree(t, m, b)
  PROVE  WaitInv' /\ AllocatorServed'
<1>k. /\ WaitInv /\ KernelInv' /\ KernelInv /\ AllocatorServed
      /\ pc \in [Thread -> Pc] /\ err \in [Thread -> Err] /\ stat \in [Thread -> Stat]
      /\ \A o \in Pool : Range(waitq[o]) \subseteq Thread
      /\ freeCount \in [Pool -> Nat] /\ waitq[m] \in Seq(Thread)
  BY InvQueues DEF WokenInv, WaitInv, KernelInv, KernelTypeOK, Err, BlockInv, PoolTypes, Pool
<1>f. InUser(t) /\ freeCount' = [freeCount EXCEPT ![m] = freeCount[m] + 1]
  BY DEF MpFree, CountFreed
<1>g. freeCount'[m] > 0 /\ \A o \in Pool \ {m} : freeCount'[o] = freeCount[o]
  BY <1>f, <1>k
<1>1. CASE suspended[m] > 0
  <2>w. PICK w \in Thread : w = Head(waitq[m]) /\ w \in Range(waitq[m])
    BY <1>1, <1>k, HeadRange DEF MpFree
  <2>a. /\ waitq' = UnlinkAll(waitq, w) /\ stat' = [stat EXCEPT ![w] = "READY"]
        /\ err' = [err EXCEPT ![w] = "EOK"] /\ Goto(t, "sched") /\ UNCHANGED <<arg, call>>
    BY <1>1, <2>w DEF MpFree, Wake, MakeReady
  <2>b. /\ pc[t] = "run" /\ call[t] = "none" /\ stat[t] = "READY" /\ \A o \in Pool : t \notin Range(waitq[o])
    BY <1>f, <1>k, CallerView DEF Pool
  <2>c. w # t
    BY <2>b, <2>w
  <2>p. /\ pc'[t] = "sched" /\ \A x \in Thread \ {t} : pc'[x] = pc[x]
        /\ stat'[w] = "READY" /\ \A x \in Thread \ {w} : UNCHANGED <<stat[x], err[x]>>
    BY <1>k, <2>a DEF Goto
  <2>r. \A o \in Obj : Range(waitq'[o]) = Range(waitq[o]) \ {w}
    BY <1>k, <2>a, WaitRemoved
  <2>1. WaitInv'
    <3>1. \A y \in Obj : \A x \in Range(waitq'[y]) : x \in Range(waitq[y]) /\ x # t /\ UNCHANGED err[x]
      BY <1>k, <2>b, <2>p, <2>r DEF Pool
    <3>2. stat'[t] # "INIT" /\ pc'[t] # "run" /\ pc'[t] \notin OpPc
      BY <2>b, <2>c, <2>p DEF OpPc
    <3>3. \A x \in Thread \ {t} : UNCHANGED <<pc[x], call[x]>> /\ (stat'[x] = "INIT" => stat[x] = "INIT")
      BY <2>a, <2>p
    <3> QED BY <1>k, <3>1, <3>2, <3>3, PlacesKept
  <2>2. ASSUME NEW o \in Pool, NEW x \in Thread, Holds(o, x)' PROVE Holds(o, x) \/ (o = m /\ x = w)
    <3>0. call'[x] = o /\ call[w] = m /\ o # "none"
      BY <1>k, <2>2, <2>w, WaiterFacts, KernelAssumption DEF Holds, Pool
    <3>1. CASE x = w
      BY <2>a, <3>0, <3>1
    <3>2. CASE x \notin {t, w}
      <4>1. pc[t] \notin {"del1", "del2"} /\ pc'[t] \notin {"del1", "del2"}
        BY <2>b, <2>p
      <4>2. x \in Range(waitq'[o]) <=> x \in Range(waitq[o])
        BY <2>r, <3>2 DEF Pool
      <4>3. UNCHANGED <<stat[x], err[x], arg>> /\ \A v \in Thread \ {t} : UNCHANGED <<pc[v], call[v]>>
        BY <2>a, <2>p, <3>2
      <4> QED BY <2>2, <3>2, <4>1, <4>2, <4>3, HoldsKept DEF Pool
    <3>3. CASE x = t
      BY <2>a, <2>b, <3>0, <3>3
    <3> QED BY <3>1, <3>2, <3>3
  <2>3. AllocatorServed'
    <3> SUFFICES ASSUME NEW o \in Pool, NEW x \in Thread
                 PROVE  /\ x \in Range(waitq'[o]) => x \in Allocator
                        /\ Holds(o, x)' => x \in Allocator /\ freeCount'[o] > 0
      BY DEF AllocatorServed
    <3>1. x \in Range(waitq'[o]) => x \in Range(waitq[o])
      BY <2>r DEF Pool
    <3>2. freeCount[o] > 0 => freeCount'[o] > 0
      BY <1>g
    <3> QED BY <1>g, <1>k, <2>2, <2>w, <3>1, <3>2 DEF AllocatorServed
  <2> QED BY <2>1, <2>3
<1>2. CASE ~(suspended[m] > 0)
  <2>1. UNCHANGED <<waitq, stat, err, pc, call, arg, kernelVars>>
    BY <1>2 DEF MpFree, kernelVars, queueVars, threadVars, callVars
  <2>2. WaitInv'
    <3>1. [KernelNext]_kernelVars
      BY <2>1
    <3>2. FreshOK' /\ WaitPlace' /\ PlaceOK'
      BY <1>k, <3>1, KernelKeepsFresh, KernelKeepsPlace, KernelKeepsCalls
    <3> QED BY <1>k, <3>2 DEF WaitInv
  <2>3. \A o \in Pool, x \in Thread : Holds(o, x)' <=> Holds(o, x)
    BY <2>1 DEF Holds, Deleting
  <2>4. \A o \in Pool : freeCount[o] > 0 => freeCount'[o] > 0
    BY <1>g
  <2> QED BY <1>k, <2>1, <2>2, <2>3, <2>4 DEF AllocatorServed
<1> QED BY <1>1, <1>2

(* rt_mp_detach, rt_mp_delete: what they wake returns with an error. *)
LEMMA FlushKeepsServed ==
  ASSUME WokenInv, KernelInv', NEW t \in Thread,
         (\E m \in Pool : MpDetach(t, m)) \/ MpFlush(t)
  PROVE  WaitInv' /\ AllocatorServed'
<1>k. /\ WaitInv /\ KernelInv' /\ KernelInv /\ AllocatorServed /\ FlushOK
      /\ pc \in [Thread -> Pc] /\ call \in [Thread -> Call]
      /\ err \in [Thread -> Err] /\ stat \in [Thread -> Stat]
      /\ \A o \in Pool : Range(waitq[o]) \subseteq Thread
  BY InvQueues DEF WokenInv, PoolInv, WaitInv, KernelInv, KernelTypeOK, Call, Err, Pool
<1>a. current = t /\ pc[t] \in {"run", "flush", "flushlock"} /\ UNCHANGED freeCount
  BY DEF MpDetach, MpFlush, Detach, FlushCheck, FlushWake, FlushEnd, At, InUser, Running
<1>b. stat[t] = "READY" /\ \A o \in Obj : t \notin Range(waitq[o])
  <2>1. stat[t] = "READY"
    BY <1>a, <1>k DEF KernelInv, CurrentOK
  <2> QED BY <1>a, <1>k, <2>1, RunningThread
<1>1. CASE (\E m \in Pool : Detach(t, m)) \/ FlushCheck(t) \/ FlushEnd(t)
  <2>1. /\ pc'[t] \in {"run", "flush", "flushlock"} /\ (pc'[t] = "run" => call'[t] = "none")
        /\ \A x \in Thread \ {t} : UNCHANGED <<pc[x], call[x]>>
    BY <1>1, <1>k DEF Detach, FlushCheck, FlushEnd, Goto
  <2>2. UNCHANGED <<waitq, stat, err, arg>>
    BY <1>1 DEF Detach, FlushCheck, FlushEnd, queueVars, threadVars
  <2>3. WaitInv' /\ \A o \in Obj, x \in Thread : Holds(o, x)' <=> Holds(o, x)
    BY <1>a, <1>b, <1>k, <2>1, <2>2, MoveStep
  <2> QED BY <1>a, <1>k, <2>2, <2>3, ServedKept DEF Pool
<1>2. CASE FlushWake(t)
  <2>f. call[t] \in Obj /\ waitq[call[t]] # <<>> /\ waitq[call[t]] \in Seq(Thread)
    BY <1>2, <1>k, FlushWakeStep DEF KernelInv, KernelTypeOK
  <2>o. PICK o \in Obj : o = call[t]
    BY <2>f
  <2>w. PICK w \in Thread : w = Head(waitq[o]) /\ w \in Range(waitq[o])
    BY <2>f, <2>o, HeadRange
  <2>a. /\ waitq' = UnlinkAll(waitq, w) /\ stat' = [stat EXCEPT ![w] = "READY"]
        /\ err' = [err EXCEPT ![w] = "ERROR"] /\ Goto(t, "flush") /\ UNCHANGED <<arg, call>>
    BY <1>2, <2>o, <2>w DEF FlushWake, WakeWithError, Wake, MakeReady
  <2>c. w # t /\ call[w] = o /\ pc[w] \in {"sched", "blocked"} /\ pc[t] = "flushlock"
    BY <1>2, <1>b, <1>k, <2>w, WaiterFacts DEF WaitInv, WaitPlace, FlushWake, At
  <2>p. /\ pc'[t] = "flush" /\ \A x \in Thread \ {t} : pc'[x] = pc[x]
        /\ stat'[w] = "READY" /\ err'[w] = "ERROR"
        /\ \A x \in Thread \ {w} : UNCHANGED <<stat[x], err[x]>>
    BY <1>k, <2>a DEF Goto
  <2>r. \A y \in Obj : Range(waitq'[y]) = Range(waitq[y]) \ {w}
    BY <1>k, <2>a, WaitRemoved
  <2>1. WaitInv'
    <3>1. \A y \in Obj : \A x \in Range(waitq'[y]) : x \in Range(waitq[y]) /\ x # t /\ UNCHANGED err[x]
      BY <1>b, <1>k, <2>p, <2>r DEF Pool
    <3>2. stat'[t] # "INIT" /\ pc'[t] # "run" /\ pc'[t] \notin OpPc
      BY <1>b, <2>c, <2>p DEF OpPc
    <3>3. \A x \in Thread \ {t} : UNCHANGED <<pc[x], call[x]>> /\ (stat'[x] = "INIT" => stat[x] = "INIT")
      BY <2>a, <2>p
    <3> QED BY <1>k, <3>1, <3>2, <3>3, PlacesKept
  <2>2. ASSUME NEW y \in Pool, NEW x \in Thread, Holds(y, x)' PROVE Holds(y, x)
    <3>1. x # w
      BY <2>2, <2>c, <2>p DEF Holds
    <3>2. x # t
      BY <2>2, <2>p DEF Holds
    <3>3. pc[t] \notin {"del1", "del2"} /\ pc'[t] \notin {"del1", "del2"}
      BY <2>c, <2>p
    <3>4. x \in Range(waitq'[y]) <=> x \in Range(waitq[y])
      BY <2>r, <3>1 DEF Pool
    <3>5. UNCHANGED <<stat[x], err[x], arg>> /\ \A v \in Thread \ {t} : UNCHANGED <<pc[v], call[v]>>
      BY <2>a, <2>p, <3>1
    <3> QED BY <2>2, <3>2, <3>3, <3>4, <3>5, HoldsKept DEF Pool
  <2> QED BY <1>a, <1>k, <2>1, <2>2, <2>r, ServedKept DEF Pool
<1> QED BY <1>1, <1>2 DEF MpDetach, MpFlush

(* rt_mp_init: all blocks are there. *)
LEMMA InitKeepsServed ==
  ASSUME WokenInv, KernelInv', NEW t \in Thread, NEW m \in Pool, MpInit(t, m)
  PROVE  WaitInv' /\ AllocatorServed'
<1>k. /\ WaitInv /\ KernelInv' /\ KernelInv /\ AllocatorServed /\ freeCount \in [Pool -> Nat]
      /\ \A o \in Pool : Range(waitq[o]) \subseteq Thread
  BY InvQueues DEF WokenInv, WaitInv, BlockInv, PoolTypes, Pool
<1>a. /\ InUser(t) /\ UNCHANGED <<stat, err, pc, call, arg>>
      /\ freeCount' = [freeCount EXCEPT ![m] = Cardinality(Chunk)]
  BY DEF MpInit, ObjectInit, threadVars, callVars
<1>b. pc[t] = "run" /\ call[t] = "none" /\ stat[t] = "READY" /\ \A o \in Obj : t \notin Range(waitq[o])
  BY <1>a, <1>k, CallerView
<1>w. waitq'[m] = <<>> /\ Range(waitq'[m]) = {} /\ \A x \in Obj \ {m} : waitq'[x] = waitq[x]
  <2>1. waitq'[m] = <<>> /\ \A x \in Obj \ {m} : waitq'[x] = waitq[x]
    BY <1>k, ObjectInitStep DEF MpInit, Pool
  <2> QED BY <2>1 DEF Range
<1>c. freeCount'[m] > 0 /\ \A o \in Pool \ {m} : freeCount'[o] = freeCount[o]
  <2>1. Cardinality(Chunk) \in Nat /\ Cardinality(Chunk) # 0
    BY FS_CardinalityType, FS_EmptySet, MempoolAssumption
  <2> QED BY <1>a, <1>k, <2>1
<1>1. WaitInv'
  <2>1. \A y \in Obj : \A x \in Range(waitq'[y]) : x \in Range(waitq[y]) /\ x # t /\ UNCHANGED err[x]
    BY <1>a, <1>b, <1>w
  <2>2. stat'[t] # "INIT" /\ call'[t] = "none" /\ pc'[t] \notin OpPc
    BY <1>a, <1>b DEF OpPc
  <2>3. \A x \in Thread \ {t} : UNCHANGED <<pc[x], call[x]>> /\ (stat'[x] = "INIT" => stat[x] = "INIT")
    BY <1>a
  <2> QED BY <1>k, <2>1, <2>2, <2>3, PlacesKept
<1>2. ASSUME NEW o \in Pool, NEW x \in Thread, Holds(o, x)'
      PROVE  Holds(o, x) \/ (o = m /\ x \in Range(waitq[m]))
  BY <1>2, <1>a, <1>w DEF Holds, Deleting, Pool
<1>3. AllocatorServed'
  BY <1>2, <1>c, <1>k, <1>w DEF AllocatorServed, Pool
<1> QED BY <1>1, <1>3

LEMMA WokenStepInv ==
  ASSUME WokenInv, Guarded, \A a, b \in Allocator : a = b, [Next]_vars
  PROVE  WokenInv'
<1>1. PoolInv' /\ BlockInv' /\ KernelInv'
  BY PoolStepInv, BlockStepInv DEF WokenInv, PoolInv
<1>2. CASE [KernelNext]_kernelVars /\ UNCHANGED poolVars
  <2>1. WaitInv'
    BY <1>1, <1>2, KernelKeepsFresh, KernelKeepsPlace, KernelKeepsCalls DEF WokenInv, WaitInv
  <2>2. \A m \in Pool, x \in Thread : Holds(m, x)' => Holds(m, x)
    BY <1>2, KernelFades DEF Fades, WokenInv, Pool
  <2>3. \A m \in Pool : Range(waitq'[m]) \subseteq Range(waitq[m])
    BY <1>2, KernelShrinksWaits DEF WokenInv, WaitInv, Pool
  <2>4. AllocatorServed'
    BY <1>2, <2>2, <2>3, ServedKept DEF WokenInv, poolVars
  <2> QED BY <1>1, <2>1, <2>4 DEF WokenInv
<1>3. ASSUME NEW t \in Thread, MpFlush(t) PROVE WokenInv'
  BY <1>1, <1>3, FlushKeepsServed DEF WokenInv
<1>4. ASSUME NEW t \in Thread, NEW m \in Pool, MpFail(t, m) \/ MpTakeWoken(t, m) PROVE WokenInv'
  BY <1>1, <1>4, ReturnKeepsServed DEF WokenInv
<1>5. ASSUME NEW t \in Thread \ {Idle}, MpCall(t) PROVE WokenInv'
  <2>1. PICK m \in Pool :
          \/ MpAlloc(t, m) \/ (\E n \in IF Timed THEN 0 .. MaxTime ELSE {0} : MpWait(t, m, n))
          \/ (\E b \in Chunk : MpFree(t, m, b)) \/ MpDetach(t, m) \/ MpInit(t, m)
    BY <1>5 DEF MpCall
  <2>2. WaitInv' /\ AllocatorServed'
    BY <1>1, <2>1, AllocKeepsServed, WaitKeepsServed, FreeKeepsServed, FlushKeepsServed, InitKeepsServed
  <2> QED BY <1>1, <2>2 DEF WokenInv
<1> QED BY <1>2, <1>3, <1>4, <1>5 DEF Next, vars

LEMMA WokenInitInv == Init => WokenInv
<1> SUFFICES ASSUME Init PROVE WokenInv
  OBVIOUS
<1>1. PoolInv /\ BlockInv
  BY PoolInitInv, BlockInitInv
<1>2. /\ waitq = [m \in Pool |-> <<>>] /\ call = [x \in Thread |-> "none"]
  BY DEF Init, KernelInit, Pool
<1>3. \A m \in Pool : Range(waitq[m]) = {} /\ m # "none"
  BY <1>2, KernelAssumption DEF Range, Pool
<1>4. WaitInv /\ AllocatorServed
  BY <1>1, <1>2, <1>3 DEF WaitInv, FreshOK, PlaceOK, WaitPlace, PoolInv, AllocatorServed, Holds, Pool
<1> QED BY <1>1, <1>4 DEF WokenInv

(* A thread that rt_mp_free has woken finds a block when it runs again,    *)
(* though another free, a flush, a timeout or a re-initialised pool comes  *)
(* in between, when one thread only allocates.  With two, the other one    *)
(* may take the block first.                                               *)
THEOREM WokenThreadsFindBlocks ==
  Guarded /\ (\A a, b \in Allocator : a = b) => (Spec => []WokenFindsBlock)
<1> SUFFICES ASSUME Guarded, \A a, b \in Allocator : a = b PROVE Spec => []WokenFindsBlock
  OBVIOUS
<1>1. Init => WokenInv
  BY WokenInitInv
<1>2. WokenInv /\ [Next]_vars => WokenInv'
  BY WokenStepInv
<1>3. WokenInv => WokenFindsBlock
  BY ReturningHolds DEF WokenInv, AllocatorServed, WokenFindsBlock
<1> QED BY <1>1, <1>2, <1>3, PTL DEF Spec

(***************************************************************************)
(* The pool of a message queue: linked lists as sequences.                 *)
(***************************************************************************)

(* The messages of c are linked in this order, from s on. *)
Linked(s, nx, c) ==
  /\ c \in Seq(Slot) /\ IsInjective(c)
  /\ s = IF c = <<>> THEN NoSlot ELSE c[1]
  /\ \A i \in 1 .. Len(c) : nx[c[i]] = IF i = Len(c) THEN NoSlot ELSE c[i + 1]

LEMMA LinkedView ==
  ASSUME NEW s, NEW nx, NEW c, Linked(s, nx, c)
  PROVE  /\ c \in Seq(Slot) /\ DOMAIN c = 1 .. Len(c) /\ Len(c) \in Nat
         /\ \A i \in 1 .. Len(c) : c[i] \in Slot /\ c[i] \in Range(c)
         /\ \A i, j \in 1 .. Len(c) : c[i] = c[j] => i = j
         /\ Range(c) \subseteq Slot /\ NoSlot \notin Range(c)
         /\ c = <<>> <=> s = NoSlot
         /\ c = <<>> <=> Len(c) = 0
         /\ c # <<>> => s = c[1] /\ s \in Range(c) /\ s \in Slot
<1>1. c \in Seq(Slot) /\ DOMAIN c = 1 .. Len(c) /\ Len(c) \in Nat /\ \A i \in 1 .. Len(c) : c[i] \in Slot
  BY LenProperties DEF Linked
<1>2. \A i \in 1 .. Len(c) : c[i] \in Range(c)
  BY <1>1 DEF Range
<1>3. Range(c) \subseteq Slot
  BY <1>1, HeadRange
<1>4. NoSlot \notin Slot
  BY MessageQueueAssumption
<1>5. c = <<>> <=> Len(c) = 0
  BY <1>1, EmptySeq
<1>6. ASSUME c # <<>> PROVE s = c[1] /\ 1 \in 1 .. Len(c)
  <2>1. s = c[1]
    BY <1>6 DEF Linked
  <2>2. 1 \in 1 .. Len(c)
    BY <1>1, <1>5, <1>6
  <2> QED BY <2>1, <2>2
<1>7. ASSUME c # <<>> PROVE s = c[1] /\ s \in Range(c) /\ s \in Slot
  BY <1>1, <1>2, <1>6, <1>7
<1>8. c = <<>> => s = NoSlot
  BY SMTT(60) DEF Linked
<1>9. \A i, j \in 1 .. Len(c) : c[i] = c[j] => i = j
  BY <1>1 DEF Linked, IsInjective
<1> QED BY <1>1, <1>2, <1>3, <1>4, <1>5, <1>7, <1>8, <1>9

(* Links of other messages do not matter. *)
LEMMA LinkedKept ==
  ASSUME NEW s, NEW nx, NEW ny, NEW c, Linked(s, nx, c), \A i \in Range(c) : ny[i] = nx[i]
  PROVE  Linked(s, ny, c)
<1>1. \A i \in 1 .. Len(c) : c[i] \in Range(c)
  BY ONLY Linked(s, nx, c), LinkedView
<1>2. \A i \in 1 .. Len(c) : ny[c[i]] = nx[c[i]]
  BY <1>1
<1> QED BY <1>2 DEF Linked

(* The first message is taken off.                                         *)
LEMMA LinkedTail ==
  ASSUME NEW s, NEW nx, NEW c, Linked(s, nx, c), s # NoSlot
  PROVE  /\ Linked(nx[s], nx, Tail(c)) /\ Range(Tail(c)) = Range(c) \ {s}
         /\ Len(Tail(c)) = Len(c) - 1
         /\ \A i \in 1 .. Len(c) - 1 : Tail(c)[i] = c[i + 1]
<1>1. /\ c \in Seq(Slot) /\ DOMAIN c = 1 .. Len(c) /\ Len(c) \in Nat /\ c # <<>> /\ Len(c) # 0 /\ s = c[1]
  BY LinkedView
<1>2. /\ Tail(c) \in Seq(Slot) /\ Len(Tail(c)) = Len(c) - 1
      /\ \A i \in 1 .. Len(Tail(c)) : Tail(c)[i] = c[i + 1]
  BY <1>1, HeadTailProperties
<1>3. IsInjective(c) /\ \A i \in 1 .. Len(c) : nx[c[i]] = IF i = Len(c) THEN NoSlot ELSE c[i + 1]
  BY SMTT(60) DEF Linked
<1>4. Tail(c) \in Seq(Slot) /\ IsInjective(Tail(c)) /\ Range(Tail(c)) \subseteq Range(c) \ {s}
  <2>1. Head(c) = s
    BY <1>1
  <2> QED BY <1>1, <1>3, <2>1, TailRange
<1>5. DOMAIN Tail(c) = 1 .. Len(c) - 1 /\ (Tail(c) = <<>> <=> Len(c) = 1)
  <2>1. Tail(c) = <<>> <=> Len(Tail(c)) = 0
    BY <1>2, EmptySeq
  <2> QED BY <1>1, <1>2, <2>1, LenProperties
<1>6. ASSUME NEW x \in Range(c) \ {s} PROVE x \in Range(Tail(c))
  <2>1. PICK i \in 1 .. Len(c) : c[i] = x
    BY <1>1 DEF Range
  <2>2. i # 1
    BY <1>1, <2>1
  <2>3. PICK j : j = i - 1
    OBVIOUS
  <2>4. j \in 1 .. Len(c) - 1 /\ j + 1 = i
    BY <1>1, <2>2, <2>3
  <2>5. Tail(c)[j] = x
    BY <1>2, <2>1, <2>4
  <2>6. j \in DOMAIN Tail(c)
    BY <1>5, <2>4
  <2> QED BY <2>5, <2>6 DEF Range
<1>7. nx[s] = IF Tail(c) = <<>> THEN NoSlot ELSE Tail(c)[1]
  <2>0. 1 \in 1 .. Len(c) /\ 1 + 1 = 2
    BY <1>1
  <2>1. nx[c[1]] = IF 1 = Len(c) THEN NoSlot ELSE c[1 + 1]
    BY <1>3, <2>0
  <2>2. Len(c) # 1 => Tail(c)[1] = c[2]
    <3> SUFFICES ASSUME Len(c) # 1 PROVE Tail(c)[1] = c[2]
      OBVIOUS
    <3>1. 1 \in 1 .. Len(Tail(c))
      BY <1>1, <1>2
    <3> QED BY <1>2, <3>1
  <2> QED BY <1>1, <1>5, <2>0, <2>1, <2>2
<1>8. ASSUME NEW i \in 1 .. Len(Tail(c))
      PROVE  nx[Tail(c)[i]] = IF i = Len(Tail(c)) THEN NoSlot ELSE Tail(c)[i + 1]
  <2>1. i + 1 \in 1 .. Len(c) /\ Tail(c)[i] = c[i + 1]
    BY <1>1, <1>2, <1>8
  <2>2. nx[c[i + 1]] = IF i + 1 = Len(c) THEN NoSlot ELSE c[(i + 1) + 1]
    BY ONLY <1>3, <2>1
  <2>3. CASE i = Len(Tail(c))
    BY <1>1, <1>2, <2>1, <2>2, <2>3
  <2>4. CASE i # Len(Tail(c))
    <3>1. i + 1 \in 1 .. Len(Tail(c)) /\ i + 1 # Len(c)
      <4>1. Len(Tail(c)) = Len(c) - 1 /\ Len(c) \in Nat /\ i \in 1 .. Len(Tail(c))
        BY ONLY <1>1, <1>2, <1>8
      <4> QED BY ONLY <2>4, <4>1
    <3>2. Tail(c)[i + 1] = c[(i + 1) + 1]
      BY ZenonT(60), <1>2, <3>1
    <3> QED BY <2>1, <2>2, <2>4, <3>1, <3>2
  <2> QED BY <2>3, <2>4
<1> QED BY ZenonT(60), <1>2, <1>4, <1>6, <1>7, <1>8 DEF Linked

(* A message is put in front.                                              *)
LEMMA LinkedCons ==
  ASSUME NEW s, NEW nx, NEW ny, NEW c, Linked(s, nx, c), NEW k \in Slot, k \notin Range(c),
         ny[k] = s, \A i \in Range(c) : ny[i] = nx[i]
  PROVE  /\ Linked(k, ny, <<k>> \o c) /\ Range(<<k>> \o c) = Range(c) \cup {k}
         /\ Len(<<k>> \o c) = Len(c) + 1
         /\ \A j \in 1 .. Len(c) + 1 : (<<k>> \o c)[j] = IF j = 1 THEN k ELSE c[j - 1]
<1>1. /\ c \in Seq(Slot) /\ DOMAIN c = 1 .. Len(c) /\ Len(c) \in Nat /\ (c = <<>> <=> Len(c) = 0)
      /\ c # <<>> => s = c[1]
      /\ c = <<>> => s = NoSlot
  BY LinkedView
<1>2. IsInjective(c) /\ \A i \in 1 .. Len(c) : ny[c[i]] = IF i = Len(c) THEN NoSlot ELSE c[i + 1]
  BY LinkedKept DEF Linked
<1> DEFINE d == <<k>> \o c
<1>3. d \in Seq(Slot) /\ IsInjective(d) /\ Range(d) = Range(c) \cup {k}
  BY <1>1, <1>2, PrependRange
<1>4. /\ Len(d) = Len(c) + 1
      /\ \A j \in 1 .. Len(c) + 1 : d[j] = IF j = 1 THEN k ELSE c[j - 1]
  <2>1. <<k>> \in Seq(Slot) /\ Len(<<k>>) = 1 /\ <<k>>[1] = k
    OBVIOUS
  <2>2. Len(d) = 1 + Len(c) /\ \A j \in 1 .. 1 + Len(c) : d[j] = IF j <= 1 THEN <<k>>[j] ELSE c[j - 1]
    BY <1>1, <2>1, ConcatProperties
  <2> HIDE DEF d
  <2> QED BY <1>1, <2>1, <2>2
<1> HIDE DEF d
<1>5. d # <<>> /\ d[1] = k
  BY <1>1, <1>3, <1>4, EmptySeq
<1>6. ASSUME NEW i \in 1 .. Len(d) PROVE ny[d[i]] = IF i = Len(d) THEN NoSlot ELSE d[i + 1]
  <2>1. CASE i = 1
    <3>1. CASE Len(c) = 0
      BY <1>1, <1>4, <1>5, <2>1, <3>1
    <3>2. CASE Len(c) # 0
      <4>1. 2 \in 1 .. Len(c) + 1 /\ i # Len(d)
        BY <1>1, <1>4, <2>1, <3>2
      <4>2. d[2] = c[1]
        BY <1>4, <4>1
      <4> QED BY <1>1, <1>5, <2>1, <3>2, <4>1, <4>2
    <3> QED BY <3>1, <3>2
  <2>2. CASE i # 1
    <3>1. i - 1 \in 1 .. Len(c) /\ d[i] = c[i - 1]
      BY <1>1, <1>4, <2>2
    <3>2. ny[c[i - 1]] = IF i - 1 = Len(c) THEN NoSlot ELSE c[(i - 1) + 1]
      BY <1>2, <3>1
    <3>3. CASE i = Len(d)
      BY <1>1, <1>4, <3>1, <3>2, <3>3
    <3>4. CASE i # Len(d)
      <4>1. i + 1 \in 1 .. Len(c) + 1 /\ i + 1 # 1 /\ i - 1 # Len(c) /\ (i + 1) - 1 = (i - 1) + 1
        BY <1>1, <1>4, <2>2, <3>4
      <4>2. d[i + 1] = c[(i - 1) + 1]
        BY <1>4, <4>1
      <4> QED BY <3>1, <3>2, <3>4, <4>1, <4>2
    <3> QED BY <3>3, <3>4
  <2> QED BY <2>1, <2>2
<1> QED BY <1>3, <1>4, <1>5, <1>6 DEF Linked, d

(* A message is put at the end.                                            *)
LEMMA LinkedAppend ==
  ASSUME NEW s, NEW nx, NEW ny, NEW c, Linked(s, nx, c), NEW k \in Slot, k \notin Range(c),
         ny[k] = NoSlot, c # <<>> => ny[c[Len(c)]] = k,
         \A i \in Range(c) : i = c[Len(c)] \/ ny[i] = nx[i],
         NEW z, z = IF s = NoSlot THEN k ELSE s
  PROVE  /\ Linked(z, ny, Append(c, k))
         /\ Range(Append(c, k)) = Range(c) \cup {k}
         /\ Len(Append(c, k)) = Len(c) + 1 /\ Append(c, k)[Len(c) + 1] = k /\ Append(c, k) # <<>>
<1>1. /\ c \in Seq(Slot) /\ DOMAIN c = 1 .. Len(c) /\ Len(c) \in Nat /\ (c = <<>> <=> Len(c) = 0)
      /\ c # <<>> => s = c[1]
      /\ c = <<>> <=> s = NoSlot
  BY LinkedView
<1>2. IsInjective(c) /\ \A i \in 1 .. Len(c) : nx[c[i]] = IF i = Len(c) THEN NoSlot ELSE c[i + 1]
  BY DEF Linked
<1> DEFINE d == Append(c, k)
<1>3. d \in Seq(Slot) /\ IsInjective(d) /\ Range(d) = Range(c) \cup {k} /\ d # <<>>
  <2>1. c \in Seq(Slot) /\ IsInjective(c) /\ k \in Slot /\ k \notin Range(c)
    BY <1>1, <1>2
  <2> QED BY ONLY SMTT(60), <2>1, AppendRange
<1>4. Len(d) = Len(c) + 1 /\ (\A i \in 1 .. Len(c) : d[i] = c[i]) /\ d[Len(c) + 1] = k
  BY <1>1, AppendProperties
<1> HIDE DEF d
<1>5. d[1] = z
  <2>1. CASE c = <<>>
    BY <1>1, <1>4, <2>1
  <2>2. CASE c # <<>>
    <3>1. 1 \in 1 .. Len(c)
      BY <1>1, <2>2
    <3> QED BY <1>1, <1>4, <2>2, <3>1
  <2> QED BY <2>1, <2>2
<1>6. ASSUME NEW i \in 1 .. Len(d) PROVE ny[d[i]] = IF i = Len(d) THEN NoSlot ELSE d[i + 1]
  <2>1. CASE i = Len(d)
    BY <1>4, <2>1
  <2>2. CASE i = Len(c)
    <3>1. i \in 1 .. Len(c) /\ c # <<>> /\ i # Len(d) /\ i + 1 = Len(c) + 1
      <4>1. i \in 1 .. Len(d) /\ Len(d) = Len(c) + 1 /\ Len(c) \in Nat /\ (c = <<>> <=> Len(c) = 0)
        BY <1>1, <1>4
      <4> QED BY <2>2, <4>1
    <3>2. d[i] = c[Len(c)] /\ d[i + 1] = k
      BY <1>4, <2>2, <3>1
    <3> QED BY <3>1, <3>2
  <2>3. CASE i \notin {Len(c), Len(d)}
    <3>1. i \in 1 .. Len(c) - 1 /\ i \in 1 .. Len(c) /\ i + 1 \in 1 .. Len(c)
      BY <1>1, <1>4, <2>3
    <3>2. d[i] = c[i] /\ d[i + 1] = c[i + 1]
      BY <1>4, <3>1
    <3>3. c[i] \in Range(c) /\ c[i] # c[Len(c)]
      <4>1. i # Len(c) /\ Len(c) \in 1 .. Len(c)
        BY <1>1, <3>1
      <4> QED BY <3>1, <4>1, LinkedView
    <3>4. ny[c[i]] = nx[c[i]]
      BY <3>3
    <3> QED BY <1>2, <2>3, <3>1, <3>2, <3>4
  <2> QED BY <2>1, <2>2, <2>3
<1> QED BY <1>3, <1>4, <1>5, <1>6 DEF Linked, d

(* The messages g[1], ... g[n] are put in front, each before the last.     *)
Downward(n, g, ny, f, d) ==
  /\ \A i, j \in 1 .. n : g[i] = g[j] => i = j
  /\ \A i \in 1 .. n : /\ g[i] \in Slot /\ g[i] \notin Range(d)
                       /\ ny[g[i]] = IF i = 1 THEN f ELSE g[i - 1]

LEMMA LinkedDown ==
  ASSUME NEW n \in Nat, NEW g, NEW f, NEW ny, NEW d, Downward(n, g, ny, f, d), Linked(f, ny, d),
         NEW z, z = IF n = 0 THEN f ELSE g[n]
  PROVE  \E e : Linked(z, ny, e) /\ Range(e) = Range(d) \cup {g[i] : i \in 1 .. n}
<1>h. /\ \A i, j \in 1 .. n : g[i] = g[j] => i = j
      /\ \A i \in 1 .. n : g[i] \in Slot /\ g[i] \notin Range(d) /\ ny[g[i]] = IF i = 1 THEN f ELSE g[i - 1]
  BY DEF Downward
<1> DEFINE First(k) == IF k = 0 THEN f ELSE g[k]
           Upto(k) == {g[i] : i \in 1 .. k}
           P == {k \in 0 .. n : \E e : Linked(First(k), ny, e) /\ Range(e) = Range(d) \cup Upto(k)}
<1>1. 0 \in P
  <2>1. Upto(0) = {} /\ First(0) = f
    OBVIOUS
  <2>2. Linked(First(0), ny, d) /\ Range(d) = Range(d) \cup Upto(0)
    BY <2>1
  <2>3. \E e : Linked(First(0), ny, e) /\ Range(e) = Range(d) \cup Upto(0)
    BY <2>2
  <2> HIDE DEF Upto, First
  <2> QED BY <2>3
<1>2. ASSUME NEW k \in 1 .. n, k - 1 \in P PROVE k \in P
  <2>1. PICK e : Linked(First(k - 1), ny, e) /\ Range(e) = Range(d) \cup Upto(k - 1)
    BY <1>2
  <2>2. g[k] \in Slot /\ ny[g[k]] = First(k - 1) /\ First(k) = g[k]
    BY <1>h
  <2>3. g[k] \notin Upto(k - 1) /\ g[k] \notin Range(d)
    BY <1>h
  <2>4. Upto(k) = Upto(k - 1) \cup {g[k]}
    OBVIOUS
  <2>5. g[k] \notin Range(e)
    BY <2>1, <2>3
  <2> HIDE DEF Upto, First
  <2>6. Linked(g[k], ny, <<g[k]>> \o e) /\ Range(<<g[k]>> \o e) = Range(e) \cup {g[k]}
    <3>1. PICK u, v : u = g[k] /\ v = First(k - 1)
      OBVIOUS
    <3>2. Linked(v, ny, e) /\ u \in Slot /\ u \notin Range(e) /\ ny[u] = v
      BY <2>1, <2>2, <2>5, <3>1
    <3>3. Linked(u, ny, <<u>> \o e) /\ Range(<<u>> \o e) = Range(e) \cup {u}
      BY <3>2, LinkedCons
    <3> QED BY <3>1, <3>3
  <2>7. \E w : Linked(First(k), ny, w) /\ Range(w) = Range(d) \cup Upto(k)
    BY <2>1, <2>2, <2>4, <2>6
  <2> QED BY <2>7
<1> HIDE DEF P
<1>3. 0 .. n \subseteq P
  BY <1>1, <1>2, Stepwise
<1>4. n \in P
  BY <1>3
<1> QED BY <1>4 DEF P

(* A list has as many messages as it is long.                              *)
LEMMA LinkedSize ==
  ASSUME NEW s, NEW nx, NEW c, Linked(s, nx, c)
  PROVE  IsFiniteSet(Range(c)) /\ Cardinality(Range(c)) = Len(c)
<1>1. DOMAIN c = 1 .. Len(c) /\ Len(c) \in Nat /\ (\A i, j \in 1 .. Len(c) : c[i] = c[j] => i = j) /\ c \in Seq(Slot)
  BY LinkedView
<1>2. IsFiniteSet(1 .. Len(c)) /\ Cardinality(1 .. Len(c)) = Len(c)
  BY SMTT(60), <1>1, FS_Interval
<1> DEFINE h == [i \in 1 .. Len(c) |-> c[i]]
<1>3. h \in [1 .. Len(c) -> Range(c)]
  BY <1>1 DEF Range
<1>4. \A x \in Range(c) : \E i \in 1 .. Len(c) : h[i] = x
  BY <1>1 DEF Range
<1>5. \A i, j \in 1 .. Len(c) : h[i] = h[j] => i = j
  BY <1>1
<1> HIDE DEF h
<1>6. h \in Bijection(1 .. Len(c), Range(c))
  <2>1. h \in Injection(1 .. Len(c), Range(c))
    BY <1>3, <1>5 DEF Injection, IsInjective
  <2>2. h \in Surjection(1 .. Len(c), Range(c))
    BY <1>3, <1>4 DEF Surjection
  <2> QED BY <2>1, <2>2 DEF Bijection
<1>7. ExistsBijection(1 .. Len(c), Range(c))
  BY <1>6 DEF ExistsBijection
<1> QED BY <1>2, <1>7, FS_Bijection

(* What follows the links from s on finds these messages.                  *)
LEMMA LinkedChain ==
  ASSUME NEW q \in Mq, NEW s, NEW c, Linked(s, next[q], c)
  PROVE  Chain(s, q) = c
<1> DEFINE n == Cardinality(Slot)
           after(b) == IF b = <<>> THEN s ELSE next[q][Last(b)]
           Onward(b) == IF after(b) = NoSlot THEN b ELSE Append(b, after(b))
           Upto(k) == SubSeq(c, 1, IF k <= Len(c) THEN k ELSE Len(c))
<1>1. /\ c \in Seq(Slot) /\ DOMAIN c = 1 .. Len(c) /\ Len(c) \in Nat
      /\ (\A i \in 1 .. Len(c) : c[i] \in Slot) /\ Range(c) \subseteq Slot
      /\ (c = <<>> <=> s = NoSlot) /\ (c = <<>> <=> Len(c) = 0) /\ (c # <<>> => s = c[1])
  BY LinkedView
<1>2. n \in Nat /\ Len(c) <= n /\ NoSlot \notin Slot
  <2>1. IsFiniteSet(Slot) /\ NoSlot \notin Slot
    BY FS_Interval, MessageQueueAssumption
  <2>2. n \in Nat
    BY <2>1, FS_CardinalityType
  <2>3. Cardinality(Range(c)) <= n
    BY <1>1, <2>1, FS_Subset
  <2> QED BY <2>1, <2>2, <2>3, LinkedSize
<1>3. \A i \in 1 .. Len(c) : next[q][c[i]] = IF i = Len(c) THEN NoSlot ELSE c[i + 1]
  BY DEF Linked
<1>4. ASSUME NEW k \in 0 .. n
      PROVE  /\ Upto(k) \in Seq(Slot) /\ Len(Upto(k)) = IF k <= Len(c) THEN k ELSE Len(c)
             /\ \A i \in 1 .. Len(Upto(k)) : Upto(k)[i] = c[i]
  <2>0. k \in Nat /\ Len(c) \in Nat
    BY <1>1, <1>2
  <2>1. PICK m \in Int : m = (IF k <= Len(c) THEN k ELSE Len(c)) /\ m \in 0 .. Len(c)
    <3>1. (IF k <= Len(c) THEN k ELSE Len(c)) \in Int /\ (IF k <= Len(c) THEN k ELSE Len(c)) \in 0 .. Len(c)
      BY <2>0
    <3> QED BY <3>1
  <2>2. \A i \in 1 .. m : c[i] \in Slot
    <3>1. \A i \in 1 .. m : i \in 1 .. Len(c)
      BY <2>0, <2>1
    <3> QED BY <1>1, <3>1
  <2>3. /\ SubSeq(c, 1, m) \in Seq(Slot) /\ Len(SubSeq(c, 1, m)) = IF 1 <= m THEN m - 1 + 1 ELSE 0
        /\ \A i \in 1 .. m - 1 + 1 : SubSeq(c, 1, m)[i] = c[1 + i - 1]
    BY <2>2, SubSeqProperties
  <2>4. Len(SubSeq(c, 1, m)) = m /\ m - 1 + 1 = m
    BY <2>1, <2>3
  <2>5. \A i \in 1 .. m : SubSeq(c, 1, m)[i] = c[i]
    BY <2>3, <2>4
  <2>6. Upto(k) = SubSeq(c, 1, m)
    BY <2>1
  <2> HIDE DEF Upto
  <2> QED BY <2>1, <2>3, <2>4, <2>5, <2>6
<1> HIDE DEF Upto
<1>5. Upto(0) = <<>>
  <2>1. Upto(0) \in Seq(Slot) /\ Len(Upto(0)) = 0
    BY <1>1, <1>2, <1>4
  <2> QED BY <2>1, EmptySeq
<1>6. ASSUME NEW k \in 0 .. n, k >= Len(c) PROVE Upto(k) = c
  <2>1. Len(Upto(k)) = Len(c)
    BY <1>1, <1>2, <1>4, <1>6
  <2> QED BY <1>1, <1>4, <2>1, SeqEqual
<1>7. ASSUME NEW k \in 1 .. n PROVE Upto(k) = Onward(Upto(k - 1))
  <2>1. k - 1 \in 0 .. n /\ k \in 0 .. n
    BY <1>2
  <2>2. PICK b : b = Upto(k - 1)
    OBVIOUS
  <2>3. /\ b \in Seq(Slot) /\ Len(b) = (IF k - 1 <= Len(c) THEN k - 1 ELSE Len(c))
        /\ \A i \in 1 .. Len(b) : b[i] = c[i]
    BY <1>4, <2>1, <2>2
  <2>4. b = <<>> <=> Len(b) = 0
    BY <2>3, EmptySeq
  <2>5. CASE k > Len(c)
    <3>1. b = c /\ Upto(k) = c
      <4>1. k - 1 >= Len(c) /\ k >= Len(c)
        BY <1>1, <1>2, <2>5
      <4> QED BY <1>6, <2>1, <2>2, <4>1
    <3>2. after(c) = NoSlot
      <4>1. CASE c = <<>>
        BY <1>1, <4>1
      <4>2. CASE c # <<>>
        <5>1. Len(c) \in 1 .. Len(c) /\ Last(c) = c[Len(c)]
          BY <1>1, <4>2 DEF Last
        <5> QED BY <1>3, <4>2, <5>1
      <4> QED BY <4>1, <4>2
    <3> QED BY <2>2, <3>1, <3>2
  <2>6. CASE k <= Len(c)
    <3>1. k \in 1 .. Len(c) /\ Len(b) = k - 1
      BY <1>1, <1>2, <2>3, <2>6
    <3>2. after(b) = c[k]
      <4>1. CASE k = 1
        BY <1>1, <2>4, <2>6, <3>1, <4>1
      <4>2. CASE k # 1
        <5>1. k - 1 \in 1 .. Len(c) /\ k - 1 \in 1 .. Len(b) /\ k - 1 # Len(c) /\ (k - 1) + 1 = k /\ b # <<>>
          BY <1>1, <2>4, <3>1, <4>2
        <5>2. Last(b) = c[k - 1]
          BY <2>3, <3>1, <5>1 DEF Last
        <5>3. next[q][c[k - 1]] = c[k]
          BY <1>3, <5>1
        <5> QED BY <5>1, <5>2, <5>3
      <4> QED BY <4>1, <4>2
    <3>3. c[k] \in Slot /\ c[k] # NoSlot
      BY <1>1, <1>2, <3>1
    <3>4. Onward(b) = Append(b, c[k])
      BY <3>2, <3>3
    <3>5. /\ Append(b, c[k]) \in Seq(Slot) /\ Len(Append(b, c[k])) = Len(b) + 1
          /\ \A i \in 1 .. Len(b) : Append(b, c[k])[i] = b[i]
          /\ Append(b, c[k])[Len(b) + 1] = c[k]
      BY <2>3, <3>3, AppendProperties
    <3>6. /\ Upto(k) \in Seq(Slot) /\ Len(Upto(k)) = k
          /\ \A i \in 1 .. k : Upto(k)[i] = c[i]
      BY <1>4, <2>1, <2>6
    <3>7. (k - 1) + 1 = k /\ \A i \in 1 .. k : i = k \/ i \in 1 .. k - 1
      BY <3>1
    <3>8. \A i \in 1 .. k : Append(b, c[k])[i] = c[i]
      BY <2>3, <3>1, <3>5, <3>7
    <3>9. Upto(k) = Append(b, c[k])
      BY <3>1, <3>5, <3>6, <3>7, <3>8, SeqEqual
    <3> QED BY <2>2, <3>4, <3>9
  <2> QED BY <1>1, <2>1, <2>5, <2>6
<1> HIDE DEF Onward
<1> DEFINE F == CHOOSE f : f = [i \in 0 .. n |-> IF i = 0 THEN <<>> ELSE Onward(f[i - 1])]
<1>8. F = [i \in 0 .. n |-> IF i = 0 THEN <<>> ELSE Onward(F[i - 1])]
  <2> DEFINE h == [i \in 0 .. n |-> Upto(i)]
  <2>1. h[0] = <<>> /\ \A k \in 1 .. n : h[k] = Onward(h[k - 1])
    BY <1>2, <1>5, <1>7
  <2>2. h = [i \in 0 .. n |-> IF i = 0 THEN <<>> ELSE Onward(h[i - 1])]
    <3>1. ASSUME NEW i \in 0 .. n PROVE h[i] = IF i = 0 THEN <<>> ELSE Onward(h[i - 1])
      <4>1. i = 0 \/ i \in 1 .. n
        BY <1>2
      <4> HIDE DEF h
      <4> QED BY <2>1, <4>1
    <3> QED BY <3>1
  <2> HIDE DEF h
  <2> QED BY <2>2
<1> HIDE DEF F
<1>9. Chain(s, q) = F[n]
  BY DEF Chain, F, Onward
<1> DEFINE P == {k \in 0 .. n : F[k] = Upto(k)}
<1>10. 0 \in P
  BY <1>2, <1>5, <1>8
<1>11. ASSUME NEW k \in 1 .. n, k - 1 \in P PROVE k \in P
  <2>1. k \in 0 .. n /\ k # 0 /\ F[k - 1] = Upto(k - 1)
    BY <1>2, <1>11
  <2>2. F[k] = Onward(F[k - 1])
    BY <1>8, <2>1
  <2> QED BY <1>7, <2>1, <2>2
<1>12. n \in P
  <2>1. 0 .. n \subseteq P
    <3> HIDE DEF P, n
    <3> QED BY <1>2, <1>10, <1>11, Stepwise
  <2>2. n \in 0 .. n
    BY <1>2
  <2> HIDE DEF P, n
  <2> QED BY <2>1, <2>2
<1>13. n \in 0 .. n /\ n >= Len(c)
  BY <1>2
<1> HIDE DEF n
<1> QED BY <1>6, <1>9, <1>12, <1>13

(* The queue is c, the free list d, and the calls that copy hold hs.       *)
Pooled(h, e, f, nx, n, hs, c, d) ==
  /\ Linked(h, nx, c) /\ Linked(f, nx, d)
  /\ Range(c) \cap Range(d) = {} /\ hs \cap (Range(c) \cup Range(d)) = {}
  /\ Range(c) \cup Range(d) \cup hs = Slot
  /\ n = Len(c) /\ e = IF c = <<>> THEN NoSlot ELSE c[Len(c)]

LEMMA PooledView ==
  ASSUME NEW h, NEW e, NEW f, NEW nx, NEW n, NEW hs, NEW c, NEW d, Pooled(h, e, f, nx, n, hs, c, d)
  PROVE  /\ Linked(h, nx, c) /\ Linked(f, nx, d) /\ NoSlot \notin Slot /\ hs \subseteq Slot
         /\ Range(c) \cap Range(d) = {} /\ hs \cap (Range(c) \cup Range(d)) = {}
         /\ Range(c) \cup Range(d) \cup hs = Slot
         /\ n = Len(c) /\ Len(c) \in Nat /\ (c = <<>> <=> Len(c) = 0)
         /\ (c = <<>> <=> h = NoSlot) /\ (c = <<>> <=> e = NoSlot)
         /\ (c # <<>> => e = c[Len(c)] /\ e \in Range(c) /\ h = c[1] /\ h \in Range(c))
         /\ (d # <<>> <=> f # NoSlot) /\ (f # NoSlot => f \in Range(d))
         /\ h \in Slot \cup {NoSlot} /\ e \in Slot \cup {NoSlot} /\ f \in Slot \cup {NoSlot}
<1>1. /\ Linked(h, nx, c) /\ Linked(f, nx, d)
      /\ Range(c) \cap Range(d) = {} /\ hs \cap (Range(c) \cup Range(d)) = {}
      /\ Range(c) \cup Range(d) \cup hs = Slot
      /\ n = Len(c) /\ e = IF c = <<>> THEN NoSlot ELSE c[Len(c)]
  BY DEF Pooled
<1>2. /\ Len(c) \in Nat /\ (c = <<>> <=> Len(c) = 0) /\ (c = <<>> <=> h = NoSlot)
      /\ \A i \in 1 .. Len(c) : c[i] \in Range(c)
      /\ c # <<>> => h = c[1] /\ h \in Range(c)
  BY <1>1, LinkedView
<1>3. (d = <<>> <=> f = NoSlot) /\ (d # <<>> => f \in Range(d))
  BY <1>1, LinkedView
<1>4. NoSlot \notin Slot
  BY MessageQueueAssumption
<1>5. c # <<>> => e = c[Len(c)] /\ e \in Range(c)
  BY <1>1, <1>2
<1> QED BY <1>1, <1>2, <1>3, <1>4, <1>5

(* The first free message is taken.                                        *)
LEMMA PooledTake ==
  ASSUME NEW h, NEW e, NEW f, NEW nx, NEW n, NEW hs, NEW c, NEW d, Pooled(h, e, f, nx, n, hs, c, d),
         f # NoSlot
  PROVE  f \in Slot \ hs /\ Pooled(h, e, nx[f], nx, n, hs \cup {f}, c, Tail(d))
<1>1. f \in Slot /\ f \notin hs /\ f \notin Range(c) /\ f \in Range(d)
  BY PooledView
<1>2. Linked(nx[f], nx, Tail(d)) /\ Range(Tail(d)) = Range(d) \ {f}
  BY PooledView, LinkedTail
<1> QED BY <1>1, <1>2 DEF Pooled

(* The first message of the queue is taken off.                            *)
LEMMA PooledUnlink ==
  ASSUME NEW h, NEW e, NEW f, NEW nx, NEW n, NEW hs, NEW c, NEW d, Pooled(h, e, f, nx, n, hs, c, d),
         n > 0, NEW z, z = IF e = h THEN NoSlot ELSE e
  PROVE  /\ h \in Slot \ hs
         /\ Pooled(nx[h], z, f, nx, n - 1, hs \cup {h}, Tail(c), d)
<1>1. Len(c) \in Nat /\ Len(c) > 0 /\ c # <<>> /\ n = Len(c) /\ e = c[Len(c)] /\ h = c[1] /\ h # NoSlot
  BY PooledView
<1>2. h \in Slot /\ h \notin hs /\ h \notin Range(d) /\ h \in Range(c)
  BY <1>1, PooledView
<1>3. /\ Linked(nx[h], nx, Tail(c)) /\ Range(Tail(c)) = Range(c) \ {h} /\ Len(Tail(c)) = Len(c) - 1
      /\ \A i \in 1 .. Len(c) - 1 : Tail(c)[i] = c[i + 1]
  BY <1>1, PooledView, LinkedTail
<1>4. Tail(c) = <<>> <=> Len(c) = 1
  <2>1. Tail(c) = <<>> <=> Len(Tail(c)) = 0
    BY <1>3, LinkedView
  <2> QED BY <1>1, <1>3, <2>1
<1>5. z = IF Tail(c) = <<>> THEN NoSlot ELSE Tail(c)[Len(Tail(c))]
  <2>1. e = h <=> Len(c) = 1
    <3>1. \A i, j \in 1 .. Len(c) : c[i] = c[j] => i = j
      BY PooledView, LinkedView
    <3>2. 1 \in 1 .. Len(c) /\ Len(c) \in 1 .. Len(c)
      BY <1>1
    <3> QED BY <1>1, <3>1, <3>2
  <2>2. Len(c) # 1 => Tail(c)[Len(c) - 1] = c[Len(c)]
    <3> SUFFICES ASSUME Len(c) # 1 PROVE Tail(c)[Len(c) - 1] = c[Len(c)]
      OBVIOUS
    <3>1. Len(c) - 1 \in 1 .. Len(c) - 1 /\ (Len(c) - 1) + 1 = Len(c)
      BY <1>1
    <3> QED BY <1>3, <3>1
  <2> QED BY <1>1, <1>3, <1>4, <2>1, <2>2
<1> QED BY SMTT(60), <1>1, <1>2, <1>3, <1>5, PooledView DEF Pooled

(* A message that a call holds is put on the free list, ...                *)
LEMMA PooledFree ==
  ASSUME NEW h, NEW e, NEW f, NEW nx, NEW n, NEW hs, NEW c, NEW d, Pooled(h, e, f, nx, n, hs, c, d),
         NEW k \in hs, NEW ny, ny[k] = f, \A i \in Slot \ {k} : ny[i] = nx[i]
  PROVE  Pooled(h, e, k, ny, n, hs \ {k}, c, <<k>> \o d)
<1>1. k \in Slot /\ k \notin Range(c) /\ k \notin Range(d) /\ Range(c) \subseteq Slot /\ Range(d) \subseteq Slot
  BY PooledView
<1>2. Linked(h, ny, c)
  BY <1>1, PooledView, LinkedKept
<1>3. Linked(k, ny, <<k>> \o d) /\ Range(<<k>> \o d) = Range(d) \cup {k}
  BY <1>1, PooledView, LinkedCons
<1> QED BY <1>1, <1>2, <1>3 DEF Pooled

(* ... at the end of the queue, ...                                        *)
LinksEnd(nx, ny, e, k) ==
  ny[k] = NoSlot /\ (e # NoSlot => ny[e] = k) /\ \A i \in Slot \ {k, e} : ny[i] = nx[i]

LEMMA PooledEnd ==
  ASSUME NEW h, NEW e, NEW f, NEW nx, NEW n, NEW hs, NEW c, NEW d, Pooled(h, e, f, nx, n, hs, c, d),
         NEW k \in hs, NEW ny, LinksEnd(nx, ny, e, k), NEW z, z = IF h = NoSlot THEN k ELSE h
  PROVE  Pooled(z, k, f, ny, n + 1, hs \ {k}, Append(c, k), d)
<1> USE DEF LinksEnd
<1>1. k \in Slot /\ k \notin Range(c) /\ k \notin Range(d) /\ Range(c) \subseteq Slot /\ Range(d) \subseteq Slot
  BY PooledView
<1>2. e \notin Range(d)
  BY <1>1, PooledView
<1>3. Linked(f, ny, d)
  BY <1>1, <1>2, PooledView, LinkedKept
<1>4. \A i \in Range(c) : i = c[Len(c)] \/ ny[i] = nx[i]
  <2> SUFFICES ASSUME NEW i \in Range(c), i # c[Len(c)] PROVE i \in Slot \ {k, e}
    OBVIOUS
  <2> QED BY <1>1, PooledView
<1>5. c # <<>> => ny[c[Len(c)]] = k
  BY PooledView
<1>6. /\ Linked(z, ny, Append(c, k))
      /\ Range(Append(c, k)) = Range(c) \cup {k}
      /\ Len(Append(c, k)) = Len(c) + 1 /\ Append(c, k)[Len(c) + 1] = k /\ Append(c, k) # <<>>
  <2>1. Linked(h, nx, c) /\ k \in Slot /\ k \notin Range(c) /\ ny[k] = NoSlot
        /\ z = IF h = NoSlot THEN k ELSE h
    BY <1>1, PooledView
  <2> QED BY ONLY <1>4, <1>5, <2>1, LinkedAppend
<1> QED BY <1>1, <1>3, <1>6 DEF Pooled

(* ... or in front of it.                                                  *)
LinksFront(nx, ny, h, k) == ny[k] = h /\ \A i \in Slot \ {k} : ny[i] = nx[i]

LEMMA PooledFront ==
  ASSUME NEW h, NEW e, NEW f, NEW nx, NEW n, NEW hs, NEW c, NEW d, Pooled(h, e, f, nx, n, hs, c, d),
         NEW k \in hs, NEW ny, LinksFront(nx, ny, h, k), NEW z, z = IF e = NoSlot THEN k ELSE e
  PROVE  Pooled(k, z, f, ny, n + 1, hs \ {k}, <<k>> \o c, d)
<1> USE DEF LinksFront
<1>1. k \in Slot /\ k \notin Range(c) /\ k \notin Range(d) /\ Range(c) \subseteq Slot /\ Range(d) \subseteq Slot
  BY PooledView
<1>2. Linked(f, ny, d)
  BY <1>1, PooledView, LinkedKept
<1>3. /\ Linked(k, ny, <<k>> \o c) /\ Range(<<k>> \o c) = Range(c) \cup {k} /\ Len(<<k>> \o c) = Len(c) + 1
      /\ \A j \in 1 .. Len(c) + 1 : (<<k>> \o c)[j] = IF j = 1 THEN k ELSE c[j - 1]
  BY <1>1, PooledView, LinkedCons
<1> DEFINE w == <<k>> \o c
<1> HIDE DEF w
<1>4. w # <<>> /\ w[Len(w)] = z
  <2>1. Len(c) \in Nat /\ (c = <<>> <=> Len(c) = 0) /\ (c = <<>> <=> e = NoSlot) /\ (c # <<>> => e = c[Len(c)])
    BY PooledView
  <2>2. Len(w) = Len(c) + 1 /\ w[Len(c) + 1] = IF Len(c) + 1 = 1 THEN k ELSE c[Len(c) + 1 - 1]
    <3>1. Len(c) + 1 \in 1 .. Len(c) + 1
      BY <2>1
    <3> QED BY <1>3, <3>1 DEF w
  <2>3. w # <<>>
    BY <1>3, <2>1, <2>2, LinkedView DEF w
  <2>4. Len(c) + 1 - 1 = Len(c) /\ (Len(c) + 1 = 1 <=> Len(c) = 0)
    BY <2>1
  <2> QED BY <2>1, <2>2, <2>3, <2>4
<1>5. Pooled(k, z, f, ny, n + 1, hs \ {k}, w, d)
  BY <1>1, <1>2, <1>3, <1>4 DEF Pooled, w
<1> QED BY <1>5 DEF w

(* RESET: the queue goes to the free list, message by message.             *)
LEMMA PooledReset ==
  ASSUME NEW h, NEW e, NEW f, NEW nx, NEW n, NEW hs, NEW c, NEW d, Pooled(h, e, f, nx, n, hs, c, d),
         NEW ny, \A i \in Slot \ Range(c) : ny[i] = nx[i],
         \A i \in 1 .. Len(c) : ny[c[i]] = IF i = 1 THEN f ELSE c[i - 1],
         NEW z, z = IF c = <<>> THEN f ELSE c[Len(c)]
  PROVE  \E w : Pooled(NoSlot, NoSlot, z, ny, 0, hs, <<>>, w)
<1>1. /\ Len(c) \in Nat /\ (c = <<>> <=> Len(c) = 0) /\ Range(c) \subseteq Slot /\ Range(d) \subseteq Slot
      /\ Range(c) \cap Range(d) = {}
  BY PooledView
<1>2. /\ \A i \in 1 .. Len(c) : c[i] \in Slot /\ c[i] \in Range(c)
      /\ \A i, j \in 1 .. Len(c) : c[i] = c[j] => i = j
      /\ DOMAIN c = 1 .. Len(c)
  BY PooledView, LinkedView
<1>3. Linked(f, ny, d)
  BY <1>1, PooledView, LinkedKept
<1>4. \A i \in 1 .. Len(c) : c[i] \notin Range(d) /\ ny[c[i]] = IF i = 1 THEN f ELSE c[i - 1]
  BY <1>1, <1>2
<1>5. PICK w : Linked(z, ny, w) /\ Range(w) = Range(d) \cup {c[i] : i \in 1 .. Len(c)}
  <2>1. Downward(Len(c), c, ny, f, d)
    BY <1>2, <1>4 DEF Downward
  <2>2. z = IF Len(c) = 0 THEN f ELSE c[Len(c)]
    BY <1>1
  <2>3. PICK m \in Nat : m = Len(c)
    BY <1>1
  <2>4. Downward(m, c, ny, f, d) /\ z = IF m = 0 THEN f ELSE c[m]
    BY <2>1, <2>2, <2>3
  <2>5. \E w : Linked(z, ny, w) /\ Range(w) = Range(d) \cup {c[i] : i \in 1 .. m}
    BY ONLY <1>3, <2>3, <2>4, LinkedDown
  <2> QED BY <2>3, <2>5
<1>6. Range(w) = Range(c) \cup Range(d)
  BY <1>2, <1>5 DEF Range
<1>7. Linked(NoSlot, ny, <<>>) /\ Range(<<>>) = {} /\ Len(<<>>) = 0
  BY DEF Linked, Range, IsInjective
<1>9. hs \cap Range(w) = {} /\ Range(w) \cup hs = Slot
  BY <1>6, PooledView
<1>10. Pooled(NoSlot, NoSlot, z, ny, 0, hs, <<>>, w)
  BY <1>5, <1>7, <1>9 DEF Pooled
<1> QED BY <1>10

(* rt_mq_init: the pool is the free list, from its last message down.      *)
LinksDown(ny) == \A i \in Slot : ny[i] = IF i = 1 THEN NoSlot ELSE i - 1

LEMMA PooledFresh ==
  ASSUME NEW ny, LinksDown(ny)
  PROVE  /\ \E w : Pooled(NoSlot, NoSlot, Cardinality(Slot), ny, 0, {}, <<>>, w)
         /\ Cardinality(Slot) \in Slot /\ \A i \in Slot : i = 1 \/ i - 1 \in Slot
<1> USE DEF LinksDown
<1>1. PICK n \in Nat \ {0} : Slot = 1 .. n
  <2>1. IsFiniteSet(Slot) /\ Slot # {} /\ Slot = 1 .. Cardinality(Slot)
    BY MessageQueueAssumption
  <2>2. Cardinality(Slot) \in Nat /\ Cardinality(Slot) # 0
    BY <2>1, FS_CardinalityType, FS_EmptySet
  <2> QED BY <2>1, <2>2
<1>2. Cardinality(Slot) = n
  BY <1>1, FS_Interval
<1>3. Linked(NoSlot, ny, <<>>) /\ Range(<<>>) = {} /\ Len(<<>>) = 0
  BY DEF Linked, Range, IsInjective
<1> DEFINE g == [i \in 1 .. n |-> i]
<1>4. /\ \A i \in 1 .. n : g[i] \in Slot
      /\ \A i, j \in 1 .. n : g[i] = g[j] => i = j
      /\ \A i \in 1 .. n : ny[g[i]] = IF i = 1 THEN NoSlot ELSE g[i - 1]
      /\ {g[i] : i \in 1 .. n} = Slot
  <2>1. \A i \in 1 .. n : i = 1 \/ i - 1 \in 1 .. n
    BY <1>1
  <2> QED BY <1>1, <2>1
<1> HIDE DEF g
<1>5. n \in Nat /\ \A i \in 1 .. n : g[i] \notin Range(<<>>)
  BY <1>1, <1>3
<1>6. PICK v : v = <<>>
  OBVIOUS
<1>7. PICK w : Linked(g[n], ny, w) /\ Range(w) = Range(v) \cup {g[i] : i \in 1 .. n}
  <2>1. n \in Nat /\ Linked(NoSlot, ny, v)
    BY <1>3, <1>5, <1>6
  <2>2. Downward(n, g, ny, NoSlot, v)
    BY <1>4, <1>5, <1>6 DEF Downward
  <2>3. PICK z : z = g[n] /\ z = IF n = 0 THEN NoSlot ELSE g[n]
    BY <1>1
  <2>4. n \in Nat /\ z = IF n = 0 THEN NoSlot ELSE g[n]
    BY <2>1, <2>3
  <2>5. \E e : Linked(z, ny, e) /\ Range(e) = Range(v) \cup {g[i] : i \in 1 .. n}
    BY ONLY <2>1, <2>2, <2>4, LinkedDown
  <2> QED BY <2>3, <2>5
<1>8. Linked(n, ny, w) /\ Range(w) = Slot
  <2>1. g[n] = n
    BY <1>1 DEF g
  <2> QED BY <1>1, <1>3, <1>4, <1>6, <1>7, <2>1
<1>9. Pooled(NoSlot, NoSlot, n, ny, 0, {}, <<>>, w)
  BY <1>3, <1>8 DEF Pooled
<1>10. n \in Slot /\ \A i \in Slot : i = 1 \/ i - 1 \in Slot
  BY <1>1
<1> QED BY <1>2, <1>9, <1>10

(***************************************************************************)
(* Message queues: no message is lost, and none is in two places.          *)
(***************************************************************************)
Copying(t) == pc[t] = "got" /\ call[t] \in Mq

(* The threads that copy a message of q, and the messages.                 *)
Holders(q) == {t \in Thread : call[t] = q /\ slot[t] # NoSlot}

Hands(q) == {slot[t] : t \in Holders(q)}

(* The queue is gone, or going.                                            *)
Closing(q) == ~exists[q] \/ \E t \in Thread : Flushing(t) /\ call[t] = q

SlotsTyped ==
  /\ head \in [Mq -> Slot \cup {NoSlot}] /\ tail \in [Mq -> Slot \cup {NoSlot}]
  /\ free \in [Mq -> Slot \cup {NoSlot}] /\ next \in [Mq -> [Slot -> Slot \cup {NoSlot}]]
  /\ count \in [Mq -> Nat] /\ slot \in [Thread -> Slot \cup {NoSlot}]

HandsOK ==
  /\ \A t \in Thread : slot[t] # NoSlot <=> Copying(t)
  /\ \A t, u \in Thread : slot[t] # NoSlot /\ slot[t] = slot[u] /\ call[t] = call[u] => t = u
  /\ \A q \in Mq : Closing(q) => Holders(q) = {}

PoolOK(q) == \E c, d : Pooled(head[q], tail[q], free[q], next[q], count[q], Hands(q), c, d)

SlotInv == SlotsTyped /\ HandsOK /\ \A q \in Mq : PoolOK(q)

(* Nobody begins or ends to copy a message.                                *)
LEMMA HandsKept ==
  ASSUME HandsOK, UNCHANGED slot,
         \A x \in Thread : (Copying(x)' <=> Copying(x)) /\ (Copying(x) => UNCHANGED call[x]),
         \A q \in Mq : Closing(q)' => Closing(q) \/ \A x \in Thread : Copying(x) => call[x] # q
  PROVE  HandsOK' /\ \A q \in Mq : Hands(q)' = Hands(q)
<1>1. ASSUME NEW q \in Mq PROVE Holders(q)' = Holders(q)
  BY DEF HandsOK, Holders, Copying
<1>2. ASSUME NEW q \in Mq PROVE Hands(q)' = Hands(q)
  BY <1>1 DEF Hands, Holders
<1>3. ASSUME NEW q \in Mq, Closing(q)' PROVE Holders(q)' = {}
  <2>1. CASE Closing(q)
    BY <1>1, <2>1 DEF HandsOK
  <2>2. CASE \A x \in Thread : Copying(x) => call[x] # q
    BY <1>1, <2>2 DEF HandsOK, Holders
  <2> QED BY <1>3, <2>1, <2>2
<1>4. HandsOK'
  BY <1>3 DEF HandsOK
<1> QED BY <1>2, <1>4

(* The thread t takes the message s of q out of the lists ...              *)
LEMMA HandsTake ==
  ASSUME HandsOK, slot \in [Thread -> Slot \cup {NoSlot}], NEW t \in Thread, NEW q \in Mq,
         NEW s \in Slot, s \notin Hands(q), slot' = [slot EXCEPT ![t] = s],
         ~Copying(t), pc'[t] = "got", call'[t] = q, \A x \in Thread \ {t} : UNCHANGED <<pc[x], call[x]>>,
         \A r \in Mq : Closing(r)' => Closing(r) /\ r # q
  PROVE  /\ HandsOK' /\ slot' \in [Thread -> Slot \cup {NoSlot}] /\ Hands(q)' = Hands(q) \cup {s}
         /\ \A r \in Mq \ {q} : Hands(r)' = Hands(r)
<1>1. /\ slot[t] = NoSlot /\ slot'[t] = s /\ s # NoSlot /\ (\A x \in Thread \ {t} : slot'[x] = slot[x])
      /\ slot' \in [Thread -> Slot \cup {NoSlot}]
  BY MessageQueueAssumption DEF HandsOK
<1>2. Holders(q)' = Holders(q) \cup {t} /\ t \notin Holders(q) /\ \A r \in Mq \ {q} : Holders(r)' = Holders(r)
  BY <1>1 DEF Holders
<1>3. Hands(q)' = Hands(q) \cup {s}
  BY <1>1, <1>2 DEF Hands, Holders
<1>4. ASSUME NEW r \in Mq \ {q} PROVE Hands(r)' = Hands(r)
  BY <1>1, <1>2 DEF Hands, Holders
<1>5. \A x \in Thread : slot'[x] # NoSlot <=> Copying(x)'
  BY <1>1 DEF HandsOK, Copying
<1>6. ASSUME NEW x \in Thread, NEW u \in Thread, slot'[x] # NoSlot, slot'[x] = slot'[u], call'[x] = call'[u]
      PROVE  x = u
  <2>1. \A y \in Thread \ {t} : slot[y] # s \/ call[y] # q
    BY <1>1 DEF Hands, Holders
  <2> QED BY <1>1, <1>6, <2>1 DEF HandsOK
<1>7. ASSUME NEW r \in Mq, Closing(r)' PROVE Holders(r)' = {}
  BY <1>2, <1>7 DEF HandsOK
<1>8. HandsOK'
  BY <1>5, <1>6, <1>7 DEF HandsOK
<1> QED BY <1>1, <1>3, <1>4, <1>8

(* ... and puts it back.                                                   *)
LEMMA HandsGive ==
  ASSUME HandsOK, slot \in [Thread -> Slot \cup {NoSlot}], NEW t \in Thread, NEW q \in Mq,
         slot' = [slot EXCEPT ![t] = NoSlot],
         pc[t] = "got", call[t] = q, pc'[t] # "got", \A x \in Thread \ {t} : UNCHANGED <<pc[x], call[x]>>,
         \A r \in Mq : Closing(r)' => Closing(r)
  PROVE  /\ HandsOK' /\ slot' \in [Thread -> Slot \cup {NoSlot}]
         /\ slot[t] \in Hands(q) /\ Hands(q)' = Hands(q) \ {slot[t]}
         /\ \A r \in Mq \ {q} : Hands(r)' = Hands(r)
<1>1. /\ slot[t] # NoSlot /\ slot'[t] = NoSlot /\ (\A x \in Thread \ {t} : slot'[x] = slot[x])
      /\ slot' \in [Thread -> Slot \cup {NoSlot}]
  BY DEF HandsOK, Copying
<1>2. Holders(q)' = Holders(q) \ {t} /\ t \in Holders(q) /\ \A r \in Mq \ {q} : Holders(r)' = Holders(r) /\ t \notin Holders(r)
  BY <1>1 DEF Holders
<1>3. slot[t] \in Hands(q)
  BY <1>2 DEF Hands
<1>4. \A x \in Holders(q) : slot[x] = slot[t] => x = t
  BY <1>1, <1>2 DEF HandsOK, Holders
<1>5. \A r \in Mq : \A x \in Holders(r)' : x \in Thread \ {t} /\ slot'[x] = slot[x]
  BY <1>1 DEF Holders
<1>6. Hands(q)' = Hands(q) \ {slot[t]}
  BY <1>1, <1>2, <1>4, <1>5 DEF Hands
<1>7. ASSUME NEW r \in Mq \ {q} PROVE Hands(r)' = Hands(r)
  BY <1>1, <1>2, <1>5 DEF Hands
<1>8. \A x \in Thread : slot'[x] # NoSlot <=> Copying(x)'
  BY <1>1 DEF HandsOK, Copying
<1>9. ASSUME NEW x \in Thread, NEW u \in Thread, slot'[x] # NoSlot, slot'[x] = slot'[u], call'[x] = call'[u]
      PROVE  x = u
  BY <1>1, <1>9 DEF HandsOK
<1>10. ASSUME NEW r \in Mq, Closing(r)' PROVE Holders(r)' = {}
  BY <1>2, <1>10 DEF HandsOK
<1>11. HandsOK'
  BY <1>8, <1>9, <1>10 DEF HandsOK
<1> QED BY <1>1, <1>3, <1>6, <1>7, <1>11

(* The queue q is worked on.                                               *)
LEMMA PoolStep ==
  ASSUME SlotInv, SlotsTyped', HandsOK', NEW q \in Mq, PoolOK(q)',
         \A r \in Mq \ {q} : /\ head'[r] = head[r] /\ tail'[r] = tail[r] /\ free'[r] = free[r]
                             /\ next'[r] = next[r] /\ count'[r] = count[r] /\ Hands(r)' = Hands(r)
  PROVE  SlotInv'
<1>1. ASSUME NEW r \in Mq \ {q} PROVE PoolOK(r)'
  <2>1. PICK c, d : Pooled(head[r], tail[r], free[r], next[r], count[r], Hands(r), c, d)
    BY DEF SlotInv, PoolOK
  <2>2. Pooled(head'[r], tail'[r], free'[r], next'[r], count'[r], Hands(r)', c, d)
    BY <2>1
  <2> QED BY <2>2 DEF PoolOK
<1> QED BY <1>1 DEF SlotInv

(* None is.                                                                *)
LEMMA SlotsKept ==
  ASSUME SlotInv, UNCHANGED mqVars,
         \A x \in Thread : (Copying(x)' <=> Copying(x)) /\ (Copying(x) => UNCHANGED call[x]),
         \A q \in Mq : Closing(q)' => Closing(q) \/ \A x \in Thread : Copying(x) => call[x] # q
  PROVE  SlotInv'
<1> USE DEF mqVars
<1>1. HandsOK' /\ \A q \in Mq : Hands(q)' = Hands(q)
  BY HandsKept DEF SlotInv
<1>2. SlotsTyped'
  BY DEF SlotInv, SlotsTyped
<1>3. ASSUME NEW r \in Mq PROVE PoolOK(r)'
  <2>1. PICK c, d : Pooled(head[r], tail[r], free[r], next[r], count[r], Hands(r), c, d)
    BY DEF SlotInv, PoolOK
  <2>2. Pooled(head'[r], tail'[r], free'[r], next'[r], count'[r], Hands(r)', c, d)
    BY <1>1, <2>1
  <2> QED BY <2>2 DEF PoolOK
<1> QED BY <1>1, <1>2, <1>3 DEF SlotInv

LEMMA ClosingKept ==
  ASSUME UNCHANGED exists, \A x \in Thread : Flushing(x)' => Flushing(x) /\ UNCHANGED call[x], NEW q, Closing(q)'
  PROVE  Closing(q)
BY DEF Closing

(* While a thread that flushes no list runs, no list is flushed.           *)
LEMMA NobodyFlushes ==
  ASSUME CoreInv, ~Flushing(current)
  PROVE  \A x \in Thread : ~Flushing(x)
BY DEF CoreInv, FlushOK

LEMMA TakeStep ==
  ASSUME CoreInv, SlotInv, NEW t \in Thread, NEW q \in Mq, NEW s \in Slot, s \notin Hands(q),
         exists[q], UNCHANGED exists, current = t, pc[t] \in {"run", "blocked"},
         pc' = [pc EXCEPT ![t] = "got"], call' = [call EXCEPT ![t] = q], slot' = [slot EXCEPT ![t] = s]
  PROVE  /\ HandsOK' /\ slot' \in [Thread -> Slot \cup {NoSlot}] /\ Hands(q)' = Hands(q) \cup {s}
         /\ \A r \in Mq \ {q} : Hands(r)' = Hands(r)
<1>1. /\ pc'[t] = "got" /\ call'[t] = q /\ ~Copying(t) /\ ~Flushing(t)
      /\ \A x \in Thread \ {t} : UNCHANGED <<pc[x], call[x]>>
  BY CoreView DEF Copying, Flushing
<1>2. \A x \in Thread : ~Flushing(x)'
  BY <1>1, NobodyFlushes DEF Flushing
<1>3. \A r \in Mq : Closing(r)' => Closing(r) /\ r # q
  BY <1>2 DEF Closing
<1> QED BY <1>1, <1>3, HandsTake DEF SlotInv, SlotsTyped

LEMMA GiveStep ==
  ASSUME CoreInv, SlotInv, NEW t \in Thread, NEW q \in Mq, UNCHANGED exists, current = t,
         pc[t] = "got", call[t] = q, NEW l, l \in {"run", "sched"},
         pc' = [pc EXCEPT ![t] = l], call' = [call EXCEPT ![t] = "none"], slot' = [slot EXCEPT ![t] = NoSlot]
  PROVE  /\ HandsOK' /\ slot' \in [Thread -> Slot \cup {NoSlot}]
         /\ slot[t] \in Hands(q) /\ Hands(q)' = Hands(q) \ {slot[t]}
         /\ \A r \in Mq \ {q} : Hands(r)' = Hands(r)
<1>1. pc'[t] # "got" /\ ~Flushing(t) /\ \A x \in Thread \ {t} : UNCHANGED <<pc[x], call[x]>>
  BY CoreView DEF Flushing
<1>2. \A x \in Thread : ~Flushing(x)'
  BY <1>1, CoreView, NobodyFlushes DEF Flushing
<1>3. \A r \in Mq : Closing(r)' => Closing(r)
  BY <1>2 DEF Closing
<1> QED BY <1>1, <1>3, HandsGive DEF SlotInv, SlotsTyped

(* rt_mq_send takes a free message.                                        *)
LEMMA MqAllocSlots ==
  ASSUME CoreInv, SlotInv, NEW t \in Thread, NEW q \in Mq, NEW m, NEW how, MqAlloc(t, q, m, how)
  PROVE  SlotInv'
<1>1. PICK c, d : Pooled(head[q], tail[q], free[q], next[q], count[q], Hands(q), c, d)
  BY DEF SlotInv, PoolOK
<1>2. PICK s : s = free[q]
  OBVIOUS
<1>3. /\ exists[q] /\ UNCHANGED exists /\ current = t /\ pc[t] = "run" /\ s # NoSlot
      /\ pc' = [pc EXCEPT ![t] = "got"] /\ call' = [call EXCEPT ![t] = q] /\ slot' = [slot EXCEPT ![t] = s]
      /\ free' = [free EXCEPT ![q] = next[q][s]] /\ UNCHANGED <<head, tail, count, next>>
  BY <1>2, CoreView DEF MqAlloc, InUser, Running, Goto, SlotInv, SlotsTyped
<1>4. s \in Slot /\ s \notin Hands(q)
      /\ Pooled(head[q], tail[q], next[q][s], next[q], count[q], Hands(q) \cup {s}, c, Tail(d))
  BY ZenonT(60), <1>1, <1>2, <1>3, PooledTake
<1>5. /\ HandsOK' /\ slot' \in [Thread -> Slot \cup {NoSlot}] /\ Hands(q)' = Hands(q) \cup {s}
      /\ \A r \in Mq \ {q} : Hands(r)' = Hands(r)
  BY <1>3, <1>4, TakeStep
<1>6. SlotsTyped' /\ free'[q] = next[q][s] /\ \A r \in Mq \ {q} : free'[r] = free[r]
  BY <1>3, <1>4, <1>5 DEF SlotInv, SlotsTyped
<1>7. PoolOK(q)'
  BY <1>3, <1>4, <1>5, <1>6 DEF PoolOK
<1> QED BY <1>3, <1>5, <1>6, <1>7, PoolStep

(* rt_mq_recv takes the first message of the queue.                        *)
LEMMA MqUnlinkSlots ==
  ASSUME CoreInv, SlotInv, NEW t \in Thread, NEW q \in Mq, MqUnlink(t, q)
  PROVE  SlotInv'
<1>1. PICK c, d : Pooled(head[q], tail[q], free[q], next[q], count[q], Hands(q), c, d)
  BY DEF SlotInv, PoolOK
<1>2. PICK s, z : s = head[q] /\ z = IF tail[q] = s THEN NoSlot ELSE tail[q]
  OBVIOUS
<1>3. /\ exists[q] /\ UNCHANGED exists /\ current = t /\ pc[t] \in {"run", "blocked"} /\ count[q] > 0
      /\ pc' = [pc EXCEPT ![t] = "got"] /\ call' = [call EXCEPT ![t] = q] /\ slot' = [slot EXCEPT ![t] = s]
      /\ head' = [head EXCEPT ![q] = next[q][s]] /\ tail' = [tail EXCEPT ![q] = z]
      /\ count' = [count EXCEPT ![q] = @ - 1] /\ UNCHANGED <<free, next>>
  BY <1>2, CoreView DEF MqUnlink, InUser, Retrying, At, Running, Goto, SlotInv, SlotsTyped
<1>4. s \in Slot /\ s \notin Hands(q)
      /\ Pooled(next[q][s], z, free[q], next[q], count[q] - 1, Hands(q) \cup {s}, Tail(c), d)
  <2>1. count[q] > 0 /\ z = IF tail[q] = head[q] THEN NoSlot ELSE tail[q]
    BY <1>2, <1>3
  <2>2. /\ head[q] \in Slot \ Hands(q)
        /\ Pooled(next[q][head[q]], z, free[q], next[q], count[q] - 1, Hands(q) \cup {head[q]}, Tail(c), d)
    BY <1>1, <2>1, PooledUnlink
  <2> QED BY <1>2, <2>2
<1>5. /\ HandsOK' /\ slot' \in [Thread -> Slot \cup {NoSlot}] /\ Hands(q)' = Hands(q) \cup {s}
      /\ \A r \in Mq \ {q} : Hands(r)' = Hands(r)
  BY <1>3, <1>4, TakeStep
<1>6. /\ SlotsTyped' /\ head'[q] = next[q][s] /\ tail'[q] = z /\ count'[q] = count[q] - 1
      /\ \A r \in Mq \ {q} : head'[r] = head[r] /\ tail'[r] = tail[r] /\ count'[r] = count[r]
  <2>1. count[q] \in Nat /\ z \in Slot \cup {NoSlot} /\ next[q][s] \in Slot \cup {NoSlot}
    BY <1>2, <1>4 DEF SlotInv, SlotsTyped
  <2>2. count[q] - 1 \in Nat
    BY <1>3, <2>1
  <2> QED BY <1>3, <1>5, <2>1, <2>2 DEF SlotInv, SlotsTyped
<1>7. PoolOK(q)'
  BY <1>3, <1>4, <1>5, <1>6 DEF PoolOK
<1> QED BY <1>3, <1>5, <1>6, <1>7, PoolStep

(* ... and puts it on the free list.                                       *)
LEMMA MqFreeSlots ==
  ASSUME CoreInv, SlotInv, NEW t \in Thread, NEW q \in Mq, MqFree(t, q)
  PROVE  SlotInv'
<1>1. PICK c, d : Pooled(head[q], tail[q], free[q], next[q], count[q], Hands(q), c, d)
  BY DEF SlotInv, PoolOK
<1>2. PICK s : s = slot[t]
  OBVIOUS
<1>3. /\ UNCHANGED exists /\ current = t /\ pc[t] = "got" /\ call[t] = q
      /\ pc' = [pc EXCEPT ![t] = "run"] /\ call' = [call EXCEPT ![t] = "none"]
      /\ slot' = [slot EXCEPT ![t] = NoSlot] /\ next' = [next EXCEPT ![q][s] = free[q]]
      /\ free' = [free EXCEPT ![q] = s] /\ UNCHANGED <<head, tail, count>>
  BY <1>2, CoreView DEF MqFree, At, Running, Goto, EndCall
<1>4. /\ HandsOK' /\ slot' \in [Thread -> Slot \cup {NoSlot}]
      /\ s \in Hands(q) /\ Hands(q)' = Hands(q) \ {s} /\ \A r \in Mq \ {q} : Hands(r)' = Hands(r)
  BY <1>2, <1>3, GiveStep
<1>5. s \in Slot
  BY <1>1, <1>4, PooledView
<1>6. /\ SlotsTyped' /\ free'[q] = s /\ (\A r \in Mq \ {q} : free'[r] = free[r] /\ next'[r] = next[r])
      /\ next'[q][s] = free[q] /\ \A i \in Slot \ {s} : next'[q][i] = next[q][i]
  BY <1>3, <1>4, <1>5 DEF SlotInv, SlotsTyped
<1>7. PICK ny : ny = next'[q]
  OBVIOUS
<1>8. Pooled(head[q], tail[q], s, ny, count[q], Hands(q) \ {s}, c, <<s>> \o d)
  BY <1>1, <1>4, <1>6, <1>7, PooledFree
<1>9. PoolOK(q)'
  BY <1>3, <1>4, <1>6, <1>7, <1>8 DEF PoolOK
<1> QED BY <1>3, <1>4, <1>6, <1>9, PoolStep

(* A message that nobody else holds is linked into the queue.              *)
LEMMA LinkPool ==
  ASSUME SlotsTyped, NEW q \in Mq, NEW s, NEW m, NEW how, Link(q, s, m, how),
         NEW f, NEW hs, NEW c, NEW d, Pooled(head[q], tail[q], f, next[q], count[q], hs, c, d), s \in hs
  PROVE  /\ \E w : Pooled(head'[q], tail'[q], f, next'[q], count'[q], hs \ {s}, w, d)
         /\ head' \in [Mq -> Slot \cup {NoSlot}] /\ tail' \in [Mq -> Slot \cup {NoSlot}]
         /\ next' \in [Mq -> [Slot -> Slot \cup {NoSlot}]] /\ count' \in [Mq -> Nat]
         /\ \A r \in Mq \ {q} : /\ head'[r] = head[r] /\ tail'[r] = tail[r]
                                /\ next'[r] = next[r] /\ count'[r] = count[r]
<1>1. /\ s \in Slot /\ s # tail[q] /\ head[q] \in Slot \cup {NoSlot} /\ tail[q] \in Slot \cup {NoSlot}
      /\ next[q] \in [Slot -> Slot \cup {NoSlot}] /\ count[q] \in Nat /\ NoSlot \notin Slot
  BY PooledView DEF SlotsTyped
<1>2. PICK h, e, n, nx, ny : h = head[q] /\ e = tail[q] /\ n = count[q] /\ nx = next[q] /\ ny = next'[q]
  OBVIOUS
<1>3. Pooled(h, e, f, nx, n, hs, c, d)
  BY <1>2
<1>4. count' = [count EXCEPT ![q] = n + 1] /\ n + 1 \in Nat
  BY <1>1, <1>2 DEF Link, SlotsTyped
<1>5. CASE how = "urgent"
  <2>1. PICK z : z = IF e = NoSlot THEN s ELSE e
    OBVIOUS
  <2>2. /\ next' = [next EXCEPT ![q] = [nx EXCEPT ![s] = h]] /\ head' = [head EXCEPT ![q] = s]
        /\ tail' = [tail EXCEPT ![q] = z]
    BY <1>2, <1>5, <2>1 DEF Link, SlotsTyped
  <2>3. LinksFront(nx, ny, h, s) /\ s \in hs
    BY <1>1, <1>2, <2>2 DEF SlotsTyped, LinksFront
  <2>4. Pooled(s, z, f, ny, n + 1, hs \ {s}, <<s>> \o c, d)
    BY ONLY <1>3, <2>1, <2>3, PooledFront
  <2>5. head'[q] = s /\ tail'[q] = z /\ count'[q] = n + 1
    BY <1>4, <2>2 DEF SlotsTyped
  <2>6. \E w : Pooled(head'[q], tail'[q], f, next'[q], count'[q], hs \ {s}, w, d)
    BY <1>2, <2>4, <2>5
  <2>7. z \in Slot \cup {NoSlot} /\ [nx EXCEPT ![s] = h] \in [Slot -> Slot \cup {NoSlot}]
    BY <1>1, <1>2, <2>1
  <2> QED BY <1>1, <1>4, <2>2, <2>6, <2>7 DEF SlotsTyped
<1>6. CASE how # "urgent"
  <2>1. PICK z : z = IF h = NoSlot THEN s ELSE h
    OBVIOUS
  <2>2. PICK g : g = [i \in Slot |-> IF i = s THEN NoSlot ELSE IF i = e THEN s ELSE nx[i]]
    OBVIOUS
  <2>3. /\ next' = [next EXCEPT ![q] = g] /\ tail' = [tail EXCEPT ![q] = s]
        /\ head' = [head EXCEPT ![q] = z]
    BY <1>2, <1>6, <2>1, <2>2 DEF Link, SlotsTyped
  <2>4. ny = g
    BY <1>2, <2>3 DEF SlotsTyped
  <2>5. LinksEnd(nx, ny, e, s) /\ s \in hs
    BY <1>1, <1>2, <2>2, <2>4 DEF LinksEnd
  <2>6. Pooled(z, s, f, ny, n + 1, hs \ {s}, Append(c, s), d)
    BY ONLY <1>3, <2>1, <2>5, PooledEnd
  <2>7. head'[q] = z /\ tail'[q] = s /\ count'[q] = n + 1
    BY <1>4, <2>3 DEF SlotsTyped
  <2>8. \E w : Pooled(head'[q], tail'[q], f, next'[q], count'[q], hs \ {s}, w, d)
    BY <1>2, <2>6, <2>7
  <2>9. z \in Slot \cup {NoSlot} /\ g \in [Slot -> Slot \cup {NoSlot}]
    BY <1>1, <1>2, <2>1, <2>2
  <2> QED BY <1>1, <1>4, <2>3, <2>8, <2>9 DEF SlotsTyped
<1> QED BY <1>5, <1>6

(* rt_mq_send and rt_mq_urgent, when the data is copied.                   *)
LEMMA MqLinkSlots ==
  ASSUME CoreInv, SlotInv, NEW t \in Thread, NEW q \in Mq, MqLink(t, q)
  PROVE  SlotInv'
<1>1. PICK c, d : Pooled(head[q], tail[q], free[q], next[q], count[q], Hands(q), c, d)
  BY DEF SlotInv, PoolOK
<1>2. PICK s, m, how : s = slot[t] /\ m = val[t] /\ how = job[t]
  OBVIOUS
<1>3. PICK l : l = IF waitq[q] # <<>> THEN "sched" ELSE "run"
  OBVIOUS
<1>4. /\ UNCHANGED exists /\ current = t /\ pc[t] = "got" /\ call[t] = q /\ l \in {"run", "sched"}
      /\ pc' = [pc EXCEPT ![t] = l] /\ call' = [call EXCEPT ![t] = "none"]
      /\ slot' = [slot EXCEPT ![t] = NoSlot] /\ Link(q, s, m, how) /\ UNCHANGED free
  BY <1>2, <1>3, CoreView DEF MqLink, At, Running, Goto, EndCall
<1>5. /\ HandsOK' /\ slot' \in [Thread -> Slot \cup {NoSlot}]
      /\ s \in Hands(q) /\ Hands(q)' = Hands(q) \ {s} /\ \A r \in Mq \ {q} : Hands(r)' = Hands(r)
  BY <1>2, <1>4, GiveStep
<1>6. SlotsTyped
  BY DEF SlotInv
<1>7. PICK f, hs : f = free[q] /\ hs = Hands(q)
  OBVIOUS
<1>8. /\ \E w : Pooled(head'[q], tail'[q], f, next'[q], count'[q], hs \ {s}, w, d)
      /\ head' \in [Mq -> Slot \cup {NoSlot}] /\ tail' \in [Mq -> Slot \cup {NoSlot}]
      /\ next' \in [Mq -> [Slot -> Slot \cup {NoSlot}]] /\ count' \in [Mq -> Nat]
      /\ \A r \in Mq \ {q} : /\ head'[r] = head[r] /\ tail'[r] = tail[r]
                             /\ next'[r] = next[r] /\ count'[r] = count[r]
  <2>1. Pooled(head[q], tail[q], f, next[q], count[q], hs, c, d) /\ s \in hs
    BY <1>1, <1>5, <1>7
  <2> QED BY <1>4, <1>6, <2>1, LinkPool
<1>9. SlotsTyped' /\ PoolOK(q)'
  BY <1>4, <1>5, <1>6, <1>7, <1>8 DEF SlotsTyped, PoolOK
<1> QED BY <1>4, <1>5, <1>8, <1>9, PoolStep

(* An interrupt handler's rt_mq_send takes a message and links it.         *)
LEMMA IsrMqSendSlots ==
  ASSUME CoreInv, SlotInv, NEW q \in Mq, NEW m, IsrMqSend(q, m)
  PROVE  SlotInv'
<1>1. PICK c, d : Pooled(head[q], tail[q], free[q], next[q], count[q], Hands(q), c, d)
  BY DEF SlotInv, PoolOK
<1>2. PICK s, how : s = free[q] /\ how = "send"
  OBVIOUS
<1>3. /\ UNCHANGED <<exists, slot, pc, call>> /\ s # NoSlot /\ Link(q, s, m, how)
      /\ free' = [free EXCEPT ![q] = next[q][s]]
  BY <1>2 DEF IsrMqSend, callVars, SlotInv, SlotsTyped
<1>4. \A x \in Thread : (Copying(x)' <=> Copying(x)) /\ UNCHANGED call[x] /\ (Flushing(x)' <=> Flushing(x))
  BY <1>3 DEF Copying, Flushing
<1>5. HandsOK' /\ \A r \in Mq : Hands(r)' = Hands(r)
  <2>1. \A r \in Mq : Closing(r)' => Closing(r)
    BY <1>3, <1>4, ClosingKept
  <2> QED BY <1>3, <1>4, <2>1, HandsKept DEF SlotInv
<1>6. SlotsTyped
  BY DEF SlotInv
<1>7. PICK f, hs : f = next[q][s] /\ hs = Hands(q) \cup {s}
  OBVIOUS
<1>8. s \in Slot /\ s \notin Hands(q) /\ hs \ {s} = Hands(q) /\ s \in hs
      /\ Pooled(head[q], tail[q], f, next[q], count[q], hs, c, Tail(d))
  <2>1. s \in Slot \ Hands(q) /\ Pooled(head[q], tail[q], next[q][s], next[q], count[q], Hands(q) \cup {s}, c, Tail(d))
    BY <1>1, <1>2, <1>3, PooledTake
  <2> QED BY <1>7, <2>1
<1>9. PICK e : e = Tail(d)
  OBVIOUS
<1>10. /\ \E w : Pooled(head'[q], tail'[q], f, next'[q], count'[q], hs \ {s}, w, e)
       /\ head' \in [Mq -> Slot \cup {NoSlot}] /\ tail' \in [Mq -> Slot \cup {NoSlot}]
       /\ next' \in [Mq -> [Slot -> Slot \cup {NoSlot}]] /\ count' \in [Mq -> Nat]
       /\ \A r \in Mq \ {q} : /\ head'[r] = head[r] /\ tail'[r] = tail[r]
                              /\ next'[r] = next[r] /\ count'[r] = count[r]
  BY <1>3, <1>6, <1>8, <1>9, LinkPool
<1>11. free' \in [Mq -> Slot \cup {NoSlot}] /\ free'[q] = f /\ \A r \in Mq \ {q} : free'[r] = free[r]
  BY <1>3, <1>6, <1>7, <1>8 DEF SlotsTyped
<1>12. SlotsTyped'
  BY <1>3, <1>6, <1>10, <1>11 DEF SlotsTyped
<1>13. PoolOK(q)'
  <2>1. PICK w : Pooled(head'[q], tail'[q], f, next'[q], count'[q], hs \ {s}, w, e)
    BY <1>10
  <2>2. Pooled(head'[q], tail'[q], free'[q], next'[q], count'[q], Hands(q)', w, e)
    BY <1>5, <1>8, <1>11, <2>1
  <2> QED BY <2>2 DEF PoolOK
<1> QED BY <1>3, <1>5, <1>10, <1>11, <1>12, <1>13, PoolStep

(* The thread t is at a step in which it holds no message, as before.      *)
LEMMA MoveHands ==
  ASSUME CoreInv, SlotInv, NEW t \in Thread, current = t, pc[t] \in {"run", "blocked"},
         pc'[t] \in {"run", "sched"}, \A x \in Thread \ {t} : UNCHANGED <<pc[x], call[x]>>, UNCHANGED exists
  PROVE  /\ \A x \in Thread : (Copying(x)' <=> Copying(x)) /\ (Copying(x) => UNCHANGED call[x])
         /\ \A r \in Mq : Closing(r)' => Closing(r)
<1>1. ~Flushing(t)
  BY DEF Flushing
<1>2. \A x \in Thread : ~Flushing(x)'
  BY <1>1, NobodyFlushes DEF Flushing
<1>3. \A r \in Mq : Closing(r)' => Closing(r)
  BY <1>2 DEF Closing
<1> QED BY <1>3 DEF Copying

(* Calls that begin to wait, or end without a message.                     *)
LEMMA MqWaitSlots ==
  ASSUME CoreInv, SlotInv, NEW t \in Thread, NEW q \in Mq,
         (\E n : MqRecvWait(t, q, n)) \/ MqTimeIsUp(t, q) \/ (CallFails(t, q) /\ UNCHANGED mqVars)
  PROVE  SlotInv'
<1>1. /\ current = t /\ pc[t] \in {"run", "blocked"} /\ pc'[t] \in {"run", "sched"}
      /\ (\A x \in Thread \ {t} : UNCHANGED <<pc[x], call[x]>>) /\ UNCHANGED exists /\ UNCHANGED mqVars
  <2>1. CASE \E n : MqRecvWait(t, q, n)
    BY <2>1, CoreView DEF MqRecvWait, WaitFor, Block, SuspendFor, MayBlock, Retrying, InUser, At, Running, Goto
  <2>2. CASE MqTimeIsUp(t, q) \/ (CallFails(t, q) /\ UNCHANGED mqVars)
    BY <2>2, CoreView DEF MqTimeIsUp, CallFails, EndCall, Retrying, At, Running, Goto
  <2> QED BY <2>1, <2>2
<1> QED BY <1>1, MoveHands, SlotsKept

(* RT_IPC_CMD_RESET: the messages of the queue are on the free list.       *)
LEMMA MqResetSlots ==
  ASSUME CoreInv, SlotInv, NEW t \in Thread, NEW q \in Mq, MqReset(t, q)
  PROVE  SlotInv'
<1>1. PICK c, d : Pooled(head[q], tail[q], free[q], next[q], count[q], Hands(q), c, d)
  BY DEF SlotInv, PoolOK
<1>2. Linked(head[q], next[q], c)
  BY <1>1, PooledView
<1>3. Chain(head[q], q) = c
  BY <1>2, LinkedChain
<1>4. /\ c \in Seq(Slot) /\ DOMAIN c = 1 .. Len(c) /\ Len(c) \in Nat
      /\ (\A i \in 1 .. Len(c) : c[i] \in Slot /\ c[i] \in Range(c))
      /\ (\A i, j \in 1 .. Len(c) : c[i] = c[j] => i = j) /\ (c = <<>> <=> Len(c) = 0)
  BY <1>2, LinkedView
<1>5. SlotsTyped
  BY DEF SlotInv
<1>6. /\ InUser(t) /\ exists[q] /\ Goto(t, "sched") /\ UNCHANGED <<call, exists, slot>>
      /\ head' = [head EXCEPT ![q] = NoSlot]
      /\ tail' = [tail EXCEPT ![q] = IF @ \in Range(c) THEN NoSlot ELSE @]
      /\ free' = [free EXCEPT ![q] = IF c = <<>> THEN @ ELSE Last(c)]
      /\ next' = [next EXCEPT ![q] = [s \in Slot |->
                    IF s \notin Range(c) THEN @[s]
                    ELSE IF s = c[1] THEN free[q]
                    ELSE c[(CHOOSE i \in DOMAIN c : c[i] = s) - 1]]]
      /\ count' = [count EXCEPT ![q] = 0]
  BY <1>3 DEF MqReset
<1>7. HandsOK' /\ \A r \in Mq : Hands(r)' = Hands(r)
  <2>1. current = t /\ pc[t] = "run" /\ pc'[t] = "sched" /\ \A x \in Thread \ {t} : UNCHANGED <<pc[x], call[x]>>
    BY <1>6, CoreView DEF InUser, Running, Goto
  <2>2. /\ \A x \in Thread : (Copying(x)' <=> Copying(x)) /\ (Copying(x) => UNCHANGED call[x])
        /\ \A r \in Mq : Closing(r)' => Closing(r)
    BY <1>6, <2>1, MoveHands
  <2> QED BY <1>6, <2>2, HandsKept DEF SlotInv
<1>8. PICK f, z, ny, hs : f = free[q] /\ z = (IF c = <<>> THEN f ELSE c[Len(c)]) /\ ny = next'[q] /\ hs = Hands(q)
  OBVIOUS
<1>9. PICK g : g = [s \in Slot |-> IF s \notin Range(c) THEN next[q][s]
                                   ELSE IF s = c[1] THEN f
                                   ELSE c[(CHOOSE i \in DOMAIN c : c[i] = s) - 1]]
  OBVIOUS
<1>10. next' = [next EXCEPT ![q] = g] /\ ny = g
  BY <1>5, <1>6, <1>8, <1>9 DEF SlotsTyped
<1>11. \A i \in Slot \ Range(c) : ny[i] = next[q][i]
  BY <1>9, <1>10
<1>12. ASSUME NEW i \in 1 .. Len(c) PROVE ny[c[i]] = IF i = 1 THEN f ELSE c[i - 1]
  <2>1. c[i] \in Slot /\ c[i] \in Range(c) /\ 1 \in 1 .. Len(c)
    BY <1>4
  <2>2. (CHOOSE k \in DOMAIN c : c[k] = c[i]) = i
    BY <1>4
  <2>3. c[i] = c[1] <=> i = 1
    BY <1>4, <2>1
  <2>4. ny[c[i]] = IF c[i] = c[1] THEN f ELSE c[(CHOOSE k \in DOMAIN c : c[k] = c[i]) - 1]
    BY <1>9, <1>10, <2>1
  <2> QED BY <2>2, <2>3, <2>4
<1>13. ny \in [Slot -> Slot \cup {NoSlot}]
  <2> SUFFICES ASSUME NEW s \in Slot PROVE ny[s] \in Slot \cup {NoSlot}
    BY <1>9, <1>10
  <2>1. CASE s \notin Range(c)
    BY <1>5, <1>11, <2>1 DEF SlotsTyped
  <2>2. CASE s \in Range(c)
    <3>1. PICK i \in 1 .. Len(c) : s = c[i]
      BY <1>4, <2>2 DEF Range
    <3>2. i = 1 \/ i - 1 \in 1 .. Len(c)
      BY <1>4, <3>1
    <3>3. f \in Slot \cup {NoSlot}
      BY <1>5, <1>8 DEF SlotsTyped
    <3>4. ny[s] = IF i = 1 THEN f ELSE c[i - 1]
      BY <1>12, <3>1
    <3> QED BY <1>4, <3>2, <3>3, <3>4
  <2> QED BY <2>1, <2>2
<1>14. \E w : Pooled(NoSlot, NoSlot, z, ny, 0, hs, <<>>, w)
  <2>1. PICK h, e, n, nx : h = head[q] /\ e = tail[q] /\ n = count[q] /\ nx = next[q]
    OBVIOUS
  <2>2. Pooled(h, e, f, nx, n, hs, c, d) /\ z = IF c = <<>> THEN f ELSE c[Len(c)]
    BY <1>1, <1>8, <2>1
  <2>3. \A i \in Slot \ Range(c) : ny[i] = nx[i]
    BY <1>11, <2>1
  <2>4. \A i \in 1 .. Len(c) : ny[c[i]] = IF i = 1 THEN f ELSE c[i - 1]
    BY <1>12
  <2> QED BY ONLY <2>2, <2>3, <2>4, PooledReset
<1>15. /\ head'[q] = NoSlot /\ tail'[q] = NoSlot /\ free'[q] = z /\ count'[q] = 0
       /\ \A r \in Mq \ {q} : /\ head'[r] = head[r] /\ tail'[r] = tail[r] /\ free'[r] = free[r]
                              /\ next'[r] = next[r] /\ count'[r] = count[r]
  <2>1. tail[q] \in Range(c) \/ tail[q] = NoSlot
    BY <1>1, PooledView
  <2>2. Last(c) = c[Len(c)]
    BY DEF Last
  <2>3. free'[q] = IF c = <<>> THEN f ELSE c[Len(c)]
    BY <1>5, <1>6, <1>8, <2>2 DEF SlotsTyped
  <2>4. tail'[q] = NoSlot
    BY <1>5, <1>6, <2>1 DEF SlotsTyped
  <2> QED BY <1>5, <1>6, <1>8, <1>10, <2>3, <2>4 DEF SlotsTyped
<1>16. PoolOK(q)'
  <2>1. PICK v, w : v = <<>> /\ Pooled(NoSlot, NoSlot, z, ny, 0, hs, v, w)
    BY <1>14
  <2>2. Pooled(head'[q], tail'[q], free'[q], next'[q], count'[q], Hands(q)', v, w)
    BY <1>7, <1>8, <1>15, <2>1
  <2> QED BY <2>2 DEF PoolOK
<1>17. SlotsTyped'
  <2>1. z \in Slot \cup {NoSlot}
    <3>1. c # <<>> => Len(c) \in 1 .. Len(c)
      BY <1>4
    <3> QED BY <1>4, <1>5, <1>8, <3>1 DEF SlotsTyped
  <2>2. head' \in [Mq -> Slot \cup {NoSlot}] /\ tail' \in [Mq -> Slot \cup {NoSlot}] /\ count' \in [Mq -> Nat]
    BY <1>5, <1>6 DEF SlotsTyped
  <2>3. free' \in [Mq -> Slot \cup {NoSlot}]
    BY <1>5, <1>6, <1>15, <2>1 DEF SlotsTyped
  <2>4. next' \in [Mq -> [Slot -> Slot \cup {NoSlot}]]
    BY <1>5, <1>10, <1>13 DEF SlotsTyped
  <2> QED BY <1>5, <1>6, <2>2, <2>3, <2>4 DEF SlotsTyped
<1> QED BY <1>7, <1>15, <1>16, <1>17, PoolStep

(* The pool is made anew while nobody copies a message of it.              *)
LEMMA FreshSlots ==
  ASSUME SlotInv, NEW q \in Mq, Fresh(q), UNCHANGED slot, HandsOK', Hands(q)' = {},
         \A r \in Mq \ {q} : Hands(r)' = Hands(r)
  PROVE  SlotInv'
<1> USE DEF Fresh
<1>1. SlotsTyped
  BY DEF SlotInv
<1>2. PICK ny, n : ny = [s \in Slot |-> IF s = 1 THEN NoSlot ELSE s - 1] /\ n = Cardinality(Slot)
  OBVIOUS
<1>3. /\ \E w : Pooled(NoSlot, NoSlot, n, ny, 0, {}, <<>>, w)
      /\ n \in Slot /\ \A i \in Slot : i = 1 \/ i - 1 \in Slot
  <2>1. LinksDown(ny)
    BY <1>2 DEF LinksDown
  <2> QED BY ONLY <1>2, <2>1, PooledFresh
<1>4. /\ head' = [head EXCEPT ![q] = NoSlot] /\ tail' = [tail EXCEPT ![q] = NoSlot]
      /\ free' = [free EXCEPT ![q] = n] /\ next' = [next EXCEPT ![q] = ny] /\ count' = [count EXCEPT ![q] = 0]
  BY <1>2
<1> HIDE DEF Fresh
<1>5. ny \in [Slot -> Slot \cup {NoSlot}]
  BY <1>2, <1>3
<1>6. SlotsTyped'
  BY <1>1, <1>3, <1>4, <1>5 DEF SlotsTyped
<1>7. /\ head'[q] = NoSlot /\ tail'[q] = NoSlot /\ free'[q] = n /\ next'[q] = ny /\ count'[q] = 0
      /\ \A r \in Mq \ {q} : /\ head'[r] = head[r] /\ tail'[r] = tail[r] /\ free'[r] = free[r]
                             /\ next'[r] = next[r] /\ count'[r] = count[r]
  BY <1>1, <1>4 DEF SlotsTyped
<1>8. PoolOK(q)'
  <2>1. PICK v, w : v = <<>> /\ Pooled(NoSlot, NoSlot, n, ny, 0, {}, v, w)
    BY <1>3
  <2>2. Pooled(head'[q], tail'[q], free'[q], next'[q], count'[q], Hands(q)', v, w)
    BY <1>7, <2>1
  <2> QED BY <2>2 DEF PoolOK
<1> QED BY <1>6, <1>7, <1>8, PoolStep

(* rt_mq_detach begins when no call is under way, and ends; rt_mq_init.    *)
LEMMA MqDetachSlots ==
  ASSUME CoreInv, SlotInv, Guarded, exists \in [Obj -> BOOLEAN], NEW t \in Thread, NEW q \in Mq, MqDetach(t, q)
  PROVE  SlotInv'
<1>1. /\ q \in Obj /\ current = t /\ pc[t] = "run" /\ pc'[t] = "flush" /\ call'[t] = q /\ Quiet(q)
      /\ (\A x \in Thread \ {t} : UNCHANGED <<pc[x], call[x]>>) /\ UNCHANGED exists /\ UNCHANGED mqVars
  BY CoreView, MqLists DEF MqDetach, Detach, InUser, Running, Goto
<1>2. \A x \in Thread : (Copying(x)' <=> Copying(x)) /\ (Copying(x) => UNCHANGED call[x])
  BY <1>1 DEF Copying
<1>3. \A x \in Thread : Copying(x) => call[x] # q
  <2> SUFFICES ASSUME NEW x \in Thread, Copying(x), call[x] = q PROVE FALSE
    OBVIOUS
  <2>1. x \in Range(waitq[q])
    BY <1>1 DEF Quiet
  <2>2. pc[x] \in {"sched", "blocked"}
    BY <1>1, <2>1, CoreView
  <2> QED BY <2>2 DEF Copying
<1>4. ASSUME NEW r \in Mq, r # q, Closing(r)' PROVE Closing(r)
  BY <1>1, <1>4 DEF Closing, Flushing
<1> QED BY <1>1, <1>2, <1>3, <1>4, SlotsKept

LEMMA MqFreshSlots ==
  ASSUME CoreInv, SlotInv, exists \in [Obj -> BOOLEAN], NEW t \in Thread, NEW q \in Mq, MqFlushEnd(t, q) \/ MqInit(t, q)
  PROVE  SlotInv'
<1>1. q \in Obj /\ Closing(q) /\ Fresh(q) /\ UNCHANGED slot
  BY MqLists DEF MqFlushEnd, FlushEnd, MqInit, ObjectInit, Closing, Flushing, At
<1>2. /\ \A x \in Thread : (Copying(x)' <=> Copying(x)) /\ (Copying(x) => UNCHANGED call[x])
      /\ \A x \in Thread : Flushing(x)' => Flushing(x) /\ UNCHANGED call[x]
      /\ \A o \in Obj \ {q} : exists'[o] = exists[o]
  <2>1. CASE MqFlushEnd(t, q)
    BY <1>1, <2>1, CoreView DEF MqFlushEnd, FlushEnd, At, Goto, Copying, Flushing
  <2>2. CASE MqInit(t, q)
    BY <1>1, <2>2 DEF MqInit, ObjectInit, callVars, Copying, Flushing
  <2> QED BY <2>1, <2>2
<1>3. ASSUME NEW r \in Mq, Closing(r)' PROVE Closing(r)
  BY <1>1, <1>2, <1>3, MqLists DEF Closing
<1>4. HandsOK' /\ \A r \in Mq : Hands(r)' = Hands(r)
  BY <1>1, <1>2, <1>3, HandsKept DEF SlotInv
<1>5. Hands(q) = {}
  BY <1>1 DEF SlotInv, HandsOK, Hands
<1> QED BY <1>1, <1>4, <1>5, FreshSlots

(* All that threads and interrupt handlers do with message queues. *)
LEMMA MqSlots ==
  ASSUME CoreInv, SlotInv, Guarded, exists \in [Obj -> BOOLEAN], MessageQueueNext
  PROVE  SlotInv'
<1>0. Main \in Thread
  BY KernelAssumption DEF Prio
<1>1. CASE \E t \in Thread \ {Idle} : MqCall(t)
  <2>1. PICK t \in Thread \ {Idle}, q \in Mq :
          \/ \E m \in Sends[t], how \in {"send", "urgent"} : MqAlloc(t, q, m, how)
          \/ MqUnlink(t, q) \/ (\E n \in Timeouts \cup {left[t]} : MqRecvWait(t, q, n))
          \/ MqReset(t, q)
    BY <1>1 DEF MqCall
  <2>2. CASE (\E m \in Sends[t], how \in {"send", "urgent"} : MqAlloc(t, q, m, how)) \/ MqUnlink(t, q)
    BY <2>2, MqAllocSlots, MqUnlinkSlots
  <2>3. CASE (\E n \in Timeouts \cup {left[t]} : MqRecvWait(t, q, n)) \/ MqReset(t, q)
    BY <2>3, MqWaitSlots, MqResetSlots
  <2> QED BY <2>1, <2>2, <2>3
<1>2. CASE \E t \in Thread, q \in Mq : MqLink(t, q) \/ MqFree(t, q)
  BY <1>2, MqLinkSlots, MqFreeSlots
<1>3. CASE \E t \in Thread, q \in Mq : MqTimeIsUp(t, q) \/ (CallFails(t, q) /\ UNCHANGED mqVars)
  BY <1>3, MqWaitSlots
<1>4. CASE \E t \in Thread, q \in Mq : MqFlushEnd(t, q)
  BY <1>4, MqFreshSlots
<1>5. CASE \E q \in Mq : MqInit(Main, q) \/ MqDetach(Main, q) \/ \E m \in IsrSends : IsrMqSend(q, m)
  BY <1>0, <1>5, MqFreshSlots, MqDetachSlots, IsrMqSendSlots
<1> QED BY <1>1, <1>2, <1>3, <1>4, <1>5 DEF MessageQueueNext

(***************************************************************************)
(* Steps of the kernel and on other objects leave the pools alone.         *)
(***************************************************************************)

LEMMA ElsewhereSlots ==
  ASSUME SlotInv, \A x \in Thread : Elsewhere(Mq, x), UNCHANGED mqVars, \A q \in Mq : exists'[q] = exists[q]
  PROVE  SlotInv'
<1>1. \A x \in Thread : (Copying(x)' <=> Copying(x)) /\ (Copying(x) => UNCHANGED call[x])
  BY DEF Elsewhere, Copying
<1>2. \A q \in Mq : Closing(q)' => Closing(q)
  BY DEF Elsewhere, Closing, Flushing
<1> QED BY <1>1, <1>2, SlotsKept

LEMMA SlotsInit == ObjectsInit => SlotInv
<1> SUFFICES ASSUME ObjectsInit PROVE SlotInv
  OBVIOUS
<1> USE DEF ObjectsInit, MessageQueueInit
<1>1. PICK ny, n : ny = [s \in Slot |-> IF s = 1 THEN NoSlot ELSE s - 1] /\ n = Cardinality(Slot)
  OBVIOUS
<1>2. /\ head = [q \in Mq |-> NoSlot] /\ tail = [q \in Mq |-> NoSlot] /\ free = [q \in Mq |-> n]
      /\ count = [q \in Mq |-> 0] /\ next = [q \in Mq |-> ny] /\ slot = [t \in Thread |-> NoSlot]
      /\ pc = [t \in Thread |-> "run"]
  BY <1>1 DEF IpcCallInit, KernelInit
<1>3. /\ \E w : Pooled(NoSlot, NoSlot, n, ny, 0, {}, <<>>, w)
      /\ n \in Slot /\ \A i \in Slot : i = 1 \/ i - 1 \in Slot
  <2>1. LinksDown(ny)
    BY <1>1 DEF LinksDown
  <2> QED BY ONLY <1>1, <2>1, PooledFresh
<1>4. SlotsTyped
  BY <1>1, <1>2, <1>3 DEF SlotsTyped
<1>5. \A q \in Mq : Holders(q) = {} /\ Hands(q) = {}
  BY <1>2 DEF Holders, Hands
<1>6. HandsOK
  BY <1>2, <1>5 DEF HandsOK, Copying
<1>7. ASSUME NEW q \in Mq PROVE PoolOK(q)
  <2>1. PICK v, w : v = <<>> /\ Pooled(NoSlot, NoSlot, n, ny, 0, {}, v, w)
    BY <1>3
  <2>2. Pooled(head[q], tail[q], free[q], next[q], count[q], Hands(q), v, w)
    BY ZenonT(60), <1>2, <1>5, <2>1
  <2> QED BY <2>2 DEF PoolOK
<1> QED BY <1>4, <1>6, <1>7 DEF SlotInv

LEMMA SlotsStep ==
  ASSUME ObjectsInv, SlotInv, Guarded, [ObjectsNext]_objectsVars
  PROVE  SlotInv'
<1>1. CoreInv /\ LeftOK /\ CpInv /\ EvInv /\ MbInv /\ DqInv /\ exists \in [Obj -> BOOLEAN]
      /\ Mq \subseteq Obj
  BY CallLists DEF ObjectsInv
<1>0. Ev \cap Mq = {} /\ Cp \cap Mq = {} /\ MbLists \cap Mq = {} /\ DqLists \cap Mq = {}
  BY KindsDiffer
<1>2. CASE IpcCallStep /\ UNCHANGED <<eventVars, mbVars, mqVars, dqVars, flag>>
  <2>1. Calm /\ UNCHANGED exists
    BY <1>1, <1>2, IpcCallAct
  <2>2. \A q \in Mq : Closing(q)' => Closing(q)
    BY <2>1, ClosingKept DEF Calm
  <2>3. \A x \in Thread : (Copying(x)' <=> Copying(x)) /\ (Copying(x) => UNCHANGED call[x])
    BY <1>1, <1>2, KernelPlaces DEF KernelLeaves, Copying
  <2> QED BY <1>1, <1>2, <2>2, <2>3, SlotsKept
<1>3. CASE EventsNext /\ UNCHANGED <<ipcCallVars, mbVars, mqVars, dqVars, flag>>
  <2>1. \A q \in Mq : exists'[q] = exists[q]
    BY <1>1, <1>3, EventStep, KindsDiffer
  <2> QED BY <1>1, <1>3, <2>1, <1>0, EventElsewhere, ElsewhereSlots
<1>4. CASE CompletionNext /\ UNCHANGED <<ipcCallVars, eventVars, mbVars, mqVars, dqVars>>
  <2>1. \A q \in Mq : exists'[q] = exists[q]
    BY <1>1, <1>4, CompletionStep, KindsDiffer
  <2> QED BY <1>1, <1>4, <2>1, <1>0, CompletionElsewhere, ElsewhereSlots
<1>5. CASE MailboxNext /\ UNCHANGED <<eventVars, mqVars, dqVars, flag>>
  <2>1. \A q \in Mq : exists'[q] = exists[q]
    BY <1>1, <1>5, MbStep, KindsDiffer DEF MbLists
  <2> QED BY <1>1, <1>5, <2>1, <1>0, MailboxElsewhere, ElsewhereSlots
<1>6. CASE MessageQueueNext /\ UNCHANGED <<eventVars, mbVars, dqVars, flag>>
  BY <1>1, <1>6, MqSlots
<1>7. CASE DataQueueNext /\ UNCHANGED <<eventVars, mqVars, mbVars, flag>>
  <2>1. \A q \in Mq : exists'[q] = exists[q]
    BY <1>1, <1>7, DqStep, KindsDiffer DEF DqLists
  <2> QED BY <1>1, <1>7, <2>1, <1>0, DataQueueElsewhere, ElsewhereSlots
<1>8. CASE UNCHANGED objectsVars
  <2>1. UNCHANGED <<pc, call, exists>> /\ UNCHANGED mqVars
    BY <1>8 DEF objectsVars, kernelVars, callVars
  <2> QED BY <2>1, ElsewhereSlots DEF Elsewhere
<1> QED BY <1>2, <1>3, <1>4, <1>5, <1>6, <1>7, <1>8 DEF ObjectsNext

(* As many threads copy messages of q as there are messages in their hands. *)
LEMMA HandsSize ==
  ASSUME HandsOK, NEW q \in Mq, IsFiniteSet(Hands(q))
  PROVE  Cardinality(Holders(q)) = Cardinality(Hands(q))
<1> DEFINE H == Holders(q)
           G == Hands(q)
           h == [x \in G |-> CHOOSE t \in H : slot[t] = x]
<1>1. \A x \in G : h[x] \in H /\ slot[h[x]] = x
  BY DEF Hands
<1>2. \A t \in H : slot[t] \in G /\ h[slot[t]] = t
  <2>1. \A t, u \in H : slot[t] = slot[u] => t = u
    BY DEF HandsOK, Holders
  <2>2. \A t \in H : slot[t] \in G
    BY DEF Hands
  <2> QED BY <1>1, <2>1, <2>2
<1>3. h \in [G -> H]
  BY <1>1
<1> HIDE DEF h, H, G
<1>4. h \in Bijection(G, H)
  <2>1. h \in Injection(G, H)
    BY <1>1, <1>3 DEF Injection, IsInjective
  <2>2. h \in Surjection(G, H)
    BY <1>2, <1>3 DEF Surjection
  <2> QED BY <2>1, <2>2 DEF Bijection
<1>5. ExistsBijection(G, H)
  BY <1>4 DEF ExistsBijection
<1>6. IsFiniteSet(G)
  BY DEF G
<1>7. Cardinality(H) = Cardinality(G)
  BY <1>5, <1>6, FS_Bijection
<1> QED BY <1>7 DEF H, G

(* The three parts of a pool have as many messages as the pool. *)
LEMMA PooledSize ==
  ASSUME NEW h, NEW e, NEW f, NEW nx, NEW n, NEW hs, NEW c, NEW d, Pooled(h, e, f, nx, n, hs, c, d)
  PROVE  IsFiniteSet(hs) /\ Len(c) + Len(d) + Cardinality(hs) = Cardinality(Slot)
<1>1. /\ Linked(h, nx, c) /\ Linked(f, nx, d) /\ hs \subseteq Slot
      /\ Range(c) \cap Range(d) = {} /\ hs \cap (Range(c) \cup Range(d)) = {}
      /\ Range(c) \cup Range(d) \cup hs = Slot
  BY PooledView
<1>2. IsFiniteSet(hs)
  BY <1>1, FS_Subset, MessageQueueAssumption
<1>3. /\ IsFiniteSet(Range(c)) /\ Cardinality(Range(c)) = Len(c)
      /\ IsFiniteSet(Range(d)) /\ Cardinality(Range(d)) = Len(d)
  BY <1>1, LinkedSize
<1>4. Len(c) \in Nat /\ Len(d) \in Nat
  BY <1>1, LinkedView
<1> DEFINE C == Range(c)
           D == Range(d)
<1>5. C \cap D = {} /\ hs \cap (C \cup D) = {} /\ (C \cup D) \cup hs = Slot
  BY <1>1
<1>6. IsFiniteSet(C) /\ Cardinality(C) = Len(c) /\ IsFiniteSet(D) /\ Cardinality(D) = Len(d)
  BY <1>3
<1> HIDE DEF C, D
<1>7. IsFiniteSet(C \cup D) /\ Cardinality(C \cup D) = Len(c) + Len(d)
  <2>1. IsFiniteSet(C \cup D) /\ Cardinality(C \cup D) = Cardinality(C) + Cardinality(D) - Cardinality(C \cap D)
    BY <1>6, FS_Union
  <2>2. Cardinality(C \cap D) = 0
    BY <1>5, FS_EmptySet
  <2> QED BY <1>4, <1>6, <2>1, <2>2
<1> DEFINE B == C \cup D
<1>8. IsFiniteSet(B) /\ Cardinality(B) = Len(c) + Len(d) /\ B \cap hs = {} /\ B \cup hs = Slot
  BY <1>5, <1>7
<1> HIDE DEF B
<1>9. Cardinality(hs) \in Nat
  BY <1>2, FS_CardinalityType
<1>10. Cardinality(B \cup hs) = Cardinality(B) + Cardinality(hs)
  <2>1. Cardinality(B \cup hs) = Cardinality(B) + Cardinality(hs) - Cardinality(B \cap hs)
    BY <1>2, <1>8, FS_Union
  <2>2. Cardinality(B \cap hs) = 0
    BY <1>8, FS_EmptySet
  <2> QED BY <1>4, <1>8, <1>9, <2>1, <2>2
<1> QED BY <1>2, <1>4, <1>8, <1>9, <1>10

LEMMA SlotsAreAccounted ==
  ASSUME SlotInv
  PROVE  SlotsAccounted
<1> SUFFICES ASSUME NEW q \in Mq,
                    NEW queued, queued = Chain(head[q], q), NEW spare, spare = Chain(free[q], q),
                    NEW holders, holders = Holders(q)
             PROVE  /\ IsInjective(queued) /\ IsInjective(spare)
                    /\ Range(queued) \cap Range(spare) = {}
                    /\ \A t \in holders : slot[t] \notin Range(queued) \cup Range(spare)
                    /\ \A t, u \in holders : slot[t] = slot[u] => t = u
                    /\ Len(queued) + Len(spare) + Cardinality(holders) = Cardinality(Slot)
                    /\ count[q] = Len(queued)
                    /\ tail[q] = IF queued = <<>> THEN NoSlot ELSE Last(queued)
  BY DEF SlotsAccounted, Holders
<1>1. PICK c, d : Pooled(head[q], tail[q], free[q], next[q], count[q], Hands(q), c, d)
  BY DEF SlotInv, PoolOK
<1>2. HandsOK
  BY DEF SlotInv
<1>3. Linked(head[q], next[q], c) /\ Linked(free[q], next[q], d)
  BY <1>1 DEF Pooled
<1>4. queued = c /\ spare = d
  BY <1>3, LinkedChain
<1>5. IsInjective(c) /\ IsInjective(d)
  BY <1>3 DEF Linked
<1>6. /\ Range(c) \cap Range(d) = {} /\ Hands(q) \cap (Range(c) \cup Range(d)) = {}
      /\ count[q] = Len(c) /\ tail[q] = IF c = <<>> THEN NoSlot ELSE c[Len(c)]
  BY <1>1 DEF Pooled
<1>7. \A t \in holders : slot[t] \in Hands(q)
  BY DEF Hands
<1>8. \A t, u \in holders : slot[t] = slot[u] => t = u
  BY <1>2 DEF HandsOK, Holders
<1>9. Len(c) + Len(d) + Cardinality(holders) = Cardinality(Slot)
  BY <1>1, <1>2, PooledSize, HandsSize
<1>10. tail[q] = IF c = <<>> THEN NoSlot ELSE Last(c)
  BY <1>6 DEF Last
<1> QED BY <1>4, <1>5, <1>6, <1>7, <1>8, <1>9, <1>10

(***************************************************************************)
(* Theorems about message queues.                                          *)
(***************************************************************************)

(* The pool of each message queue stays two lists, the queue and the free  *)
(* messages, and the messages in the hands of calls that copy.             *)
THEOREM SlotsInvariant == Guarded => (ObjectsSpec => [](ObjectsInv /\ SlotInv))
<1> SUFFICES ASSUME Guarded PROVE ObjectsSpec => [](ObjectsInv /\ SlotInv)
  OBVIOUS
<1>1. ObjectsInit => ObjectsInv /\ SlotInv
  BY ObjectsInitInv, SlotsInit
<1>2. ObjectsInv /\ SlotInv /\ [ObjectsNext]_objectsVars => ObjectsInv' /\ SlotInv'
  BY ObjectsStepInv, SlotsStep
<1> QED BY <1>1, <1>2, PTL DEF ObjectsSpec

(* rt_mq_send, rt_mq_urgent, rt_mq_recv and resets lose no message of the  *)
(* pool and put none in two places, whoever is preempted, timed out or     *)
(* interrupted while he copies; the kernel and the offsets of mailboxes    *)
(* stay as they have to be.                                                *)
THEOREM QueuesStaySound == Guarded => (ObjectsSpec => []QueuesSound)
<1>1. ObjectsInv /\ SlotInv => QueuesSound
  <2> SUFFICES ASSUME ObjectsInv, SlotInv PROVE QueuesSound
    OBVIOUS
  <2>1. CoreInv /\ LeftOK /\ MbInv /\ exists \in [Obj -> BOOLEAN]
    BY DEF ObjectsInv
  <2>2. KernelSound
    BY <2>1, CoreView, HeadIsHighest DEF KernelInv, KernelSound
  <2>3. IpcCallTypeOK
    BY <2>1 DEF IpcCallTypeOK, LeftOK
  <2>4. MbTypeOK
    BY ZenonT(60), <2>1 DEF MbInv, MbShape, MbTypeOK
  <2> QED BY <2>2, <2>3, <2>4, SlotsAreAccounted DEF QueuesSound
<1> QED BY <1>1, SlotsInvariant, PTL

(***************************************************************************)
(* A mailbox implements BoundedFifo: each step of the kernel, of its       *)
(* callers, of an interrupt handler, and of the calls on other objects is  *)
(* a step of the abstract queue or leaves it as it is.                     *)
(***************************************************************************)

(* Sequences are equal that have the same elements. *)
LEMMA AppendedIs ==
  ASSUME NEW S, NEW c \in Seq(S), NEW d \in Seq(S), NEW m \in S,
         Len(d) = Len(c) + 1, \A i \in 1 .. Len(c) : d[i] = c[i], d[Len(c) + 1] = m
  PROVE  d = Append(c, m)
<1>1. /\ Append(c, m) \in Seq(S) /\ Len(Append(c, m)) = Len(c) + 1 /\ Len(c) \in Nat
      /\ \A i \in 1 .. Len(c) : Append(c, m)[i] = c[i]
      /\ Append(c, m)[Len(c) + 1] = m
  BY AppendProperties
<1>2. \A i \in 1 .. Len(d) : d[i] = Append(c, m)[i]
  <2> SUFFICES ASSUME NEW i \in 1 .. Len(d) PROVE d[i] = Append(c, m)[i]
    OBVIOUS
  <2>1. i \in 1 .. Len(c) \/ i = Len(c) + 1
    BY <1>1
  <2> QED BY <1>1, <2>1
<1> QED BY <1>1, <1>2, SeqEqual

LEMMA TailIs ==
  ASSUME NEW S, NEW c \in Seq(S), NEW d \in Seq(S), c # <<>>,
         Len(d) = Len(c) - 1, \A i \in 1 .. Len(d) : d[i] = c[i + 1]
  PROVE  d = Tail(c)
<1>1. /\ Tail(c) \in Seq(S) /\ Len(Tail(c)) = Len(c) - 1
      /\ \A i \in 1 .. Len(Tail(c)) : Tail(c)[i] = c[i + 1]
  BY HeadTailProperties
<1> QED BY <1>1, SeqEqual

(* The place of the ring n places on. *)
LEMMA PlaceMod ==
  ASSUME NEW f \in 0 .. Size - 1, NEW n \in 0 .. Size
  PROVE  /\ (f + n) % Size = IF f + n < Size THEN f + n ELSE f + n - Size
         /\ (f + n) % Size \in 0 .. Size - 1
<1>0. Size \in Nat \ {0} /\ f \in Nat /\ n \in Nat /\ f < Size /\ n <= Size
  BY MailboxAssumption
<1>1. CASE f + n < Size
  BY <1>0, <1>1
<1>2. CASE f + n >= Size
  <2>1. f + n \in Size .. 2 * Size - 1
    BY <1>0, <1>2
  <2> QED BY <1>0, <1>2, <2>1
<1> QED BY <1>0, <1>1, <1>2

BoxRing(mb) == in_offset[mb] = (out_offset[mb] + entry[mb]) % Size

LEMMA ContentSeq ==
  ASSUME MbShape, NEW mb \in Mb
  PROVE  /\ MbContent(mb) \in Seq(Message \cup {Nothing}) /\ Len(MbContent(mb)) = entry[mb]
         /\ entry[mb] \in 0 .. Size
         /\ \A i \in 1 .. entry[mb] : MbContent(mb)[i] = msg_pool[mb][(out_offset[mb] + (i - 1)) % Size]
<1>0. /\ entry[mb] \in 0 .. Size /\ out_offset[mb] \in 0 .. Size - 1 /\ entry[mb] \in Nat
      /\ msg_pool[mb] \in [0 .. Size - 1 -> Message \cup {Nothing}] /\ Size \in Nat \ {0}
  BY MailboxAssumption DEF MbShape
<1>1. ASSUME NEW i \in 1 .. entry[mb]
      PROVE  msg_pool[mb][(out_offset[mb] + i - 1) % Size] \in Message \cup {Nothing}
  <2>1. i - 1 \in 0 .. Size /\ out_offset[mb] + i - 1 = out_offset[mb] + (i - 1)
    BY <1>0
  <2>2. (out_offset[mb] + (i - 1)) % Size \in 0 .. Size - 1
    BY <1>0, <2>1, PlaceMod
  <2> QED BY <1>0, <2>1, <2>2
<1>2. MbContent(mb) \in [1 .. entry[mb] -> Message \cup {Nothing}]
  BY <1>1 DEF MbContent
<1>3. MbContent(mb) \in Seq(Message \cup {Nothing}) /\ Len(MbContent(mb)) = entry[mb]
  BY <1>0, <1>2
<1>4. ASSUME NEW i \in 1 .. entry[mb]
      PROVE  MbContent(mb)[i] = msg_pool[mb][(out_offset[mb] + (i - 1)) % Size]
  <2>1. out_offset[mb] + i - 1 = out_offset[mb] + (i - 1)
    BY <1>0
  <2> QED BY <2>1 DEF MbContent
<1> QED BY <1>0, <1>3, <1>4

(* What is stored comes last. *)
LEMMA ContentPut ==
  ASSUME MbShape, MbShape', NEW mb \in Mb, BoxRing(mb), NEW m \in Message, Store(mb, m), entry[mb] < Size
  PROVE  MbContent(mb)' = Append(MbContent(mb), m) /\ Len(MbContent(mb)) < Size /\ BoxRing(mb)'
<1>0. /\ Size \in Nat \ {0} /\ entry[mb] \in 0 .. Size - 1 /\ out_offset[mb] \in 0 .. Size - 1
      /\ in_offset[mb] = (out_offset[mb] + entry[mb]) % Size
      /\ msg_pool[mb] \in [0 .. Size - 1 -> Message \cup {Nothing}]
      /\ out_offset' = out_offset /\ entry'[mb] = entry[mb] + 1 /\ in_offset'[mb] = Advance(in_offset[mb])
      /\ msg_pool' = [msg_pool EXCEPT ![mb][in_offset[mb]] = m]
  BY MailboxAssumption DEF MbShape, Store, BoxRing
<1>1. /\ msg_pool'[mb] = [msg_pool[mb] EXCEPT ![in_offset[mb]] = m]
      /\ in_offset[mb] \in 0 .. Size - 1
  BY <1>0 DEF MbShape
<1> DEFINE c == MbContent(mb)  d == MbContent(mb)'  f == out_offset[mb]  n == entry[mb]
<1>2. /\ c \in Seq(Message \cup {Nothing}) /\ Len(c) = n
      /\ \A i \in 1 .. n : c[i] = msg_pool[mb][(f + (i - 1)) % Size]
  BY ContentSeq
<1>3. /\ d \in Seq(Message \cup {Nothing}) /\ Len(d) = n + 1
      /\ \A i \in 1 .. n + 1 : d[i] = msg_pool'[mb][(f + (i - 1)) % Size]
  <2> HIDE DEF f, n
  <2>1. ASSUME NEW i \in 1 .. n + 1
        PROVE  /\ msg_pool'[mb][(f + (i - 1)) % Size] \in Message \cup {Nothing} /\ f + i - 1 = f + (i - 1)
    <3>1. i - 1 \in 0 .. Size /\ f \in 0 .. Size - 1 /\ i \in Int
      BY <1>0 DEF f, n
    <3>2. (f + (i - 1)) % Size \in 0 .. Size - 1
      BY <3>1, PlaceMod
    <3>3. msg_pool'[mb] \in [0 .. Size - 1 -> Message \cup {Nothing}]
      BY DEF MbShape
    <3>4. f + i - 1 = f + (i - 1)
      BY <3>1, MailboxAssumption
    <3> QED BY <3>2, <3>3, <3>4
  <2>2. d = [i \in 1 .. n + 1 |-> msg_pool'[mb][(f + i - 1) % Size]]
    BY <1>0 DEF MbContent, f, n
  <2>3. n + 1 \in Nat
    BY <1>0 DEF n
  <2> HIDE DEF d
  <2>4. d \in [1 .. n + 1 -> Message \cup {Nothing}]
    BY <2>1, <2>2
  <2>5. d \in Seq(Message \cup {Nothing}) /\ Len(d) = n + 1
    BY <2>3, <2>4
  <2> QED BY <2>1, <2>2, <2>5
<1>4. /\ f \in 0 .. Size - 1 /\ n \in 0 .. Size - 1 /\ in_offset[mb] = (f + n) % Size
      /\ (f + n) % Size \in 0 .. Size - 1
  BY <1>0, <1>1
<1> HIDE DEF c, d, f, n
<1>5. d[n + 1] = m
  <2>1. n + 1 \in 1 .. n + 1 /\ (n + 1) - 1 = n
    BY <1>4, <1>0
  <2>2. d[n + 1] = msg_pool'[mb][(f + n) % Size]
    BY <1>3, <2>1
  <2>3. PICK p : p = msg_pool[mb]
    OBVIOUS
  <2>4. PICK k : k = in_offset[mb]
    OBVIOUS
  <2>5. p \in [0 .. Size - 1 -> Message \cup {Nothing}]
    BY <1>0, <2>3
  <2>6. k \in 0 .. Size - 1
    BY <1>1, <2>4
  <2>7. [p EXCEPT ![k] = m][k] = m
    BY <2>5, <2>6
  <2>8. msg_pool'[mb] = [p EXCEPT ![k] = m]
    BY <1>1, <2>3, <2>4
  <2> QED BY <1>4, <2>2, <2>4, <2>7, <2>8
<1>6. ASSUME NEW i \in 1 .. n PROVE d[i] = c[i]
  <2>1. /\ i \in 1 .. n + 1 /\ i - 1 \in 0 .. Size /\ n \in 0 .. Size /\ Size \in Nat \ {0}
        /\ i \in Int /\ n \in Int /\ f \in Int /\ i - 1 < n
    BY <1>0, <1>4
  <2>2. /\ (f + (i - 1)) % Size = IF f + (i - 1) < Size THEN f + (i - 1) ELSE f + (i - 1) - Size
        /\ (f + (i - 1)) % Size \in 0 .. Size - 1
    BY <1>4, <2>1, PlaceMod
  <2>3. (f + n) % Size = IF f + n < Size THEN f + n ELSE f + n - Size
    BY <1>4, <2>1, PlaceMod
  <2>4. (f + (i - 1)) % Size # (f + n) % Size
    BY <1>4, <2>1, <2>2, <2>3
  <2>5. d[i] = msg_pool'[mb][(f + (i - 1)) % Size] /\ c[i] = msg_pool[mb][(f + (i - 1)) % Size]
    BY <1>2, <1>3, <2>1
  <2> QED BY <1>0, <1>1, <1>4, <2>2, <2>4, <2>5
<1>7. d = Append(c, m)
  <2>1. m \in Message \cup {Nothing}
    OBVIOUS
  <2> QED BY <1>2, <1>3, <1>5, <1>6, <2>1, AppendedIs
<1>8. (f + (n + 1)) % Size = Advance((f + n) % Size)
  <2>1. n \in 0 .. Size /\ n + 1 \in 0 .. Size /\ Size \in Nat \ {0}
    BY <1>4, MailboxAssumption
  <2>2. /\ (f + n) % Size = IF f + n < Size THEN f + n ELSE f + n - Size
        /\ (f + (n + 1)) % Size = IF f + (n + 1) < Size THEN f + (n + 1) ELSE f + (n + 1) - Size
    BY <1>4, <2>1, PlaceMod
  <2> QED BY <1>4, <2>1, <2>2 DEF Advance
<1>9. BoxRing(mb)'
  BY <1>0, <1>4, <1>8 DEF BoxRing, f, n
<1>10. n < Size
  BY <1>0 DEF n
<1> QED BY <1>2, <1>7, <1>9, <1>10 DEF c, d

(* What is read comes first. *)
LEMMA ContentGet ==
  ASSUME MbShape, MbShape', NEW mb \in Mb, BoxRing(mb), entry[mb] > 0,
         msg_pool' = [msg_pool EXCEPT ![mb][out_offset[mb]] = Nothing],
         out_offset' = [out_offset EXCEPT ![mb] = Advance(@)],
         entry' = [entry EXCEPT ![mb] = @ - 1], UNCHANGED in_offset
  PROVE  /\ MbContent(mb)' = Tail(MbContent(mb)) /\ MbContent(mb) # <<>>
         /\ Head(MbContent(mb)) = msg_pool[mb][out_offset[mb]] /\ BoxRing(mb)'
<1>0. /\ Size \in Nat \ {0} /\ entry[mb] \in 1 .. Size /\ out_offset[mb] \in 0 .. Size - 1
      /\ in_offset[mb] = (out_offset[mb] + entry[mb]) % Size
      /\ msg_pool[mb] \in [0 .. Size - 1 -> Message \cup {Nothing}]
      /\ out_offset'[mb] = Advance(out_offset[mb]) /\ entry'[mb] = entry[mb] - 1
      /\ msg_pool'[mb] = [msg_pool[mb] EXCEPT ![out_offset[mb]] = Nothing]
      /\ in_offset' = in_offset
  BY MailboxAssumption DEF MbShape, BoxRing
<1> DEFINE c == MbContent(mb)  d == MbContent(mb)'  f == out_offset[mb]  g == out_offset'[mb]  n == entry[mb]
<1>1. /\ c \in Seq(Message \cup {Nothing}) /\ Len(c) = n
      /\ \A i \in 1 .. n : c[i] = msg_pool[mb][(f + (i - 1)) % Size]
  BY ContentSeq
<1>2. f \in 0 .. Size - 1 /\ g \in 0 .. Size - 1 /\ n \in 1 .. Size /\ g = Advance(f)
  BY <1>0, MailboxAssumption DEF Advance
<1>3. /\ d \in Seq(Message \cup {Nothing}) /\ Len(d) = n - 1
      /\ \A i \in 1 .. n - 1 : d[i] = msg_pool'[mb][(g + (i - 1)) % Size]
  <2> HIDE DEF f, n, g
  <2>1. ASSUME NEW i \in 1 .. n - 1
        PROVE  /\ msg_pool'[mb][(g + (i - 1)) % Size] \in Message \cup {Nothing} /\ g + i - 1 = g + (i - 1)
    <3>1. i - 1 \in 0 .. Size /\ i \in Int
      BY <1>0, <1>2
    <3>2. (g + (i - 1)) % Size \in 0 .. Size - 1
      BY <1>2, <3>1, PlaceMod
    <3>3. msg_pool'[mb] \in [0 .. Size - 1 -> Message \cup {Nothing}]
      BY DEF MbShape
    <3>4. g + i - 1 = g + (i - 1)
      BY <1>2, <3>1, MailboxAssumption
    <3> QED BY <3>2, <3>3, <3>4
  <2>2. d = [i \in 1 .. n - 1 |-> msg_pool'[mb][(g + i - 1) % Size]]
    BY <1>0 DEF MbContent, g, n
  <2>3. n - 1 \in Nat
    BY <1>0, <1>2
  <2> HIDE DEF d
  <2>4. d \in [1 .. n - 1 -> Message \cup {Nothing}]
    BY <2>1, <2>2
  <2>5. d \in Seq(Message \cup {Nothing}) /\ Len(d) = n - 1
    BY <2>3, <2>4
  <2> QED BY <2>1, <2>2, <2>5
<1> HIDE DEF c, d, f, g, n
<1>4. ASSUME NEW i \in 1 .. n - 1 PROVE d[i] = c[i + 1]
  <2>1. /\ i + 1 \in 1 .. n /\ i - 1 \in 0 .. Size /\ (i + 1) - 1 = i /\ i \in 0 .. Size /\ i \in 1 .. Size - 1
        /\ i \in Int /\ Size \in Nat \ {0}
    BY <1>2, MailboxAssumption
  <2>2. (g + (i - 1)) % Size = IF g + (i - 1) < Size THEN g + (i - 1) ELSE g + (i - 1) - Size
    BY <1>2, <2>1, PlaceMod
  <2>3. /\ (f + i) % Size = IF f + i < Size THEN f + i ELSE f + i - Size
        /\ (f + i) % Size \in 0 .. Size - 1
    BY <1>2, <2>1, PlaceMod
  <2>4. (g + (i - 1)) % Size = (f + i) % Size /\ (f + i) % Size # f
    BY <1>2, <2>1, <2>2, <2>3 DEF Advance
  <2>5. d[i] = msg_pool'[mb][(g + (i - 1)) % Size] /\ c[i + 1] = msg_pool[mb][(f + i) % Size]
    BY <1>1, <1>3, <2>1
  <2> QED BY <1>0, <2>3, <2>4, <2>5 DEF f
<1>5. c # <<>>
  BY <1>1, <1>2
<1>6. d = Tail(c)
  BY <1>1, <1>3, <1>4, <1>5, TailIs
<1>7. Head(c) = msg_pool[mb][f]
  <2>1. 1 \in 1 .. n /\ 1 - 1 = 0 /\ 0 \in 0 .. Size /\ f + 0 = f /\ f < Size
    BY <1>0, <1>2
  <2>2. (f + 0) % Size = f
    BY <1>2, <2>1, PlaceMod
  <2>3. c[1] = msg_pool[mb][(f + 0) % Size]
    BY <1>1, <2>1
  <2>4. Head(c) = c[1]
    BY <1>1, <1>5, HeadTailProperties
  <2> QED BY <2>2, <2>3, <2>4
<1>8. (g + (n - 1)) % Size = (f + n) % Size
  <2>1. n \in 0 .. Size /\ n - 1 \in 0 .. Size /\ Size \in Nat \ {0}
    BY <1>0, <1>2
  <2>2. /\ (f + n) % Size = IF f + n < Size THEN f + n ELSE f + n - Size
        /\ (g + (n - 1)) % Size = IF g + (n - 1) < Size THEN g + (n - 1) ELSE g + (n - 1) - Size
    BY <1>2, <2>1, PlaceMod
  <2> QED BY <1>2, <2>1, <2>2 DEF Advance
<1>9. BoxRing(mb)'
  BY <1>0, <1>8 DEF BoxRing, f, g, n
<1> QED BY <1>5, <1>6, <1>7, <1>9 DEF c, d, f

LEMMA ContentNone ==
  ASSUME NEW mb \in Mb
  PROVE  entry[mb] = 0 => MbContent(mb) = <<>>
BY DEF MbContent

LEMMA ContentEmptied ==
  ASSUME MbShape, NEW mb \in Mb, Emptied(mb)
  PROVE  MbContent(mb)' = <<>> /\ BoxRing(mb)'
<1>1. entry'[mb] = 0 /\ in_offset'[mb] = 0 /\ out_offset'[mb] = 0
  BY DEF Emptied, MbShape
<1>2. MbContent(mb)' = <<>>
  BY <1>1 DEF MbContent
<1>3. 0 \in 0 .. Size - 1 /\ 0 \in 0 .. Size /\ 0 < Size
  BY MailboxAssumption
<1>4. (0 + 0) % Size = 0
  BY <1>3, PlaceMod
<1> QED BY <1>1, <1>2, <1>4 DEF BoxRing

(***************************************************************************)
(* What the mapping says of one thread.                                    *)
(***************************************************************************)
Putting(s, x) == InWait(x, s) /\ err[x] = "EOK"
Taking(o, x) == call[x] = o /\ pc[x] = "got"

Sent(s, x) == IF Putting(s, x) THEN val[x] ELSE Nothing
Got(o, x) == IF Taking(o, x) THEN val[x] ELSE Nothing

LEMMA SendsView ==
  ASSUME CoreInv, CoreInv', NEW s \in Obj
  PROVE  \A x \in Thread :
           /\ (call[x] = s /\ (x \in Range(waitq[s]) \/ x \in OnTheWay(s))) <=> Putting(s, x)
           /\ (call'[x] = s /\ (x \in Range(waitq'[s]) \/ x \in OnTheWay(s)')) <=> Putting(s, x)'
<1> SUFFICES ASSUME NEW x \in Thread
             PROVE  /\ (call[x] = s /\ (x \in Range(waitq[s]) \/ x \in OnTheWay(s))) <=> Putting(s, x)
                    /\ (call'[x] = s /\ (x \in Range(waitq'[s]) \/ x \in OnTheWay(s)')) <=> Putting(s, x)'
  OBVIOUS
<1>1. x \in Range(waitq[s]) => pc[x] \in {"sched", "blocked"} /\ err[x] = "EOK"
  BY DEF CoreInv, WaitInv, WaitPlace
<1>2. x \in Range(waitq'[s]) => pc'[x] \in {"sched", "blocked"} /\ err'[x] = "EOK"
  BY DEF CoreInv, WaitInv, WaitPlace
<1> QED BY <1>1, <1>2 DEF OnTheWay, Putting, InWait

(* What the mailbox shows of itself before and after a step. *)
LEMMA BoxView ==
  ASSUME CoreInv, CoreInv', NEW mb \in Mb
  PROVE  /\ MbSends(mb) = [x \in Thread \ {Idle} |-> Sent(Tx[mb], x)]
         /\ MbGot(mb) = [x \in Thread \ {Idle} |-> Got(mb, x)]
         /\ MbSends(mb)' = [x \in Thread \ {Idle} |-> Sent(Tx[mb], x)']
         /\ MbGot(mb)' = [x \in Thread \ {Idle} |-> Got(mb, x)']
<1>1. PICK s \in Obj : s = Tx[mb]
  BY BoxLists
<1>2. \A x \in Thread :
        /\ (call[x] = s /\ (x \in Range(waitq[s]) \/ x \in OnTheWay(s))) <=> Putting(s, x)
        /\ (call'[x] = s /\ (x \in Range(waitq'[s]) \/ x \in OnTheWay(s)')) <=> Putting(s, x)'
  BY SendsView
<1>3. /\ MbSends(mb) = [x \in Thread \ {Idle} |->
           IF call[x] = s /\ (x \in Range(waitq[s]) \/ x \in OnTheWay(s)) THEN val[x] ELSE Nothing]
      /\ MbSends(mb)' = [x \in Thread \ {Idle} |->
           IF call'[x] = s /\ (x \in Range(waitq'[s]) \/ x \in OnTheWay(s)') THEN val'[x] ELSE Nothing]
  BY <1>1 DEF MbSends
<1>4. MbSends(mb) = [x \in Thread \ {Idle} |-> Sent(s, x)]
  BY <1>2, <1>3 DEF Sent
<1>5. MbSends(mb)' = [x \in Thread \ {Idle} |-> Sent(s, x)']
  BY <1>2, <1>3 DEF Sent
<1>6. MbGot(mb) = [x \in Thread \ {Idle} |-> Got(mb, x)] /\ MbGot(mb)' = [x \in Thread \ {Idle} |-> Got(mb, x)']
  BY DEF MbGot, Got, Taking
<1> QED BY <1>1, <1>4, <1>5, <1>6

(* The messages in the mailbox, none while it is detached. *)
Shown(mb) == IF MbOpen(mb) THEN MbContent(mb) ELSE <<>>

Refills(mb) == [MbFifo(mb)!Next]_(MbFifo(mb)!vars)

(* The thread does what it did before: it neither begins nor ends a call   *)
(* that moves a message.                                                   *)
Same(o, s, x) == Sent(s, x)' = Sent(s, x) /\ Got(o, x)' = Got(o, x)

LEMMA BoxSame ==
  ASSUME CoreInv, CoreInv', NEW mb \in Mb, UNCHANGED <<MbOpen(mb), Shown(mb)>>,
         \A x \in Thread \ {Idle} : Same(mb, Tx[mb], x)
  PROVE  Refills(mb)
<1>1. MbSends(mb)' = MbSends(mb) /\ MbGot(mb)' = MbGot(mb)
  BY BoxView DEF Same
<1>2. (IF MbOpen(mb) THEN MbContent(mb) ELSE <<>>)' = (IF MbOpen(mb) THEN MbContent(mb) ELSE <<>>)
  BY DEF Shown
<1> QED BY <1>1, <1>2 DEF Refills, MbFifo!vars

(* A call ends, or changes into one that moves no message. *)
LEMMA BoxMoves ==
  ASSUME CoreInv, CoreInv', NEW mb \in Mb, UNCHANGED <<MbOpen(mb), Shown(mb)>>, NEW t \in Thread \ {Idle},
         \A x \in Thread \ {Idle, t} : Same(mb, Tx[mb], x),
         \/ Same(mb, Tx[mb], t)
         \/ Sent(Tx[mb], t)' = Nothing /\ Got(mb, t)' = Got(mb, t)
         \/ Sent(Tx[mb], t)' = Sent(Tx[mb], t) /\ Got(mb, t)' = Nothing
  PROVE  Refills(mb)
<1>0. (IF MbOpen(mb) THEN MbContent(mb) ELSE <<>>)' = (IF MbOpen(mb) THEN MbContent(mb) ELSE <<>>)
  BY DEF Shown
<1>1. CASE Same(mb, Tx[mb], t)
  BY <1>1, BoxSame
<1>2. CASE Sent(Tx[mb], t)' = Nothing /\ Got(mb, t)' = Got(mb, t) /\ Sent(Tx[mb], t) # Nothing
  <2>1. MbSends(mb)' = [MbSends(mb) EXCEPT ![t] = Nothing] /\ MbSends(mb)[t] # Nothing
    BY <1>2, BoxView DEF Same
  <2>2. MbGot(mb)' = MbGot(mb)
    BY <1>2, BoxView DEF Same
  <2>3. MbFifo(mb)!GiveUp(t)
    BY <1>0, <2>1, <2>2 DEF MbFifo!GiveUp
  <2> QED BY <2>3 DEF Refills, MbFifo!Next
<1>3. CASE Sent(Tx[mb], t)' = Sent(Tx[mb], t) /\ Got(mb, t)' = Nothing /\ Got(mb, t) # Nothing
  <2>1. MbGot(mb)' = [MbGot(mb) EXCEPT ![t] = Nothing] /\ MbGot(mb)[t] # Nothing
    BY <1>3, BoxView DEF Same
  <2>2. MbSends(mb)' = MbSends(mb)
    BY <1>3, BoxView DEF Same
  <2>3. MbFifo(mb)!Return(t)
    BY <1>0, <2>1, <2>2 DEF MbFifo!Return
  <2> QED BY <2>3 DEF Refills, MbFifo!Next
<1> QED BY <1>1, <1>2, <1>3 DEF Same

(* While the mailbox is detached nobody takes a message, and who wants to  *)
(* send waits to be turned away.                                           *)
Shut(mb) ==
  MbOpen(mb) \/ \A x \in Thread : /\ ~Taking(mb, x)
                                  /\ Putting(Tx[mb], x) => x \in Range(waitq[Tx[mb]])

Shaped == DOMAIN val = Thread /\ DOMAIN job = Thread

BoxInv == ObjectsInv /\ Shaped /\ \A mb \in Mb : BoxRing(mb) /\ Shut(mb)

(***************************************************************************)
(* Calls on other objects.                                                 *)
(***************************************************************************)

(* The message and the job of a call change only in the call. *)
Carries(S) == Shaped' /\ \A x \in Thread : UNCHANGED <<val[x], job[x]>> \/ call[x] \notin S

LEMMA ApartClients ==
  ASSUME NEW o, NEW s, Apart(s), \A x \in Thread : Elsewhere({o, s}, x), Carries({o, s})
  PROVE  \A x \in Thread : /\ Putting(s, x)' <=> Putting(s, x)
                           /\ Taking(o, x)' <=> Taking(o, x)
                           /\ Same(o, s, x)
<1>1. \A x \in Thread : Putting(s, x)' <=> Putting(s, x)
  BY DEF Apart, Putting
<1>2. \A x \in Thread : Taking(o, x)' <=> Taking(o, x)
  BY DEF Elsewhere, Taking
<1>3. \A x \in Thread : call[x] \in {o, s} => val'[x] = val[x]
  BY DEF Carries
<1> QED BY <1>1, <1>2, <1>3 DEF Same, Sent, Got, Putting, InWait, Taking

LEMMA ApartBox ==
  ASSUME BoxInv, ObjectsInv', NEW mb \in Mb, Apart(mb), Apart(Tx[mb]), exists'[mb] = exists[mb],
         \A x \in Thread : Elsewhere({mb, Tx[mb]}, x), Carries({mb, Tx[mb]}),
         entry'[mb] = entry[mb], msg_pool'[mb] = msg_pool[mb],
         in_offset'[mb] = in_offset[mb], out_offset'[mb] = out_offset[mb]
  PROVE  Refills(mb) /\ BoxRing(mb)' /\ Shut(mb)'
<1>0. CoreInv /\ CoreInv' /\ BoxRing(mb) /\ Shut(mb)
  BY DEF BoxInv, ObjectsInv
<1>1. MbOpen(mb)' = MbOpen(mb)
  <2>1. \A x \in Thread : (pc'[x] \in {"flush", "flushlock"} /\ call'[x] \in {mb, Tx[mb]})
                          <=> (pc[x] \in {"flush", "flushlock"} /\ call[x] \in {mb, Tx[mb]})
    BY DEF Elsewhere
  <2> QED BY <2>1 DEF MbOpen
<1>2. MbContent(mb)' = MbContent(mb)
  BY DEF MbContent
<1>3. BoxRing(mb)'
  BY <1>0 DEF BoxRing
<1>4. PICK s : s = Tx[mb] /\ Apart(s)
  OBVIOUS
<1>5. \A x \in Thread : /\ Putting(s, x)' <=> Putting(s, x)
                        /\ Taking(mb, x)' <=> Taking(mb, x)
                        /\ Same(mb, s, x)
  BY <1>4, ApartClients
<1>6. Refills(mb)
  <2>1. UNCHANGED <<MbOpen(mb), Shown(mb)>>
    BY <1>1, <1>2 DEF Shown
  <2> QED BY <1>0, <1>4, <1>5, <2>1, BoxSame
<1>7. Shut(mb)'
  <2>1. Range(waitq'[s]) = Range(waitq[s])
    BY <1>4 DEF Apart
  <2> QED BY <1>0, <1>1, <1>4, <1>5, <2>1 DEF Shut
<1> QED BY <1>3, <1>6, <1>7

(* All threads but t keep their messages and jobs. *)
Carried(t) == Shaped' /\ \A x \in Thread \ {t} : UNCHANGED <<val[x], job[x]>>

LEMMA MessageQueueCarries ==
  ASSUME CoreInv, Shaped, NEW S, S \subseteq Obj, Mq \cap S = {}, MessageQueueNext
  PROVE  Carries(S)
<1>0. "none" \notin S /\ Mq \subseteq Obj
  BY CoreView, MqLists
<1> USE DEF Running, InUser, At, Retrying, MayBlock, Shaped
<1>1. ASSUME NEW t \in Thread, Carried(t),
             pc[t] = "run" \/ call[t] \in Mq
      PROVE  Carries(S)
  <2>1. call[t] \notin S
    BY <1>0, <1>1, NoCall
  <2> QED BY <1>1, <2>1 DEF Carries, Carried
<1>2. ASSUME UNCHANGED <<val, job>> PROVE Carries(S)
  BY <1>2 DEF Carries
<1>3. CASE \E t \in Thread \ {Idle} : MqCall(t)
  <2>1. PICK t \in Thread, q \in Mq :
          \/ (\E m, how : MqAlloc(t, q, m, how)) \/ MqUnlink(t, q) \/ (\E n : MqRecvWait(t, q, n)) \/ MqReset(t, q)
    BY <1>3 DEF MqCall
  <2>2. CASE (\E m, how : MqAlloc(t, q, m, how)) \/ MqUnlink(t, q)
    <3>1. (pc[t] = "run" \/ call[t] \in Mq) /\ Carried(t)
      BY <2>2 DEF MqAlloc, MqUnlink, Carried
    <3> QED BY <3>1, <1>1
  <2>3. CASE (\E n : MqRecvWait(t, q, n)) \/ MqReset(t, q)
    BY <2>3, <1>2 DEF MqRecvWait, MqReset, ipcCallVars
  <2> QED BY <2>1, <2>2, <2>3
<1>4. CASE \E t \in Thread, q \in Mq : MqLink(t, q) \/ MqFree(t, q) \/ MqTimeIsUp(t, q) \/ CallFails(t, q)
  <2>1. PICK t \in Thread, q \in Mq : MqLink(t, q) \/ MqFree(t, q) \/ MqTimeIsUp(t, q) \/ CallFails(t, q)
    BY <1>4
  <2>2. call[t] \in Mq /\ Carried(t)
    BY <2>1 DEF MqLink, MqFree, MqTimeIsUp, CallFails, EndCall, Carried
  <2> QED BY <1>1, <2>2
<1>5. CASE \/ \E t \in Thread, q \in Mq : MqFlushEnd(t, q)
           \/ \E q \in Mq : MqInit(Main, q) \/ MqDetach(Main, q) \/ \E m \in IsrSends : IsrMqSend(q, m)
  BY <1>2, <1>5 DEF MqFlushEnd, MqInit, MqDetach, IsrMqSend, ipcCallVars
<1> QED BY <1>3, <1>4, <1>5 DEF MessageQueueNext

LEMMA DataQueueCarries ==
  ASSUME CoreInv, Shaped, NEW S, S \subseteq Obj, DqLists \cap S = {}, DataQueueNext
  PROVE  Carries(S)
<1>0. "none" \notin S /\ \A q \in Dq : q \in DqLists /\ PushList[q] \in DqLists
  BY CoreView DEF DqLists
<1> USE DEF Running, InUser, At, Retrying, MayBlock, Shaped
<1>1. ASSUME NEW t \in Thread, Carried(t),
             pc[t] = "run" \/ \E q \in Dq : call[t] \in {q, PushList[q]}
      PROVE  Carries(S)
  <2>1. call[t] \notin S
    BY <1>0, <1>1, NoCall
  <2> QED BY <1>1, <2>1 DEF Carries, Carried
<1>2. ASSUME UNCHANGED <<val, job>> PROVE Carries(S)
  BY <1>2 DEF Carries
<1>3. CASE \E t \in Thread \ {Idle} : DqCall(t)
  <2>1. PICK t \in Thread, q \in Dq :
          \/ (\E m : DqPush(t, q, m) \/ \E n : DqPushWait(t, q, m, n)) \/ DqPop(t, q)
          \/ DqPushFull(t, q) \/ (\E n : DqPopWait(t, q, n)) \/ DqReset(t, q)
    BY <1>3 DEF DqCall
  <2>2. CASE (\E m : DqPush(t, q, m) \/ \E n : DqPushWait(t, q, m, n)) \/ DqPop(t, q)
    <3>1. /\ pc[t] = "run" \/ call[t] \in {q, PushList[q]}
          /\ Carried(t)
      BY <2>2 DEF DqPush, DqPushWait, DqPop, Pushing, EndCall, Carried
    <3> QED BY <3>1, <1>1
  <2>3. CASE DqPushFull(t, q) \/ (\E n : DqPopWait(t, q, n)) \/ DqReset(t, q)
    BY <2>3, <1>2 DEF DqPushFull, DqPopWait, DqReset, ipcCallVars
  <2> QED BY <2>1, <2>2, <2>3
<1>4. CASE \E t \in Thread : DqPopReturn(t) \/ \E q \in Dq : CallFails(t, q) \/ CallFails(t, PushList[q])
  <2>1. PICK t \in Thread : DqPopReturn(t) \/ \E q \in Dq : CallFails(t, q) \/ CallFails(t, PushList[q])
    BY <1>4
  <2>2. PICK q \in Dq : call[t] \in {q, PushList[q]} /\ Carried(t)
    BY <2>1 DEF DqPopReturn, CallFails, EndCall, Carried
  <2> QED BY <1>1, <2>2
<1>5. CASE \/ \E t \in Thread, q \in Dq : DqFlushPushers(t, q) \/ DqResetEnd(t, q)
           \/ \E q \in Dq : DqInit(Main, q) \/ IsrDqPop(q)
  BY <1>2, <1>5 DEF DqFlushPushers, DqResetEnd, DqInit, IsrDqPop, ipcCallVars
<1> QED BY <1>3, <1>4, <1>5 DEF DataQueueNext

LEMMA MailboxCarries ==
  ASSUME CoreInv, Shaped, NEW S, S \subseteq Obj, MbLists \cap S = {}, MailboxNext
  PROVE  Carries(S)
<1>0. "none" \notin S /\ \A mb \in Mb : mb \in MbLists /\ Tx[mb] \in MbLists
  BY CoreView DEF MbLists
<1> USE DEF Running, InUser, At, Retrying, MayBlock, Shaped
<1>1. ASSUME NEW t \in Thread, Carried(t),
             pc[t] = "run" \/ \E mb \in Mb : call[t] \in {mb, Tx[mb]}
      PROVE  Carries(S)
  <2>1. call[t] \notin S
    BY <1>0, <1>1, NoCall
  <2> QED BY <1>1, <2>1 DEF Carries, Carried
<1>2. ASSUME UNCHANGED <<val, job>> PROVE Carries(S)
  BY <1>2 DEF Carries
<1>3. CASE \E t \in Thread \ {Idle} : MbCall(t)
  <2>1. PICK t \in Thread, mb \in Mb :
          \/ (\E m : MbSend(t, mb, m) \/ \E n : MbSendWait(t, mb, m, n)) \/ MbRecv(t, mb)
          \/ (\E n : MbRecvWait(t, mb, n)) \/ MbReset(t, mb)
    BY <1>3 DEF MbCall
  <2>2. CASE (\E m : MbSend(t, mb, m) \/ \E n : MbSendWait(t, mb, m, n)) \/ MbRecv(t, mb)
    <3>1. (pc[t] = "run" \/ call[t] \in {mb, Tx[mb]}) /\ Carried(t)
      BY <2>2 DEF MbSend, MbSendWait, MbRecv, EndCall, Carried
    <3> QED BY <3>1, <1>1
  <2>3. CASE (\E n : MbRecvWait(t, mb, n)) \/ MbReset(t, mb)
    BY <2>3, <1>2 DEF MbRecvWait, MbReset, ipcCallVars
  <2> QED BY <2>1, <2>2, <2>3
<1>4. CASE \E t \in Thread : InMbCall(t)
  <2>1. PICK t \in Thread : InMbCall(t)
    BY <1>4
  <2>2. CASE \E mb \in Mb : MbFlushSenders(t, mb) \/ MbFlushEnd(t, mb)
    BY <2>2, <1>2 DEF MbFlushSenders, MbFlushEnd, ipcCallVars
  <2>3. CASE MbRecvReturn(t) \/ \E mb \in Mb : MbTimeIsUp(t, mb) \/ CallFails(t, mb) \/ CallFails(t, Tx[mb])
    <3>1. PICK mb \in Mb : call[t] \in {mb, Tx[mb]} /\ Carried(t)
      BY <2>3 DEF MbRecvReturn, MbTimeIsUp, CallFails, EndCall, Carried
    <3> QED BY <1>1, <3>1
  <2> QED BY <2>1, <2>2, <2>3 DEF InMbCall
<1>5. CASE \E mb \in Mb : MbInit(Main, mb) \/ MbDetach(Main, mb) \/ \E m \in IsrSends : IsrMbSend(mb, m)
  BY <1>2, <1>5 DEF MbInit, MbDetach, IsrMbSend, ipcCallVars
<1> QED BY <1>3, <1>4, <1>5 DEF MailboxNext

(* The step is one on other objects than those with a list in S. *)
Aloof(S) ==
  /\ Carries(S) /\ \A x \in Thread : Elsewhere(S, x)
  /\ \A o \in S : Apart(o) /\ exists'[o] = exists[o]

(* What each step is for the three kinds of queue: one of the kernel, one  *)
(* of their own, or one that does not concern them.                        *)
LEMMA StepsForQueues ==
  ASSUME ObjectsInv, Shaped, Guarded, [ObjectsNext]_objectsVars
  PROVE  /\ ObjectsInv' /\ Shaped'
         /\ \/ IpcCallStep /\ Calm /\ UNCHANGED <<exists, val, job, mbVars, mqVars, dqVars>>
            \/ /\ MailboxNext \/ (Aloof(MbLists) /\ UNCHANGED mbVars)
               /\ MessageQueueNext \/ (Aloof(Mq) /\ UNCHANGED mqVars)
               /\ DataQueueNext \/ (Aloof(DqLists) /\ UNCHANGED dqVars)
<1>0. /\ CoreInv /\ LeftOK /\ CpInv /\ EvInv /\ MbInv /\ MqInv /\ DqInv /\ exists \in [Obj -> BOOLEAN]
      /\ MbLists \subseteq Obj /\ Mq \subseteq Obj /\ DqLists \subseteq Obj
  BY CallLists DEF ObjectsInv
<1>1. ObjectsInv'
  BY ObjectsStepInv
<1>2. /\ Cp \cap MbLists = {} /\ Ev \cap MbLists = {} /\ Mq \cap MbLists = {} /\ DqLists \cap MbLists = {}
      /\ Cp \cap Mq = {} /\ Ev \cap Mq = {} /\ DqLists \cap Mq = {}
      /\ Cp \cap DqLists = {} /\ Ev \cap DqLists = {} /\ Dq \subseteq DqLists
  BY KindsDiffer DEF DqLists
<1> DEFINE Goal == \/ IpcCallStep /\ Calm /\ UNCHANGED <<exists, val, job, mbVars, mqVars, dqVars>>
                   \/ /\ MailboxNext \/ (Aloof(MbLists) /\ UNCHANGED mbVars)
                      /\ MessageQueueNext \/ (Aloof(Mq) /\ UNCHANGED mqVars)
                      /\ DataQueueNext \/ (Aloof(DqLists) /\ UNCHANGED dqVars)
<1> SUFFICES Shaped' /\ Goal
  BY <1>1
<1>3. ASSUME NEW S, UNCHANGED <<val, job>> PROVE Carries(S) /\ Shaped'
  BY <1>3 DEF Carries, Shaped
<1>4. CASE IpcCallStep /\ UNCHANGED <<eventVars, mbVars, mqVars, dqVars, flag>>
  <2>1. Calm /\ UNCHANGED exists
    BY <1>0, <1>4, IpcCallAct
  <2>2. UNCHANGED <<val, job>>
    BY <1>4 DEF IpcCallStep, TickCalls, ipcCallVars
  <2> QED BY <1>3, <1>4, <2>1, <2>2
<1>5. CASE EventsNext /\ UNCHANGED <<ipcCallVars, mbVars, mqVars, dqVars, flag>>
  <2>1. ASSUME NEW S, S \subseteq Obj, Ev \cap S = {} PROVE Aloof(S)
    <3>1. \A o \in S : Apart(o) /\ exists'[o] = exists[o]
      BY <1>0, <1>5, <2>1, EventStep
    <3>2. \A x \in Thread : Elsewhere(S, x)
      BY <1>0, <1>5, <2>1, EventElsewhere
    <3> QED BY <1>3, <1>5, <3>1, <3>2 DEF Aloof, ipcCallVars
  <2> QED BY <1>0, <1>2, <1>3, <1>5, <2>1 DEF ipcCallVars
<1>6. CASE CompletionNext /\ UNCHANGED <<ipcCallVars, eventVars, mbVars, mqVars, dqVars>>
  <2>1. ASSUME NEW S, S \subseteq Obj, Cp \cap S = {} PROVE Aloof(S)
    <3>1. \A o \in S : Apart(o) /\ exists'[o] = exists[o]
      BY <1>0, <1>6, <2>1, CompletionStep DEF CpDoes
    <3>2. \A x \in Thread : Elsewhere(S, x)
      BY <1>0, <1>6, <2>1, CompletionElsewhere
    <3> QED BY <1>3, <1>6, <3>1, <3>2 DEF Aloof, ipcCallVars
  <2> QED BY <1>0, <1>2, <1>3, <1>6, <2>1 DEF ipcCallVars
<1>7. CASE MailboxNext /\ UNCHANGED <<eventVars, mqVars, dqVars, flag>>
  <2>1. ASSUME NEW S, S \subseteq Obj, MbLists \cap S = {} PROVE Aloof(S)
    <3>1. \A o \in S : Apart(o) /\ exists'[o] = exists[o]
      BY <1>0, <1>7, <2>1, MbStep DEF Does
    <3>2. (\A x \in Thread : Elsewhere(S, x)) /\ Carries(S)
      BY <1>0, <1>7, <2>1, MailboxElsewhere, MailboxCarries
    <3> QED BY <3>1, <3>2 DEF Aloof
  <2> QED BY <1>0, <1>2, <1>7, <2>1 DEF Aloof, Carries
<1>8. CASE MessageQueueNext /\ UNCHANGED <<eventVars, mbVars, dqVars, flag>>
  <2>1. ASSUME NEW S, S \subseteq Obj, Mq \cap S = {} PROVE Aloof(S)
    <3>1. \A o \in S : Apart(o) /\ exists'[o] = exists[o]
      BY <1>0, <1>8, <2>1, MqStep DEF MqDoes, Does
    <3>2. (\A x \in Thread : Elsewhere(S, x)) /\ Carries(S)
      BY <1>0, <1>8, <2>1, MessageQueueElsewhere, MessageQueueCarries
    <3> QED BY <3>1, <3>2 DEF Aloof
  <2> QED BY <1>0, <1>2, <1>8, <2>1 DEF Aloof, Carries
<1>9. CASE DataQueueNext /\ UNCHANGED <<eventVars, mbVars, mqVars, flag>>
  <2>1. ASSUME NEW S, S \subseteq Obj, DqLists \cap S = {} PROVE Aloof(S)
    <3>1. \A o \in S : Apart(o) /\ exists'[o] = exists[o]
      BY <1>0, <1>2, <1>9, <2>1, DqStep DEF DqDoes
    <3>2. (\A x \in Thread : Elsewhere(S, x)) /\ Carries(S)
      BY <1>0, <1>9, <2>1, DataQueueElsewhere, DataQueueCarries
    <3> QED BY <3>1, <3>2 DEF Aloof
  <2> QED BY <1>0, <1>2, <1>9, <2>1 DEF Aloof, Carries
<1>10. CASE UNCHANGED objectsVars
  <2>1. /\ UNCHANGED kernelVars /\ UNCHANGED exists /\ UNCHANGED <<val, job>>
        /\ UNCHANGED mbVars /\ UNCHANGED mqVars /\ UNCHANGED dqVars
    BY <1>10 DEF objectsVars, ipcCallVars
  <2>2. UNCHANGED <<pc, call>>
    BY <2>1 DEF kernelVars, callVars
  <2>3. ASSUME NEW S, S \subseteq Obj PROVE Aloof(S)
    <3>1. \A o \in S : Apart(o) /\ exists'[o] = exists[o]
      BY <2>1, <2>3, ApartSame
    <3> QED BY <1>3, <2>1, <2>2, <3>1 DEF Aloof, Elsewhere
  <2> QED BY <1>0, <1>3, <2>1, <2>3
<1> QED BY <1>4, <1>5, <1>6, <1>7, <1>8, <1>9, <1>10 DEF ObjectsNext

(* A step on one mailbox leaves another one alone. *)
LEMMA OtherBoxes ==
  ASSUME CoreInv, MbShape, Shaped, NEW b \in Mb, NEW mb \in Mb \ {b}, MbActs(b)
  PROVE  /\ \A x \in Thread : Elsewhere({mb, Tx[mb]}, x)
         /\ Carries({mb, Tx[mb]})
         /\ entry'[mb] = entry[mb] /\ msg_pool'[mb] = msg_pool[mb]
         /\ in_offset'[mb] = in_offset[mb] /\ out_offset'[mb] = out_offset[mb]
<1> DEFINE S == {mb, Tx[mb]}
<1>0. /\ "none" \notin S /\ b \notin S /\ Tx[b] \notin S /\ mb # b /\ Main \in Thread
      /\ pc \in [Thread -> Pc] /\ call \in [Thread -> Call]
  BY CoreView, BoxLists, KernelAssumption DEF Prio
<1> DEFINE Leaves == /\ entry'[mb] = entry[mb] /\ msg_pool'[mb] = msg_pool[mb]
                     /\ in_offset'[mb] = in_offset[mb] /\ out_offset'[mb] = out_offset[mb]
<1> SUFFICES (\A x \in Thread : Elsewhere(S, x)) /\ Carries(S) /\ Leaves
  OBVIOUS
<1> HIDE DEF S
<1> USE DEF Running, InUser, At, Goto, Retrying, MayBlock, Shaped
<1>1. ASSUME NEW t \in Thread, (\A x \in Thread \ {t} : UNCHANGED <<pc[x], call[x]>>) /\ Carried(t),
             pc[t] = "run" \/ call[t] \in {b, Tx[b]}, call'[t] \in {"none", b, Tx[b]}
      PROVE  (\A x \in Thread : Elsewhere(S, x)) /\ Carries(S)
  <2>1. call[t] \notin S /\ call'[t] \notin S
    BY <1>0, <1>1, NoCall
  <2> QED BY <1>1, <2>1, MovesElsewhere DEF Carries, Carried
<1>2. ASSUME UNCHANGED <<pc, call, val, job>>
      PROVE  (\A x \in Thread : Elsewhere(S, x)) /\ Carries(S)
  BY <1>2 DEF Elsewhere, Carries
<1>3. CASE \E t \in Thread : MbEnds(t, b) \/ MbFlushSenders(t, b) \/ MbFlushEnd(t, b)
  <2>1. PICK t \in Thread : MbEnds(t, b) \/ MbFlushSenders(t, b) \/ MbFlushEnd(t, b)
    BY <1>3
  <2>2. CASE MbEnds(t, b)
    <3>1. /\ (\A x \in Thread \ {t} : UNCHANGED <<pc[x], call[x]>>) /\ Carried(t)
          /\ call[t] \in {b, Tx[b]} /\ call'[t] = "none" /\ UNCHANGED mbVars
      BY <1>0, <2>2 DEF Carried, MbEnds, MbRecvReturn, MbTimeIsUp, CallFails, EndCall
    <3> QED BY <1>1, <3>1 DEF mbVars
  <2>3. CASE MbFlushSenders(t, b)
    <3>1. /\ (\A x \in Thread \ {t} : UNCHANGED <<pc[x], call[x]>>) /\ Carried(t)
          /\ call[t] = b /\ call'[t] = Tx[b] /\ UNCHANGED mbVars
      BY <1>0, <2>3 DEF Carried, MbFlushSenders, ipcCallVars
    <3> QED BY <1>1, <3>1 DEF mbVars
  <2>4. CASE MbFlushEnd(t, b)
    <3>1. /\ (\A x \in Thread \ {t} : UNCHANGED <<pc[x], call[x]>>) /\ Carried(t)
          /\ call[t] = Tx[b] /\ call'[t] = "none"
      BY <1>0, <2>4 DEF Carried, MbFlushEnd, ipcCallVars
    <3>2. Leaves
      BY <1>0, <2>4 DEF MbFlushEnd, Emptied
    <3> QED BY <1>1, <3>1, <3>2
  <2> QED BY <2>1, <2>2, <2>3, <2>4 DEF MbEnds
<1>4. CASE \E t \in Thread \ {Idle} : MbCalls(t, b)
  <2>1. PICK t \in Thread \ {Idle} : MbCalls(t, b)
    BY <1>4
  <2>2. CASE \E m : MbSend(t, b, m)
    <3>1. /\ (\A x \in Thread \ {t} : UNCHANGED <<pc[x], call[x]>>) /\ Carried(t)
          /\ pc[t] = "run" \/ call[t] = Tx[b]
          /\ call'[t] = "none"
      BY <1>0, <2>2 DEF Carried, MbSend, EndCall
    <3>2. Leaves
      BY <1>0, <2>2 DEF MbSend, Store
    <3> QED BY <1>1, <3>1, <3>2
  <2>3. CASE MbRecv(t, b)
    <3>1. /\ (\A x \in Thread \ {t} : UNCHANGED <<pc[x], call[x]>>) /\ Carried(t)
          /\ pc[t] = "run" \/ call[t] = b
          /\ call'[t] = b
      BY <1>0, <2>3 DEF Carried, MbRecv
    <3>2. Leaves
      BY <1>0, <2>3 DEF MbRecv
    <3> QED BY <1>1, <3>1, <3>2
  <2>4. CASE \E m, n : MbSendWait(t, b, m, n) \/ MbRecvWait(t, b, n)
    <3>1. /\ (\A x \in Thread \ {t} : UNCHANGED <<pc[x], call[x]>>) /\ Carried(t)
          /\ pc[t] = "run" \/ call[t] \in {b, Tx[b]}
          /\ call'[t] \in {b, Tx[b]} /\ UNCHANGED mbVars
      BY <1>0, <2>4 DEF Carried, MbSendWait, MbRecvWait, WaitFor, Block, SuspendFor
    <3> QED BY <1>1, <3>1 DEF mbVars
  <2>5. CASE MbReset(t, b)
    <3>1. /\ (\A x \in Thread \ {t} : UNCHANGED <<pc[x], call[x]>>) /\ Carried(t)
          /\ pc[t] = "run" /\ call'[t] = call[t]
      BY <1>0, <2>5 DEF Carried, MbReset, ipcCallVars
    <3>2. Leaves
      BY <1>0, <2>5 DEF MbReset, Emptied
    <3>3. call'[t] = "none"
      BY <3>1, NoCall
    <3> QED BY <1>1, <3>1, <3>2, <3>3
  <2> QED BY <2>1, <2>2, <2>3, <2>4, <2>5 DEF MbCalls
<1>5. CASE MbDetach(Main, b)
  <2>1. /\ (\A x \in Thread \ {Main} : UNCHANGED <<pc[x], call[x]>>) /\ Carried(Main)
        /\ pc[Main] = "run" /\ call'[Main] = b /\ UNCHANGED mbVars
    BY <1>0, <1>5 DEF Carried, MbDetach, Detach, ipcCallVars
  <2> QED BY <1>0, <1>1, <2>1 DEF mbVars
<1>6. CASE MbInit(Main, b) \/ \E m \in IsrSends : IsrMbSend(b, m)
  <2>1. UNCHANGED <<pc, call, val, job>>
    BY <1>6 DEF MbInit, ObjectInit, IsrMbSend, callVars, ipcCallVars
  <2>2. Leaves
    <3>1. CASE MbInit(Main, b)
      BY <1>0, <3>1 DEF MbInit, Emptied
    <3>2. CASE \E m \in IsrSends : IsrMbSend(b, m)
      BY <1>0, <3>2 DEF IsrMbSend, Store
    <3> QED BY <1>6, <3>1, <3>2
  <2> QED BY <1>2, <2>1, <2>2
<1> QED BY <1>3, <1>4, <1>5, <1>6 DEF MbActs

(***************************************************************************)
(* Steps of the kernel.                                                    *)
(***************************************************************************)
LEMMA KernelClients ==
  ASSUME CoreInv, CoreInv', IpcCallStep, Calm, UNCHANGED val, NEW o \in Obj, NEW s \in Obj
  PROVE  /\ \A x \in Thread : (Taking(o, x)' <=> Taking(o, x)) /\ (Putting(s, x)' => Putting(s, x))
         /\ \E u : /\ \A x \in Thread \ {u} : Same(o, s, x)
                   /\ \/ \A x \in Thread : Same(o, s, x)
                      \/ u \in Thread \ {Idle} /\ Sent(s, u)' = Nothing /\ Got(o, u)' = Got(o, u)
<1>1. \A x \in Thread : KernelLeaves(x)
  BY KernelPlaces
<1>2. PICK u : \A b \in Obj : Range(waitq[b]) \ {u} \subseteq Range(waitq'[b])
  BY KernelReleases
<1>3. \A x \in Thread : /\ InWait(x, s)' <=> InWait(x, s)
                        /\ UNCHANGED err[x] \/ call[x] \notin Obj \/ x \in Range(waitq[call[x]])
  BY DEF Calm
<1>4. \A x \in Thread : /\ Taking(o, x)' <=> Taking(o, x)
                        /\ Putting(s, x)' => Putting(s, x)
  <2> SUFFICES ASSUME NEW x \in Thread
               PROVE  /\ Taking(o, x)' <=> Taking(o, x)
                      /\ Putting(s, x)' => Putting(s, x)
    OBVIOUS
  <2>1. Taking(o, x)' <=> Taking(o, x)
    BY <1>1 DEF KernelLeaves, Taking
  <2>2. ASSUME Putting(s, x)' PROVE Putting(s, x)
    <3>1. call[x] = s /\ err'[x] = "EOK" /\ InWait(x, s)
      BY <1>3, <2>2 DEF Putting, InWait
    <3>2. x \in Range(waitq[s]) => err[x] = "EOK"
      BY CoreView
    <3> QED BY <1>3, <3>1, <3>2 DEF Putting
  <2> QED BY <2>1, <2>2
<1>5. \A x \in Thread \ {u} : Putting(s, x)' <=> Putting(s, x)
  <2> SUFFICES ASSUME NEW x \in Thread \ {u}, Putting(s, x) PROVE Putting(s, x)'
    BY <1>4
  <2>1. InWait(x, s)' /\ call[x] = s /\ err[x] = "EOK"
    BY <1>3 DEF Putting, InWait
  <2>2. CASE x \in Range(waitq[s])
    <3>1. x \in Range(waitq'[s])
      BY <1>2, <2>2
    <3> QED BY <2>1, <3>1, CoreView DEF Putting, CoreInv, WaitInv, WaitPlace
  <2>3. CASE x \notin Range(waitq[s])
    BY <1>3, <2>1, <2>3 DEF Putting
  <2> QED BY <2>2, <2>3
<1>6. \A x \in Thread \ {u} : Same(o, s, x)
  BY <1>4, <1>5 DEF Same, Sent, Got
<1>7. CASE \A x \in Thread : Same(o, s, x)
  BY <1>4, <1>6, <1>7
<1>8. CASE ~\A x \in Thread : Same(o, s, x)
  <2>1. u \in Thread /\ Putting(s, u) /\ ~Putting(s, u)'
    BY <1>4, <1>6, <1>8 DEF Same, Sent, Got
  <2>2. u # Idle
    BY <2>1, CoreView DEF Putting, InWait
  <2>3. Sent(s, u)' = Nothing /\ Got(o, u)' = Got(o, u)
    BY <1>4, <2>1 DEF Sent, Got
  <2> QED BY <1>4, <1>6, <2>1, <2>2, <2>3
<1> QED BY <1>7, <1>8

LEMMA KernelBox ==
  ASSUME BoxInv, CoreInv', IpcCallStep, Calm, UNCHANGED <<exists, mbVars, val>>, NEW mb \in Mb
  PROVE  Refills(mb) /\ BoxRing(mb)' /\ Shut(mb)'
<1>0. CoreInv /\ BoxRing(mb) /\ Shut(mb) /\ UNCHANGED <<entry, msg_pool, in_offset, out_offset>>
  BY DEF BoxInv, ObjectsInv, mbVars
<1>1. \A x \in Thread : KernelLeaves(x)
  BY <1>0, KernelPlaces
<1>2. MbOpen(mb)' = MbOpen(mb)
  <2>1. \A x \in Thread : (Flushing(x) /\ call[x] \in {mb, Tx[mb]})' <=> (Flushing(x) /\ call[x] \in {mb, Tx[mb]})
    BY <1>1 DEF KernelLeaves
  <2> QED BY <2>1 DEF MbOpen, Flushing
<1>3. UNCHANGED <<MbOpen(mb), Shown(mb)>>
  BY <1>0, <1>2 DEF Shown, MbContent
<1>4. BoxRing(mb)'
  BY <1>0 DEF BoxRing
<1>5. PICK s \in Obj : s = Tx[mb]
  BY BoxLists
<1>6. /\ \A x \in Thread : (Taking(mb, x)' <=> Taking(mb, x)) /\ (Putting(s, x)' => Putting(s, x))
      /\ \E u : /\ \A x \in Thread \ {u} : Same(mb, s, x)
                /\ \/ \A x \in Thread : Same(mb, s, x)
                   \/ u \in Thread \ {Idle} /\ Sent(s, u)' = Nothing /\ Got(mb, u)' = Got(mb, u)
  BY <1>0, BoxLists, KernelClients
<1>7. Refills(mb)
  BY <1>0, <1>3, <1>5, <1>6, BoxSame, BoxMoves
<1>8. Shut(mb)'
  <2>1. CASE MbOpen(mb)
    BY <1>2, <2>1 DEF Shut
  <2>2. CASE ~MbOpen(mb)
    <3>1. \A x \in Thread : ~Taking(mb, x) /\ (Putting(s, x) => x \in Range(waitq[s]))
      BY <1>0, <1>5, <2>2 DEF Shut
    <3>2. \A x \in Thread : x \in Range(waitq[s]) /\ x \notin Range(waitq'[s]) => err'[x] # "EOK"
      BY DEF Calm
    <3>3. \A x \in Thread : ~Taking(mb, x)' /\ (Putting(s, x)' => x \in Range(waitq'[s]))
      BY <1>6, <3>1, <3>2 DEF Putting
    <3> QED BY <1>5, <3>3 DEF Shut
  <2> QED BY <2>1, <2>2
<1> QED BY <1>4, <1>7, <1>8

(***************************************************************************)
(* Steps of the mailbox's own functions.                                   *)
(***************************************************************************)

(* What a call or an interrupt handler finds: no mailbox is being detached.*)
LEMMA OpenAtCall ==
  ASSUME CoreInv, NEW t \in Thread, current = t, ~Flushing(t), NEW mb \in Mb
  PROVE  (MbOpen(mb) <=> exists[mb]) /\ \A x \in Thread : ~Flushing(x)
<1>1. \A x \in Thread : ~Flushing(x)
  BY DEF CoreInv, FlushOK
<1> QED BY <1>1 DEF MbOpen, Flushing

(* Only the thread t moves. *)
Alone(t) == \A x \in Thread \ {t} : UNCHANGED <<pc[x], call[x], val[x], err[x]>>

LEMMA AloneSame ==
  ASSUME NEW t \in Thread, Alone(t), NEW o, NEW s
  PROVE  \A x \in Thread \ {t} : Same(o, s, x)
BY DEF Alone, Same, Sent, Got, Putting, Taking, InWait

(* A mailbox that is open stays so. *)
LEMMA OpenStays ==
  ASSUME NEW t \in Thread, NEW mb \in Mb, Alone(t), UNCHANGED exists, ~Flushing(t), ~Flushing(t)',
         \A x \in Thread : ~Flushing(x)
  PROVE  MbOpen(mb)' = MbOpen(mb)
<1>1. \A x \in Thread : ~Flushing(x)'
  BY DEF Alone, Flushing
<1> QED BY <1>1 DEF MbOpen, Flushing

(* A message comes in. *)
LEMMA BoxPuts ==
  ASSUME CoreInv, CoreInv', NEW mb \in Mb, MbOpen(mb), MbOpen(mb)', NEW m \in Message,
         Len(MbContent(mb)) < Size, MbContent(mb)' = Append(MbContent(mb), m),
         NEW t \in Thread \ {Idle}, \A x \in Thread \ {t} : Same(mb, Tx[mb], x), Got(mb, t)' = Got(mb, t),
         \/ Sent(Tx[mb], t)' = Sent(Tx[mb], t)
         \/ Sent(Tx[mb], t) = m /\ Sent(Tx[mb], t)' = Nothing
  PROVE  Refills(mb)
<1>0. MbOpen(mb)' = MbOpen(mb)
  BY DEF MbOpen
<1>1. MbGot(mb)' = MbGot(mb)
  BY BoxView DEF Same
<1>2. /\ MbFifo(mb)!HasRoom /\ MbContent(mb)' = Append(MbContent(mb), m)
      /\ UNCHANGED <<MbGot(mb), MbOpen(mb)>>
  BY <1>0, <1>1 DEF MbFifo!HasRoom
<1>3. CASE Sent(Tx[mb], t)' = Sent(Tx[mb], t)
  <2>1. MbSends(mb)' = MbSends(mb)
    BY <1>3, BoxView DEF Same
  <2>2. MbFifo(mb)!PutNow(m)
    BY <1>2, <2>1 DEF MbFifo!PutNow
  <2> QED BY <2>2 DEF Refills, MbFifo!Next
<1>4. CASE Sent(Tx[mb], t) = m /\ Sent(Tx[mb], t)' = Nothing
  <2>1. MbSends(mb)' = [MbSends(mb) EXCEPT ![t] = Nothing] /\ MbSends(mb)[t] = m
    BY <1>4, BoxView DEF Same
  <2>2. m # Nothing
    BY CallAssumption
  <2>3. MbFifo(mb)!Put(t)
    BY <1>2, <2>1, <2>2 DEF MbFifo!Put
  <2> QED BY <2>3 DEF Refills, MbFifo!Next
<1> QED BY <1>3, <1>4

(* The caller t begins to wait with its message. *)
LEMMA BoxAsks ==
  ASSUME CoreInv, CoreInv', NEW mb \in Mb, MbOpen(mb), UNCHANGED <<MbOpen(mb), Shown(mb)>>, NEW m \in Message,
         NEW t \in Thread \ {Idle}, \A x \in Thread \ {t} : Same(mb, Tx[mb], x),
         Got(mb, t) = Nothing, Got(mb, t)' = Nothing, Sent(Tx[mb], t) = Nothing, Sent(Tx[mb], t)' = m
  PROVE  Refills(mb)
<1>0. (IF MbOpen(mb) THEN MbContent(mb) ELSE <<>>)' = (IF MbOpen(mb) THEN MbContent(mb) ELSE <<>>)
  BY DEF Shown
<1>1. MbGot(mb)' = MbGot(mb) /\ MbGot(mb)[t] = Nothing
  BY BoxView DEF Same
<1>2. MbSends(mb)' = [MbSends(mb) EXCEPT ![t] = m] /\ MbSends(mb)[t] = Nothing
  BY BoxView DEF Same
<1>3. MbFifo(mb)!Ask(t, m)
  BY <1>0, <1>1, <1>2 DEF MbFifo!Ask
<1> QED BY <1>3 DEF Refills, MbFifo!Next

(* The caller t takes the first message. *)
LEMMA BoxGets ==
  ASSUME CoreInv, CoreInv', NEW mb \in Mb, MbOpen(mb), MbOpen(mb)',
         MbContent(mb) # <<>>, MbContent(mb)' = Tail(MbContent(mb)),
         NEW t \in Thread \ {Idle}, \A x \in Thread \ {t} : Same(mb, Tx[mb], x),
         Got(mb, t) = Nothing, Got(mb, t)' = Head(MbContent(mb)),
         Sent(Tx[mb], t) = Nothing, Sent(Tx[mb], t)' = Nothing
  PROVE  Refills(mb)
<1>0. MbOpen(mb)' = MbOpen(mb)
  BY DEF MbOpen
<1>1. MbGot(mb)' = [MbGot(mb) EXCEPT ![t] = Head(MbContent(mb))] /\ MbGot(mb)[t] = Nothing
  BY BoxView DEF Same
<1>2. MbSends(mb)' = MbSends(mb) /\ MbSends(mb)[t] = Nothing
  BY BoxView DEF Same
<1>3. MbFifo(mb)!Get(t)
  BY <1>0, <1>1, <1>2 DEF MbFifo!Get
<1> QED BY <1>3 DEF Refills, MbFifo!Next

BoxDone(mb) == Refills(mb) /\ BoxRing(mb)' /\ Shut(mb)'

LEMMA BoxFinds ==
  ASSUME BoxInv, ObjectsInv', NEW mb \in Mb
  PROVE  /\ CoreInv /\ CoreInv' /\ MbShape /\ MbShape' /\ BoxRing(mb) /\ Shut(mb) /\ DOMAIN val = Thread
         /\ pc \in [Thread -> Pc] /\ call \in [Thread -> Call] /\ err \in [Thread -> Err]
         /\ pc[Idle] = "run" /\ "none" # mb /\ "none" # Tx[mb] /\ mb # Tx[mb]
         /\ entry[mb] \in 0 .. Size /\ Size \in Nat \ {0}
<1>1. CoreInv /\ CoreInv' /\ MbShape /\ MbShape' /\ BoxRing(mb) /\ Shut(mb) /\ DOMAIN val = Thread
  BY DEF BoxInv, ObjectsInv, MbInv, Shaped
<1>2. entry[mb] \in 0 .. Size
  BY <1>1 DEF MbShape
<1> QED BY <1>1, <1>2, CoreView, BoxLists, MailboxAssumption

LEMMA MbSendBox ==
  ASSUME BoxInv, ObjectsInv', NEW mb \in Mb, NEW t \in Thread \ {Idle}, NEW m \in Sends[t], MbSend(t, mb, m)
  PROVE  BoxDone(mb)
<1>0. /\ CoreInv /\ CoreInv' /\ MbShape /\ MbShape' /\ BoxRing(mb) /\ Shut(mb) /\ DOMAIN val = Thread
      /\ pc \in [Thread -> Pc] /\ call \in [Thread -> Call]
      /\ "none" # mb /\ "none" # Tx[mb] /\ mb # Tx[mb]
  BY BoxFinds
<1>1. /\ exists[mb] /\ entry[mb] < Size /\ Store(mb, m) /\ current = t
      /\ (pc[t] = "run" \/ (pc[t] = "blocked" /\ call[t] = Tx[mb] /\ err[t] = "EOK" /\ m = val[t]))
      /\ pc' = [pc EXCEPT ![t] = IF waitq[mb] # <<>> THEN "sched" ELSE "run"]
      /\ call' = [call EXCEPT ![t] = "none"] /\ val' = [val EXCEPT ![t] = Nothing] /\ UNCHANGED <<err, exists>>
  BY DEF MbSend, EndCall, InUser, Retrying, Running, At, Goto
<1>2. Alone(t)
  BY <1>0, <1>1 DEF Alone
<1>3. m \in Message
  BY CallAssumption
<1>4. MbOpen(mb) /\ \A x \in Thread : ~Flushing(x)
  BY <1>0, <1>1, OpenAtCall DEF Flushing
<1>5. MbOpen(mb)'
  <2>1. ~Flushing(t)'
    BY <1>0, <1>1 DEF Flushing
  <2> QED BY <1>1, <1>2, <1>4, <2>1, OpenStays
<1>6. MbContent(mb)' = Append(MbContent(mb), m) /\ Len(MbContent(mb)) < Size /\ BoxRing(mb)'
  BY <1>0, <1>1, <1>3, ContentPut
<1>7. \A x \in Thread \ {t} : Same(mb, Tx[mb], x)
  BY <1>2, AloneSame
<1>8. Got(mb, t) = Nothing /\ Got(mb, t)' = Nothing /\ Sent(Tx[mb], t)' = Nothing
  BY <1>0, <1>1 DEF Got, Sent, Taking, Putting, InWait
<1>9. Sent(Tx[mb], t) = Nothing \/ Sent(Tx[mb], t) = m
  BY <1>1 DEF Sent, Putting, InWait
<1>10. Refills(mb)
  BY <1>0, <1>3, <1>4, <1>5, <1>6, <1>7, <1>8, <1>9, BoxPuts
<1> QED BY <1>2, <1>5, <1>6, <1>10 DEF BoxDone, Shut

LEMMA IsrMbSendBox ==
  ASSUME BoxInv, ObjectsInv', Guarded, NEW mb \in Mb, NEW m \in IsrSends, IsrMbSend(mb, m)
  PROVE  BoxDone(mb)
<1>0. CoreInv /\ CoreInv' /\ MbShape /\ MbShape' /\ BoxRing(mb) /\ Shut(mb) /\ DOMAIN val = Thread
  BY BoxFinds
<1>1. /\ exists[mb] /\ entry[mb] < Size /\ Store(mb, m)
      /\ \A x \in Thread : pc[x] \in {"flush", "flushlock"} => call[x] \notin {mb, Tx[mb]}
      /\ UNCHANGED <<pc, call, val, err, exists>>
  BY DEF IsrMbSend, callVars, ipcCallVars
<1>2. Main \in Thread \ {Idle} /\ m \in Message
  BY KernelAssumption, CallAssumption DEF Prio
<1>3. MbOpen(mb) /\ MbOpen(mb)'
  BY <1>1 DEF MbOpen
<1>4. MbContent(mb)' = Append(MbContent(mb), m) /\ Len(MbContent(mb)) < Size /\ BoxRing(mb)'
  BY <1>0, <1>1, <1>2, ContentPut
<1>5. \A x \in Thread : Same(mb, Tx[mb], x)
  BY <1>1 DEF Same, Sent, Got, Taking, Putting, InWait
<1>6. Refills(mb)
  BY <1>0, <1>2, <1>3, <1>4, <1>5, BoxPuts DEF Same
<1> QED BY <1>0, <1>1, <1>3, <1>4, <1>6 DEF BoxDone, Shut

LEMMA MbSendWaitBox ==
  ASSUME BoxInv, ObjectsInv', NEW mb \in Mb, NEW t \in Thread \ {Idle}, NEW m \in Sends[t], NEW n,
         MbSendWait(t, mb, m, n)
  PROVE  BoxDone(mb)
<1>0. /\ CoreInv /\ CoreInv' /\ BoxRing(mb) /\ Shut(mb) /\ DOMAIN val = Thread
      /\ pc \in [Thread -> Pc] /\ call \in [Thread -> Call] /\ err \in [Thread -> Err]
      /\ "none" # mb /\ "none" # Tx[mb] /\ mb # Tx[mb]
  BY BoxFinds
<1>1. /\ exists[mb] /\ current = t
      /\ (pc[t] = "run" \/ (pc[t] = "blocked" /\ call[t] = Tx[mb] /\ err[t] = "EOK" /\ m = val[t]))
      /\ pc' = [pc EXCEPT ![t] = "sched"] /\ call' = [call EXCEPT ![t] = Tx[mb]]
      /\ err' = [err EXCEPT ![t] = "EOK"] /\ val' = [val EXCEPT ![t] = m] /\ UNCHANGED <<exists, mbVars>>
  BY DEF MbSendWait, WaitFor, Block, SuspendFor, MayBlock, InUser, Retrying, Running, At, Goto
<1>2. Alone(t)
  BY <1>0, <1>1 DEF Alone
<1>3. m \in Message
  BY CallAssumption
<1>4. MbOpen(mb) /\ \A x \in Thread : ~Flushing(x)
  BY <1>0, <1>1, OpenAtCall DEF Flushing
<1>5. MbOpen(mb)' = MbOpen(mb)
  <2>1. ~Flushing(t) /\ ~Flushing(t)'
    BY <1>0, <1>1 DEF Flushing
  <2> QED BY <1>1, <1>2, <1>4, <2>1, OpenStays
<1>6. UNCHANGED <<MbOpen(mb), Shown(mb)>> /\ BoxRing(mb)'
  BY <1>0, <1>1, <1>5 DEF Shown, MbContent, BoxRing, mbVars
<1>7. \A x \in Thread \ {t} : Same(mb, Tx[mb], x)
  BY <1>2, AloneSame
<1>8. Got(mb, t) = Nothing /\ Got(mb, t)' = Nothing /\ Sent(Tx[mb], t)' = m
  BY <1>0, <1>1 DEF Got, Sent, Taking, Putting, InWait
<1>9. Refills(mb)
  <2>1. CASE pc[t] = "run"
    <3>1. Sent(Tx[mb], t) = Nothing
      BY <2>1 DEF Sent, Putting, InWait
    <3> QED BY <1>0, <1>3, <1>4, <1>6, <1>7, <1>8, <3>1, BoxAsks
  <2>2. CASE pc[t] # "run"
    <3>1. Sent(Tx[mb], t) = m
      BY <1>1, <2>2 DEF Sent, Putting, InWait
    <3>2. \A x \in Thread : Same(mb, Tx[mb], x)
      BY <1>7, <1>8, <3>1 DEF Same
    <3> QED BY <1>0, <1>6, <3>2, BoxSame
  <2> QED BY <2>1, <2>2
<1> QED BY <1>2, <1>4, <1>5, <1>6, <1>9 DEF BoxDone, Shut

LEMMA MbRecvBox ==
  ASSUME BoxInv, ObjectsInv', NEW mb \in Mb, NEW t \in Thread \ {Idle}, MbRecv(t, mb)
  PROVE  BoxDone(mb)
<1>0. /\ CoreInv /\ CoreInv' /\ MbShape /\ MbShape' /\ BoxRing(mb) /\ Shut(mb) /\ DOMAIN val = Thread
      /\ pc \in [Thread -> Pc] /\ call \in [Thread -> Call]
      /\ "none" # mb /\ "none" # Tx[mb] /\ mb # Tx[mb]
  BY BoxFinds
<1>1. /\ exists[mb] /\ entry[mb] > 0 /\ current = t
      /\ (pc[t] = "run" \/ (pc[t] = "blocked" /\ call[t] = mb))
      /\ pc' = [pc EXCEPT ![t] = "got"] /\ call' = [call EXCEPT ![t] = mb]
      /\ val' = [val EXCEPT ![t] = msg_pool[mb][out_offset[mb]]]
      /\ msg_pool' = [msg_pool EXCEPT ![mb][out_offset[mb]] = Nothing]
      /\ out_offset' = [out_offset EXCEPT ![mb] = Advance(@)]
      /\ entry' = [entry EXCEPT ![mb] = @ - 1] /\ UNCHANGED in_offset
      /\ UNCHANGED <<err, exists>>
  BY DEF MbRecv, InUser, Retrying, Running, At, Goto
<1>2. Alone(t)
  BY <1>0, <1>1 DEF Alone
<1>4. MbOpen(mb) /\ \A x \in Thread : ~Flushing(x)
  BY <1>0, <1>1, OpenAtCall DEF Flushing
<1>5. MbOpen(mb)'
  <2>1. ~Flushing(t) /\ ~Flushing(t)'
    BY <1>0, <1>1 DEF Flushing
  <2> QED BY <1>1, <1>2, <1>4, <2>1, OpenStays
<1>6. /\ MbContent(mb)' = Tail(MbContent(mb)) /\ MbContent(mb) # <<>>
      /\ Head(MbContent(mb)) = msg_pool[mb][out_offset[mb]] /\ BoxRing(mb)'
  BY <1>0, <1>1, ContentGet
<1>7. \A x \in Thread \ {t} : Same(mb, Tx[mb], x)
  BY <1>2, AloneSame
<1>8. /\ Got(mb, t) = Nothing /\ Got(mb, t)' = Head(MbContent(mb))
      /\ Sent(Tx[mb], t) = Nothing /\ Sent(Tx[mb], t)' = Nothing
  BY <1>0, <1>1, <1>6 DEF Got, Sent, Taking, Putting, InWait
<1>9. Refills(mb)
  BY <1>0, <1>4, <1>5, <1>6, <1>7, <1>8, BoxGets
<1> QED BY <1>2, <1>5, <1>6, <1>9 DEF BoxDone, Shut

LEMMA MbRecvWaitBox ==
  ASSUME BoxInv, ObjectsInv', NEW mb \in Mb, NEW t \in Thread \ {Idle}, NEW n, MbRecvWait(t, mb, n)
  PROVE  BoxDone(mb)
<1>0. /\ CoreInv /\ CoreInv' /\ BoxRing(mb) /\ Shut(mb) /\ DOMAIN val = Thread
      /\ pc \in [Thread -> Pc] /\ call \in [Thread -> Call] /\ err \in [Thread -> Err]
      /\ "none" # mb /\ "none" # Tx[mb] /\ mb # Tx[mb]
  BY BoxFinds
<1>1. /\ exists[mb] /\ current = t
      /\ (pc[t] = "run" \/ (pc[t] = "blocked" /\ call[t] = mb))
      /\ pc' = [pc EXCEPT ![t] = "sched"] /\ call' = [call EXCEPT ![t] = mb]
      /\ err' = [err EXCEPT ![t] = "EOK"] /\ UNCHANGED <<val, exists, mbVars>>
  BY DEF MbRecvWait, WaitFor, Block, SuspendFor, MayBlock, InUser, Retrying, Running, At, Goto
<1>2. Alone(t)
  BY <1>0, <1>1 DEF Alone
<1>4. MbOpen(mb) /\ \A x \in Thread : ~Flushing(x)
  BY <1>0, <1>1, OpenAtCall DEF Flushing
<1>5. MbOpen(mb)' = MbOpen(mb)
  <2>1. ~Flushing(t) /\ ~Flushing(t)'
    BY <1>0, <1>1 DEF Flushing
  <2> QED BY <1>1, <1>2, <1>4, <2>1, OpenStays
<1>6. UNCHANGED <<MbOpen(mb), Shown(mb)>> /\ BoxRing(mb)'
  BY <1>0, <1>1, <1>5 DEF Shown, MbContent, BoxRing, mbVars
<1>7. \A x \in Thread \ {t} : Same(mb, Tx[mb], x)
  BY <1>2, AloneSame
<1>8. Same(mb, Tx[mb], t)
  BY <1>0, <1>1 DEF Same, Got, Sent, Taking, Putting, InWait
<1>9. Refills(mb)
  BY <1>0, <1>6, <1>7, <1>8, BoxSame
<1> QED BY <1>2, <1>4, <1>5, <1>6, <1>9 DEF BoxDone, Shut

LEMMA MbEndsBox ==
  ASSUME BoxInv, ObjectsInv', NEW mb \in Mb, NEW t \in Thread, MbEnds(t, mb)
  PROVE  BoxDone(mb)
<1>0. /\ CoreInv /\ CoreInv' /\ BoxRing(mb) /\ Shut(mb) /\ DOMAIN val = Thread
      /\ pc \in [Thread -> Pc] /\ call \in [Thread -> Call] /\ err \in [Thread -> Err]
      /\ pc[Idle] = "run" /\ "none" # mb /\ "none" # Tx[mb] /\ mb # Tx[mb]
  BY BoxFinds
<1>1. PICK b \in {TRUE, FALSE} :
         /\ pc' = [pc EXCEPT ![t] = IF b THEN "sched" ELSE "run"] /\ call' = [call EXCEPT ![t] = "none"]
         /\ val' = [val EXCEPT ![t] = Nothing]
         /\ current = t /\ UNCHANGED <<err, exists, mbVars, waitq>>
         /\ \/ pc[t] = "got" /\ call[t] = mb
            \/ pc[t] = "blocked" /\ call[t] \in {mb, Tx[mb]}
  <2>1. CASE MbRecvReturn(t) /\ call[t] = mb
    <3>1. PICK b \in {TRUE, FALSE} : b = (job[t] = "sched")
      OBVIOUS
    <3> QED BY <2>1, <3>1 DEF MbRecvReturn, EndCall, At, Running, Goto, threadVars, queueVars
  <2>2. CASE MbTimeIsUp(t, mb)
    <3>1. PICK b \in {TRUE, FALSE} : b = FALSE
      OBVIOUS
    <3> QED BY <2>2, <3>1 DEF MbTimeIsUp, Retrying, EndCall, At, Running, Goto, threadVars, queueVars
  <2>3. CASE (CallFails(t, mb) \/ CallFails(t, Tx[mb])) /\ UNCHANGED mbVars
    <3>1. PICK b \in {TRUE, FALSE} : b = FALSE
      OBVIOUS
    <3> QED BY <2>3, <3>1 DEF CallFails, EndCall, At, Running, Goto, threadVars, queueVars
  <2> QED BY <2>1, <2>2, <2>3 DEF MbEnds
<1>2. Alone(t) /\ t # Idle
  BY <1>0, <1>1 DEF Alone
<1>3. \A x \in Thread : ~Flushing(x)
  BY <1>0, <1>1, OpenAtCall DEF Flushing
<1>4. MbOpen(mb)' = MbOpen(mb)
  <2>1. ~Flushing(t) /\ ~Flushing(t)'
    BY <1>0, <1>1 DEF Flushing
  <2> QED BY <1>1, <1>2, <1>3, <2>1, OpenStays
<1>5. UNCHANGED <<MbOpen(mb), Shown(mb)>> /\ BoxRing(mb)'
  BY <1>0, <1>1, <1>4 DEF Shown, MbContent, BoxRing, mbVars
<1>6. \A x \in Thread \ {t} : Same(mb, Tx[mb], x)
  BY <1>2, AloneSame
<1>7. ~Taking(mb, t)' /\ ~Putting(Tx[mb], t)' /\ (~Taking(mb, t) \/ ~Putting(Tx[mb], t))
  BY <1>0, <1>1 DEF Taking, Putting, InWait
<1>8. Refills(mb)
  <2>1. Got(mb, t)' = Nothing /\ Sent(Tx[mb], t)' = Nothing
        /\ (Got(mb, t) = Nothing \/ Sent(Tx[mb], t) = Nothing)
    BY <1>7 DEF Got, Sent
  <2> QED BY <1>0, <1>2, <1>5, <1>6, <2>1, BoxMoves
<1>9. Shut(mb)'
  <2>1. PICK s : s = Tx[mb]
    OBVIOUS
  <2>2. \A x \in Thread : (Taking(mb, x)' => Taking(mb, x)) /\ (Putting(s, x)' => Putting(s, x))
    BY <1>2, <1>7, <2>1 DEF Alone, Taking, Putting, InWait
  <2> QED BY <1>0, <1>1, <1>4, <2>1, <2>2 DEF Shut
<1> QED BY <1>2, <1>5, <1>8, <1>9 DEF BoxDone

LEMMA MbResetBox ==
  ASSUME BoxInv, ObjectsInv', NEW mb \in Mb, NEW t \in Thread \ {Idle}, MbReset(t, mb)
  PROVE  BoxDone(mb)
<1>0. /\ CoreInv /\ CoreInv' /\ MbShape /\ BoxRing(mb) /\ Shut(mb) /\ DOMAIN val = Thread
      /\ pc \in [Thread -> Pc] /\ call \in [Thread -> Call] /\ err \in [Thread -> Err]
      /\ "none" # mb /\ "none" # Tx[mb] /\ mb # Tx[mb]
  BY BoxFinds
<1>1. /\ exists[mb] /\ current = t /\ pc[t] = "run" /\ pc' = [pc EXCEPT ![t] = "sched"]
      /\ UNCHANGED <<call, val, exists>> /\ Emptied(mb)
      /\ \A x \in Thread : err'[x] = "ERROR" \/ err'[x] = err[x]
  BY DEF MbReset, WakeAllWithError, InUser, Running, Goto, ipcCallVars
<1>2. \A x \in Thread : ~Flushing(x) /\ ~Flushing(x)'
  BY <1>0, <1>1, OpenAtCall DEF Flushing
<1>3. MbOpen(mb) /\ MbOpen(mb)'
  BY <1>1, <1>2 DEF MbOpen, Flushing
<1>4. MbContent(mb)' = <<>> /\ BoxRing(mb)'
  BY <1>0, <1>1, ContentEmptied
<1>5. call[t] = "none"
  BY <1>0, <1>1, NoCall
<1>6. PICK s : s = Tx[mb]
  OBVIOUS
<1>7. \A x \in Thread : /\ Taking(mb, x)' <=> Taking(mb, x)
                        /\ Putting(s, x)' => Putting(s, x)
  BY <1>0, <1>1, <1>5, <1>6 DEF Taking, Putting, InWait
<1>8. /\ \A x \in Thread \ {Idle} : Sent(s, x)' \in {Sent(s, x), Nothing}
      /\ \A x \in Thread \ {Idle} : Got(mb, x)' = Got(mb, x)
  BY <1>1, <1>7 DEF Sent, Got
<1>9. MbGot(mb)' = MbGot(mb)
  BY <1>0, <1>8, BoxView
<1>10. /\ DOMAIN MbSends(mb)' = Thread \ {Idle}
       /\ \A c \in Thread \ {Idle} : MbSends(mb)'[c] \in {MbSends(mb)[c], Nothing}
  BY <1>0, <1>6, <1>8, BoxView
<1>11. MbOpen(mb)' = MbOpen(mb)
  BY <1>3 DEF MbOpen
<1>12. MbFifo(mb)!Clear
  BY <1>3, <1>4, <1>9, <1>10, <1>11 DEF MbFifo!Clear
<1>13. Refills(mb)
  BY <1>12 DEF Refills, MbFifo!Next
<1> QED BY <1>0, <1>1, <1>3, <1>4, <1>13 DEF BoxDone, Shut

LEMMA MbDetachBox ==
  ASSUME BoxInv, ObjectsInv', Guarded, NEW mb \in Mb, MbDetach(Main, mb)
  PROVE  BoxDone(mb)
<1>0. /\ CoreInv /\ CoreInv' /\ BoxRing(mb) /\ Shut(mb) /\ DOMAIN val = Thread
      /\ pc \in [Thread -> Pc] /\ call \in [Thread -> Call]
      /\ "none" # mb /\ "none" # Tx[mb] /\ mb # Tx[mb]
  BY BoxFinds
<1>1. PICK t \in Thread : t = Main
  BY KernelAssumption
<1>2. /\ exists[mb] /\ current = t /\ pc[t] = "run" /\ pc' = [pc EXCEPT ![t] = "flush"]
      /\ call' = [call EXCEPT ![t] = mb] /\ UNCHANGED <<val, err, waitq, mbVars>>
      /\ Quiet(mb) /\ Quiet(Tx[mb])
  BY <1>1 DEF MbDetach, Detach, InUser, Running, Goto, ipcCallVars, threadVars, queueVars
<1>3. MbOpen(mb)
  BY <1>0, <1>2, OpenAtCall DEF Flushing
<1>4. ~MbOpen(mb)'
  BY <1>0, <1>2 DEF MbOpen
<1>5. BoxRing(mb)'
  BY <1>0, <1>2 DEF BoxRing, mbVars
<1>6. PICK s \in Obj : s = Tx[mb] /\ Quiet(s)
  BY <1>2, BoxLists
<1>7. call[t] = "none"
  BY <1>0, <1>2, NoCall
<1>8. \A x \in Thread : Same(mb, s, x)
  BY <1>0, <1>2, <1>6, <1>7 DEF Same, Sent, Got, Taking, Putting, InWait
<1>9. \A x \in Thread : /\ call[x] = mb => x \in Range(waitq[mb])
                        /\ call[x] = s => x \in Range(waitq[s])
  BY <1>2, <1>6 DEF Quiet
<1>10. \A x \in Thread : ~Taking(mb, x)'
  <2>1. \A x \in Range(waitq[mb]) : pc[x] # "got"
    BY <1>0, BoxLists, CoreView
  <2> QED BY <1>0, <1>2, <1>9, <2>1 DEF Taking
<1>11. \A x \in Thread : Putting(s, x)' => x \in Range(waitq'[s])
  BY <1>0, <1>2, <1>6, <1>9 DEF Putting, InWait
<1>12. Shut(mb)'
  BY <1>6, <1>10, <1>11 DEF Shut
<1>13. MbSends(mb)' = MbSends(mb) /\ MbGot(mb)' = MbGot(mb)
  BY <1>0, <1>6, <1>8, BoxView DEF Same
<1>14. MbOpen(mb)' = FALSE
  BY <1>4 DEF MbOpen
<1>15. MbFifo(mb)!Close
  BY <1>3, <1>4, <1>13, <1>14 DEF MbFifo!Close
<1>16. Refills(mb)
  BY <1>15 DEF Refills, MbFifo!Next
<1> QED BY <1>0, <1>2, <1>5, <1>12, <1>16 DEF BoxDone

(* The senders are next, or the mailbox is gone. *)
LEMMA MbFlushBox ==
  ASSUME BoxInv, ObjectsInv', NEW mb \in Mb, NEW t \in Thread, MbFlushSenders(t, mb) \/ MbFlushEnd(t, mb)
  PROVE  BoxDone(mb)
<1>0. /\ CoreInv /\ CoreInv' /\ MbShape /\ BoxRing(mb) /\ Shut(mb) /\ DOMAIN val = Thread
      /\ pc \in [Thread -> Pc] /\ call \in [Thread -> Call]
      /\ "none" # mb /\ "none" # Tx[mb] /\ mb # Tx[mb]
  BY BoxFinds
<1>1. /\ pc[t] = "flush" /\ call[t] \in {mb, Tx[mb]} /\ UNCHANGED <<val, err, waitq>>
      /\ \A x \in Thread \ {t} : UNCHANGED <<pc[x], call[x]>>
      /\ pc'[t] = "flush" \/ call'[t] = "none"
  BY <1>0 DEF MbFlushSenders, MbFlushEnd, At, Goto, ipcCallVars, threadVars, queueVars
<1>2. ~MbOpen(mb) /\ ~MbOpen(mb)'
  <2>1. CASE MbFlushSenders(t, mb)
    <3>1. pc'[t] = "flush" /\ call'[t] = Tx[mb]
      BY <1>0, <1>1, <2>1 DEF MbFlushSenders
    <3> QED BY <1>1, <3>1 DEF MbOpen
  <2>2. CASE MbFlushEnd(t, mb)
    <3>1. exists \in [Obj -> BOOLEAN] /\ mb \in Obj
      BY BoxLists DEF BoxInv, ObjectsInv
    <3>2. ~exists'[mb]
      BY <2>2, <3>1 DEF MbFlushEnd
    <3> QED BY <1>1, <3>2 DEF MbOpen
  <2> QED BY <2>1, <2>2
<1>3. MbOpen(mb)' = MbOpen(mb)
  BY <1>2 DEF MbOpen
<1>4. UNCHANGED <<MbOpen(mb), Shown(mb)>>
  BY <1>2, <1>3 DEF Shown
<1>5. BoxRing(mb)'
  <2>1. CASE MbFlushSenders(t, mb)
    BY <1>0, <2>1 DEF MbFlushSenders, mbVars, BoxRing
  <2>2. CASE MbFlushEnd(t, mb)
    BY <1>0, <2>2, ContentEmptied DEF MbFlushEnd
  <2> QED BY <2>1, <2>2
<1>6. PICK s : s = Tx[mb]
  OBVIOUS
<1>7. \A x \in Thread : /\ Taking(mb, x)' <=> Taking(mb, x)
                        /\ Putting(s, x)' <=> Putting(s, x)
  BY <1>0, <1>1, <1>6 DEF Taking, Putting, InWait
<1>8. Refills(mb)
  <2>1. \A x \in Thread : Same(mb, s, x)
    BY <1>1, <1>7 DEF Same, Sent, Got
  <2> QED BY <1>0, <1>4, <1>6, <2>1, BoxSame
<1>9. Shut(mb)'
  BY <1>0, <1>1, <1>2, <1>6, <1>7 DEF Shut
<1> QED BY <1>0, <1>1, <1>5, <1>8, <1>9 DEF BoxDone

LEMMA MbInitBox ==
  ASSUME BoxInv, ObjectsInv', NEW mb \in Mb, MbInit(Main, mb)
  PROVE  BoxDone(mb)
<1>0. /\ CoreInv /\ CoreInv' /\ MbShape /\ BoxRing(mb) /\ Shut(mb) /\ DOMAIN val = Thread
  BY BoxFinds
<1>1. /\ current = Main /\ pc[Main] = "run" /\ ~exists[mb] /\ exists' = [exists EXCEPT ![mb] = TRUE]
      /\ UNCHANGED <<pc, call, val, err>> /\ Emptied(mb)
  BY DEF MbInit, ObjectInit, InUser, Running, callVars, threadVars, ipcCallVars
<1>2. Main \in Thread /\ exists \in [Obj -> BOOLEAN] /\ mb \in Obj /\ BoxOK(mb)
  BY KernelAssumption, BoxLists DEF BoxInv, ObjectsInv, MbInv
<1>3. \A x \in Thread : ~Flushing(x)
  BY <1>0, <1>1, <1>2, OpenAtCall DEF Flushing
<1>4. ~MbOpen(mb) /\ MbOpen(mb)'
  BY <1>1, <1>2, <1>3 DEF MbOpen, Flushing
<1>5. MbContent(mb)' = <<>> /\ BoxRing(mb)'
  BY <1>0, <1>1, ContentEmptied
<1>6. PICK s : s = Tx[mb]
  OBVIOUS
<1>7. waitq[s] = <<>>
  BY <1>1, <1>2, <1>6 DEF BoxOK
<1>8. \A x \in Thread : ~Taking(mb, x) /\ ~Putting(s, x)
  BY <1>0, <1>4, <1>6, <1>7 DEF Shut, Range
<1>9. \A x \in Thread : ~Taking(mb, x)' /\ ~Putting(s, x)'
  BY <1>1, <1>8 DEF Taking, Putting, InWait
<1>10. \A x \in Thread : /\ Sent(s, x) = Nothing /\ Sent(s, x)' = Nothing
                         /\ Got(mb, x) = Nothing /\ Got(mb, x)' = Nothing
  BY <1>8, <1>9 DEF Sent, Got
<1>11. /\ MbSends(mb)' = MbSends(mb) /\ MbGot(mb)' = MbGot(mb)
       /\ \A c \in Thread \ {Idle} : MbSends(mb)[c] = Nothing /\ MbGot(mb)[c] = Nothing
  BY <1>0, <1>6, <1>10, BoxView
<1>12. MbOpen(mb)' = TRUE
  BY <1>4 DEF MbOpen
<1>13. MbFifo(mb)!Open
  BY <1>4, <1>5, <1>11, <1>12 DEF MbFifo!Open
<1>14. Refills(mb)
  BY <1>13 DEF Refills, MbFifo!Next
<1> QED BY <1>0, <1>1, <1>4, <1>5, <1>14 DEF BoxDone, Shut

LEMMA MailboxBox ==
  ASSUME BoxInv, ObjectsInv', Guarded, NEW mb \in Mb, MbActs(mb)
  PROVE  BoxDone(mb)
<1>1. CASE \E t \in Thread : MbEnds(t, mb) \/ MbFlushSenders(t, mb) \/ MbFlushEnd(t, mb)
  BY <1>1, MbEndsBox, MbFlushBox
<1>2. CASE \E t \in Thread \ {Idle} : MbCalls(t, mb)
  <2>1. PICK t \in Thread \ {Idle} : MbCalls(t, mb)
    BY <1>2
  <2>2. CASE \E m \in Sends[t] : MbSend(t, mb, m)
    BY <2>2, MbSendBox
  <2>3. CASE \E m \in Sends[t], n \in Timeouts \cup {left[t]} : MbSendWait(t, mb, m, n)
    BY <2>3, MbSendWaitBox
  <2>4. CASE MbRecv(t, mb) \/ MbReset(t, mb)
    BY <2>4, MbRecvBox, MbResetBox
  <2>5. CASE \E n \in Timeouts \cup {left[t]} : MbRecvWait(t, mb, n)
    BY <2>5, MbRecvWaitBox
  <2> QED BY <2>1, <2>2, <2>3, <2>4, <2>5 DEF MbCalls
<1>3. CASE MbInit(Main, mb) \/ MbDetach(Main, mb) \/ \E m \in IsrSends : IsrMbSend(mb, m)
  BY <1>3, MbInitBox, MbDetachBox, IsrMbSendBox
<1> QED BY <1>1, <1>2, <1>3 DEF MbActs

(***************************************************************************)
(* The steps of the whole.                                                 *)
(***************************************************************************)
LEMMA BoxesStep ==
  ASSUME BoxInv, Guarded, [ObjectsNext]_objectsVars
  PROVE  ObjectsInv' /\ Shaped' /\ \A mb \in Mb : BoxDone(mb)
<1>0. CoreInv /\ LeftOK /\ MbInv /\ exists \in [Obj -> BOOLEAN] /\ ObjectsInv /\ MbShape /\ Shaped
  BY DEF BoxInv, ObjectsInv, MbInv
<1>1. /\ ObjectsInv' /\ Shaped'
      /\ \/ IpcCallStep /\ Calm /\ UNCHANGED <<exists, val, mbVars>>
         \/ MailboxNext \/ (Aloof(MbLists) /\ UNCHANGED mbVars)
  BY <1>0, StepsForQueues
<1>2. CASE IpcCallStep /\ Calm /\ UNCHANGED <<exists, val, mbVars>>
  <2>1. CoreInv'
    BY <1>1 DEF ObjectsInv
  <2> QED BY <1>1, <1>2, <2>1, KernelBox DEF BoxDone
<1>3. CASE Aloof(MbLists) /\ UNCHANGED mbVars
  <2> SUFFICES ASSUME NEW mb \in Mb PROVE BoxDone(mb)
    BY <1>1
  <2>1. mb \in MbLists /\ Tx[mb] \in MbLists
    BY BoxLists
  <2>2. Apart(mb) /\ Apart(Tx[mb]) /\ exists'[mb] = exists[mb]
    BY <1>3, <2>1 DEF Aloof
  <2>3. \A x \in Thread : Elsewhere({mb, Tx[mb]}, x)
    BY <1>3, <2>1 DEF Aloof, Elsewhere
  <2>4. Carries({mb, Tx[mb]})
    BY <1>3, <2>1 DEF Aloof, Carries
  <2>5. UNCHANGED <<entry, msg_pool, in_offset, out_offset>>
    BY <1>3 DEF mbVars
  <2> QED BY <1>1, <2>2, <2>3, <2>4, <2>5, ApartBox DEF BoxDone
<1>4. CASE MailboxNext
  <2>1. PICK b \in Mb : MbActs(b)
    BY <1>4, MbOne
  <2>2. BoxDone(b)
    BY <1>1, <2>1, MailboxBox
  <2>3. ASSUME NEW mb \in Mb \ {b} PROVE BoxDone(mb)
    <3>1. /\ \A x \in Thread : Elsewhere({mb, Tx[mb]}, x)
          /\ Carries({mb, Tx[mb]})
          /\ entry'[mb] = entry[mb] /\ msg_pool'[mb] = msg_pool[mb]
          /\ in_offset'[mb] = in_offset[mb] /\ out_offset'[mb] = out_offset[mb]
      BY <1>0, <2>1, OtherBoxes
    <3>2. Does({b, Tx[b]}) /\ \A o \in Obj \ {b} : exists'[o] = exists[o]
      BY <1>0, <2>1, MbActsStep DEF MbDoes
    <3>3. mb \in Obj \ {b, Tx[b]} /\ Tx[mb] \in Obj \ {b, Tx[b]}
      BY BoxLists
    <3>4. Apart(mb) /\ Apart(Tx[mb]) /\ exists'[mb] = exists[mb]
      BY <3>2, <3>3 DEF Does
    <3> QED BY <1>1, <3>1, <3>4, ApartBox DEF BoxDone
  <2> QED BY <1>1, <2>2, <2>3
<1> QED BY <1>1, <1>2, <1>3, <1>4

LEMMA BoxInit ==
  ASSUME ObjectsInit
  PROVE  BoxInv /\ \A mb \in Mb : MbFifo(mb)!Init
<1>1. /\ exists = [o \in Obj |-> FALSE] /\ call = [t \in Thread |-> "none"]
      /\ val = [t \in Thread |-> Nothing] /\ job = [t \in Thread |-> "none"]
      /\ entry = [mb \in Mb |-> 0] /\ in_offset = [mb \in Mb |-> 0] /\ out_offset = [mb \in Mb |-> 0]
  BY DEF ObjectsInit, IpcCallInit, KernelInit, MailboxInit
<1>2. ASSUME NEW mb \in Mb PROVE BoxRing(mb) /\ Shut(mb) /\ MbFifo(mb)!Init
  <2>1. mb \in Obj /\ mb # "none" /\ Tx[mb] # "none"
    BY BoxLists
  <2>2. (0 + 0) % Size = 0
    BY MailboxAssumption, PlaceMod
  <2>3. BoxRing(mb)
    BY <1>1, <2>2 DEF BoxRing
  <2>4. Shut(mb)
    BY <1>1, <2>1 DEF Shut, Taking, Putting, InWait
  <2>5. MbOpen(mb) = FALSE
    BY <1>1, <2>1 DEF MbOpen
  <2>6. /\ MbSends(mb) = [c \in Thread \ {Idle} |-> Nothing]
        /\ MbGot(mb) = [c \in Thread \ {Idle} |-> Nothing]
    BY <1>1, <2>1 DEF MbSends, MbGot
  <2> QED BY <2>3, <2>4, <2>5, <2>6 DEF MbFifo!Init
<1> QED BY <1>1, <1>2, ObjectsInitInv DEF BoxInv, Shaped

(* The ring of each mailbox is whole, and once it is detached nobody is    *)
(* left in a call on it but those who are about to be turned away.         *)
THEOREM BoxInvariant == Guarded => (ObjectsSpec => []BoxInv)
<1> SUFFICES ASSUME Guarded PROVE ObjectsSpec => []BoxInv
  OBVIOUS
<1>1. ObjectsInit => BoxInv
  BY BoxInit
<1>2. BoxInv /\ [ObjectsNext]_objectsVars => BoxInv'
  BY BoxesStep DEF BoxInv, BoxDone
<1> QED BY <1>1, <1>2, PTL DEF ObjectsSpec

(* Every mailbox keeps the promise of BoundedFifo, whatever its size, the  *)
(* messages and the order of the waiting threads: a message that is sent   *)
(* is received once, in order, and it is the one that its sender brought.  *)
THEOREM MailboxesImplement ==
  ASSUME NEW mb \in Mb
  PROVE  Guarded => (ObjectsSpec => MbFifo(mb)!Spec)
<1> SUFFICES ASSUME Guarded PROVE ObjectsSpec => MbFifo(mb)!Spec
  OBVIOUS
<1>1. ObjectsInit => MbFifo(mb)!Init
  BY BoxInit
<1>2. BoxInv /\ [ObjectsNext]_objectsVars => [MbFifo(mb)!Next]_(MbFifo(mb)!vars)
  BY BoxesStep DEF BoxDone, Refills
<1> QED BY <1>1, <1>2, BoxInvariant, PTL DEF ObjectsSpec, MbFifo!Spec

(***************************************************************************)
(* A data queue implements BoundedFifo.                                    *)
(***************************************************************************)

(* Two places of a ring of n that are less than n apart differ. *)
LEMMA PlacesDiffer ==
  ASSUME NEW n \in Nat \ {0}, NEW a \in Nat, NEW k \in 1 .. n - 1
  PROVE  (a + k) % n # a % n
<1> SUFFICES ASSUME (a + k) % n = a % n PROVE FALSE
  OBVIOUS
<1>1. PICK p \in Int, r \in Int : a = n * p + r /\ r = a % n
  <2>1. a = n * (a \div n) + (a % n) /\ a \div n \in Int /\ a % n \in Int
    OBVIOUS
  <2> QED BY <2>1
<1>2. PICK s \in Int, z \in Int : a + k = n * s + z /\ z = (a + k) % n
  <2>1. a + k \in Nat
    OBVIOUS
  <2>2. a + k = n * ((a + k) \div n) + ((a + k) % n) /\ (a + k) \div n \in Int /\ (a + k) % n \in Int
    BY <2>1
  <2> QED BY <2>2
<1>3. PICK d \in Int : d = s - p
  OBVIOUS
<1>4. n * s - n * p = n * (s - p)
  OBVIOUS
<1>5. k = n * d
  BY <1>1, <1>2, <1>3, <1>4
<1>6. CASE d <= 0
  <2>1. n * d <= 0
    BY <1>6
  <2> QED BY <1>5, <2>1
<1>7. CASE d >= 1
  <2>1. n * d >= n
    BY <1>7
  <2> QED BY <1>5, <2>1
<1> QED BY <1>3, <1>6, <1>7

DqContent(q) == [i \in 1 .. Length(q) |-> items[q][(get_index[q] + i - 1) % DqSize]]

(* The n items of the ring p from the index g on. *)
RingItems(p, g, n) == [i \in 1 .. n |-> p[(g + i - 1) % DqSize]]

Reads(c, p, g, n) ==
  /\ c \in Seq(Message \cup {Nothing}) /\ Len(c) = n
  /\ \A i \in 1 .. n : c[i] = p[(g + (i - 1)) % DqSize]

LEMMA RingRead ==
  ASSUME NEW p \in [0 .. DqSize - 1 -> Message \cup {Nothing}], NEW g \in Nat, NEW n \in Nat
  PROVE  Reads(RingItems(p, g, n), p, g, n)
<1>0. DqSize \in Nat \ {0}
  BY DataQueueAssumption
<1> DEFINE c == RingItems(p, g, n)
<1>1. ASSUME NEW i \in 1 .. n
      PROVE  g + i - 1 = g + (i - 1) /\ p[(g + (i - 1)) % DqSize] \in Message \cup {Nothing}
  <2>1. g + i - 1 = g + (i - 1) /\ g + (i - 1) \in Nat
    OBVIOUS
  <2>2. (g + (i - 1)) % DqSize \in 0 .. DqSize - 1
    BY <1>0, <2>1
  <2> QED BY <2>1, <2>2
<1>2. c \in [1 .. n -> Message \cup {Nothing}]
  BY <1>1 DEF RingItems
<1>3. c \in Seq(Message \cup {Nothing}) /\ Len(c) = n
  BY <1>2
<1>4. \A i \in 1 .. n : c[i] = p[(g + (i - 1)) % DqSize]
  BY <1>1 DEF RingItems
<1> QED BY <1>3, <1>4 DEF Reads

(* The queue before and after a step. *)
LEMMA ItemsSeq ==
  ASSUME DqShape, DqShape', NEW q \in Dq, RingOK(q), RingOK(q)'
  PROVE  /\ DqContent(q) \in Seq(Message \cup {Nothing}) /\ Len(DqContent(q)) = Length(q)
         /\ Length(q) \in 0 .. DqSize /\ get_index[q] \in Nat /\ put_index[q] = get_index[q] + Length(q)
         /\ \A i \in 1 .. Length(q) : DqContent(q)[i] = items[q][(get_index[q] + (i - 1)) % DqSize]
         /\ DqContent(q)' \in Seq(Message \cup {Nothing}) /\ Len(DqContent(q)') = Length(q)'
         /\ \A i \in 1 .. Length(q)' : DqContent(q)'[i] = items'[q][(get_index'[q] + (i - 1)) % DqSize]
<1>0. /\ DqSize \in Nat /\ get_index[q] \in Nat /\ put_index[q] \in Nat
      /\ get_index'[q] \in Nat /\ put_index'[q] \in Nat
      /\ items[q] \in [0 .. DqSize - 1 -> Message \cup {Nothing}]
      /\ items'[q] \in [0 .. DqSize - 1 -> Message \cup {Nothing}]
  BY DataQueueAssumption DEF DqShape
<1>1. Length(q) \in 0 .. DqSize /\ Length(q)' \in Nat /\ put_index[q] = get_index[q] + Length(q)
  BY <1>0 DEF RingOK, Length
<1>2. Reads(DqContent(q), items[q], get_index[q], Length(q))
  <2>1. DqContent(q) = RingItems(items[q], get_index[q], Length(q))
    BY DEF DqContent, RingItems
  <2>2. Reads(RingItems(items[q], get_index[q], Length(q)), items[q], get_index[q], Length(q))
    BY <1>0, <1>1, RingRead
  <2> QED BY <2>1, <2>2
<1>3. Reads(DqContent(q)', items'[q], get_index'[q], Length(q)')
  <2>1. DqContent(q)' = RingItems(items'[q], get_index'[q], Length(q)')
    BY DEF DqContent, RingItems
  <2>2. Reads(RingItems(items'[q], get_index'[q], Length(q)'), items'[q], get_index'[q], Length(q)')
    BY <1>0, <1>1, RingRead
  <2> QED BY <2>1, <2>2
<1> QED BY <1>0, <1>1, <1>2, <1>3 DEF Reads

(* What is pushed comes last. *)
LEMMA ItemsPut ==
  ASSUME DqShape, DqShape', NEW q \in Dq, RingOK(q), RingOK(q)', NEW m \in Message, Length(q) # DqSize,
         items' = [items EXCEPT ![q][put_index[q] % DqSize] = m],
         put_index' = [put_index EXCEPT ![q] = @ + 1], UNCHANGED get_index
  PROVE  DqContent(q)' = Append(DqContent(q), m) /\ Len(DqContent(q)) < DqSize
<1>0. DqSize \in Nat \ {0} /\ items[q] \in [0 .. DqSize - 1 -> Message \cup {Nothing}]
  BY DataQueueAssumption DEF DqShape
<1>1. PICK c, n, g : c = DqContent(q) /\ n = Length(q) /\ g = get_index[q]
  OBVIOUS
<1>2. /\ c \in Seq(Message \cup {Nothing}) /\ Len(c) = n /\ n \in 0 .. DqSize /\ g \in Nat
      /\ put_index[q] = g + n /\ \A i \in 1 .. n : c[i] = items[q][(g + (i - 1)) % DqSize]
  BY <1>1, ItemsSeq
<1>3. PICK d : d = DqContent(q)'
  OBVIOUS
<1>4. get_index'[q] = g /\ put_index'[q] = g + n + 1 /\ Length(q)' = n + 1
  <2>1. put_index'[q] = put_index[q] + 1
    BY DEF DqShape
  <2> QED BY <1>1, <1>2, <2>1 DEF Length
<1>5. /\ d \in Seq(Message \cup {Nothing}) /\ Len(d) = n + 1
      /\ \A i \in 1 .. n + 1 : d[i] = items'[q][(g + (i - 1)) % DqSize]
  <2>1. /\ DqContent(q)' \in Seq(Message \cup {Nothing}) /\ Len(DqContent(q)') = Length(q)'
        /\ \A i \in 1 .. Length(q)' : DqContent(q)'[i] = items'[q][(get_index'[q] + (i - 1)) % DqSize]
    BY ItemsSeq
  <2> QED BY <1>3, <1>4, <2>1
<1>6. PICK p, k : p = items[q] /\ k = (g + n) % DqSize
  OBVIOUS
<1>7. k \in 0 .. DqSize - 1 /\ p \in [0 .. DqSize - 1 -> Message \cup {Nothing}]
  <2>1. g + n \in Nat
    BY <1>2
  <2> QED BY <1>0, <1>6, <2>1
<1>8. items'[q] = [p EXCEPT ![k] = m]
  BY <1>2, <1>6 DEF DqShape
<1>9. d[n + 1] = m
  <2>1. n + 1 \in 1 .. n + 1 /\ g + ((n + 1) - 1) = g + n
    BY <1>2
  <2>2. [p EXCEPT ![k] = m][k] = m
    BY <1>7
  <2> QED BY <1>5, <1>6, <1>8, <2>1, <2>2
<1>10. n < DqSize
  <2>1. n # DqSize /\ n \in 0 .. DqSize
    BY <1>1, <1>2
  <2> QED BY <1>0, <2>1
<1>11. ASSUME NEW i \in 1 .. n PROVE d[i] = c[i]
  <2>1. /\ i \in 1 .. n + 1 /\ g + (i - 1) \in Nat /\ n - (i - 1) \in 1 .. DqSize - 1
        /\ (g + (i - 1)) + (n - (i - 1)) = g + n
    <3>1. n \in Nat /\ g \in Nat /\ DqSize \in Nat
      BY <1>0, <1>2
    <3> QED BY <1>10, <3>1
  <2>2. PICK a \in Nat, b \in 1 .. DqSize - 1 : a = g + (i - 1) /\ b = n - (i - 1) /\ a + b = g + n
    BY <2>1
  <2>3. (a + b) % DqSize # a % DqSize /\ a % DqSize \in 0 .. DqSize - 1
    BY <1>0, PlacesDiffer
  <2>4. PICK j \in 0 .. DqSize - 1 : j = a % DqSize /\ j # k
    BY <1>6, <2>2, <2>3
  <2>5. [p EXCEPT ![k] = m][j] = p[j]
    BY <1>7, <2>4
  <2>6. d[i] = items'[q][j] /\ c[i] = p[j]
    BY <1>2, <1>5, <1>6, <2>1, <2>2, <2>4
  <2> QED BY <1>8, <2>5, <2>6
<1>12. d = Append(c, m)
  <2>1. m \in Message \cup {Nothing}
    OBVIOUS
  <2> QED BY <1>2, <1>5, <1>9, <1>11, <2>1, AppendedIs
<1> QED BY <1>1, <1>2, <1>3, <1>10, <1>12

(* What is popped is the first. *)
LEMMA ItemsGet ==
  ASSUME DqShape, DqShape', NEW q \in Dq, RingOK(q), RingOK(q)', Length(q) # 0,
         items' = [items EXCEPT ![q][get_index[q] % DqSize] = Nothing],
         get_index' = [get_index EXCEPT ![q] = @ + 1], UNCHANGED put_index
  PROVE  /\ DqContent(q)' = Tail(DqContent(q)) /\ DqContent(q) # <<>>
         /\ Head(DqContent(q)) = items[q][get_index[q] % DqSize]
<1>0. DqSize \in Nat \ {0} /\ items[q] \in [0 .. DqSize - 1 -> Message \cup {Nothing}]
  BY DataQueueAssumption DEF DqShape
<1>1. PICK c, n, g : c = DqContent(q) /\ n = Length(q) /\ g = get_index[q]
  OBVIOUS
<1>2. /\ c \in Seq(Message \cup {Nothing}) /\ Len(c) = n /\ n \in 1 .. DqSize /\ g \in Nat
      /\ put_index[q] = g + n /\ \A i \in 1 .. n : c[i] = items[q][(g + (i - 1)) % DqSize]
  <2>1. n \in 0 .. DqSize /\ n # 0
    BY <1>1, ItemsSeq
  <2> QED BY <1>0, <1>1, <2>1, ItemsSeq
<1>3. PICK d : d = DqContent(q)'
  OBVIOUS
<1>4. get_index'[q] = g + 1 /\ put_index'[q] = g + n /\ Length(q)' = n - 1
  <2>1. get_index'[q] = get_index[q] + 1
    BY DEF DqShape
  <2> QED BY <1>1, <1>2, <2>1 DEF Length
<1>5. /\ d \in Seq(Message \cup {Nothing}) /\ Len(d) = n - 1
      /\ \A i \in 1 .. n - 1 : d[i] = items'[q][((g + 1) + (i - 1)) % DqSize]
  <2>1. /\ DqContent(q)' \in Seq(Message \cup {Nothing}) /\ Len(DqContent(q)') = Length(q)'
        /\ \A i \in 1 .. Length(q)' : DqContent(q)'[i] = items'[q][(get_index'[q] + (i - 1)) % DqSize]
    BY ItemsSeq
  <2> QED BY <1>3, <1>4, <2>1
<1>6. PICK p, k : p = items[q] /\ k = g % DqSize
  OBVIOUS
<1>7. k \in 0 .. DqSize - 1 /\ p \in [0 .. DqSize - 1 -> Message \cup {Nothing}]
  BY <1>0, <1>2, <1>6
<1>8. items'[q] = [p EXCEPT ![k] = Nothing]
  BY <1>1, <1>6 DEF DqShape
<1>9. ASSUME NEW i \in 1 .. n - 1 PROVE d[i] = c[i + 1]
  <2>1. i + 1 \in 1 .. n /\ i \in 1 .. DqSize - 1 /\ (g + 1) + (i - 1) = g + i /\ g + ((i + 1) - 1) = g + i
    BY <1>0, <1>2
  <2>2. (g + i) % DqSize # g % DqSize
    BY <1>0, <1>2, <2>1, PlacesDiffer
  <2>3. PICK j \in 0 .. DqSize - 1 : j = (g + i) % DqSize /\ j # k
    <3>1. g + i \in Nat
      BY <1>2, <2>1
    <3>2. (g + i) % DqSize \in 0 .. DqSize - 1
      BY <1>0, <3>1
    <3> QED BY <1>6, <2>2, <3>2
  <2>4. [p EXCEPT ![k] = Nothing][j] = p[j]
    BY <1>7, <2>3
  <2>5. d[i] = items'[q][j] /\ c[i + 1] = p[j]
    BY <1>2, <1>5, <1>6, <2>1, <2>3
  <2> QED BY <1>8, <2>4, <2>5
<1>10. c # <<>> /\ Head(c) = c[1]
  <2>1. c # <<>>
    BY <1>2
  <2> QED BY <1>2, <2>1, HeadTailProperties
<1>11. c[1] = p[k]
  <2>1. 1 \in 1 .. n /\ g + (1 - 1) = g
    BY <1>2
  <2> QED BY <1>2, <1>6, <2>1
<1>12. d = Tail(c)
  <2>1. Len(d) = Len(c) - 1 /\ \A i \in 1 .. Len(d) : d[i] = c[i + 1]
    BY <1>2, <1>5, <1>9
  <2> QED BY <1>2, <1>5, <1>10, <2>1, TailIs
<1> QED BY <1>1, <1>3, <1>6, <1>10, <1>11, <1>12

(* What the data queue shows of itself before and after a step. *)
LEMMA QueueView ==
  ASSUME CoreInv, CoreInv', NEW q \in Dq
  PROVE  /\ DqSends(q) = [x \in Thread \ {Idle} |-> Sent(PushList[q], x)]
         /\ DqGot(q) = [x \in Thread \ {Idle} |-> Got(q, x)]
         /\ DqSends(q)' = [x \in Thread \ {Idle} |-> Sent(PushList[q], x)']
         /\ DqGot(q)' = [x \in Thread \ {Idle} |-> Got(q, x)']
<1>1. PICK s \in Obj : s = PushList[q]
  BY QueueLists
<1>2. \A x \in Thread :
        /\ (call[x] = s /\ (x \in Range(waitq[s]) \/ x \in OnTheWay(s))) <=> Putting(s, x)
        /\ (call'[x] = s /\ (x \in Range(waitq'[s]) \/ x \in OnTheWay(s)')) <=> Putting(s, x)'
  BY SendsView
<1>3. /\ DqSends(q) = [x \in Thread \ {Idle} |->
           IF call[x] = s /\ (x \in Range(waitq[s]) \/ x \in OnTheWay(s)) THEN val[x] ELSE Nothing]
      /\ DqSends(q)' = [x \in Thread \ {Idle} |->
           IF call'[x] = s /\ (x \in Range(waitq'[s]) \/ x \in OnTheWay(s)') THEN val'[x] ELSE Nothing]
  BY <1>1 DEF DqSends
<1>4. DqSends(q) = [x \in Thread \ {Idle} |-> Sent(s, x)]
  BY <1>2, <1>3 DEF Sent
<1>5. DqSends(q)' = [x \in Thread \ {Idle} |-> Sent(s, x)']
  BY <1>2, <1>3 DEF Sent
<1>6. DqGot(q) = [x \in Thread \ {Idle} |-> Got(q, x)] /\ DqGot(q)' = [x \in Thread \ {Idle} |-> Got(q, x)']
  BY DEF DqGot, Got, Taking
<1> QED BY <1>1, <1>4, <1>5, <1>6

Moves(q) == [DqFifo(q)!Next]_(DqFifo(q)!vars)

(* The ring of the queue is as it was. *)
Unmoved(q) ==
  UNCHANGED <<exists[q], items[q], put_index[q], get_index[q]>>

LEMMA UnmovedContent ==
  ASSUME NEW q, Unmoved(q)
  PROVE  DqContent(q)' = DqContent(q) /\ exists'[q] = exists[q]
BY DEF Unmoved, DqContent, Length

LEMMA QueueSame ==
  ASSUME CoreInv, CoreInv', NEW q \in Dq, Unmoved(q), \A x \in Thread \ {Idle} : Same(q, PushList[q], x)
  PROVE  Moves(q)
<1>1. DqSends(q)' = DqSends(q) /\ DqGot(q)' = DqGot(q)
  BY QueueView DEF Same
<1>2. DqContent(q)' = DqContent(q) /\ exists'[q] = exists[q]
  BY UnmovedContent
<1> QED BY <1>1, <1>2 DEF Moves, DqFifo!vars, DqContent

(* A call ends, or changes into one that moves no message. *)
LEMMA QueueMoves ==
  ASSUME CoreInv, CoreInv', NEW q \in Dq, Unmoved(q), NEW t \in Thread \ {Idle},
         \A x \in Thread \ {Idle, t} : Same(q, PushList[q], x),
         \/ Same(q, PushList[q], t)
         \/ Sent(PushList[q], t)' = Nothing /\ Got(q, t)' = Got(q, t)
         \/ Sent(PushList[q], t)' = Sent(PushList[q], t) /\ Got(q, t)' = Nothing
  PROVE  Moves(q)
<1>0. DqContent(q)' = DqContent(q) /\ exists'[q] = exists[q]
  BY UnmovedContent
<1>1. CASE Same(q, PushList[q], t)
  BY <1>1, QueueSame
<1>2. CASE Sent(PushList[q], t)' = Nothing /\ Got(q, t)' = Got(q, t) /\ Sent(PushList[q], t) # Nothing
  <2>1. DqSends(q)' = [DqSends(q) EXCEPT ![t] = Nothing] /\ DqSends(q)[t] # Nothing
    BY <1>2, QueueView DEF Same
  <2>2. DqGot(q)' = DqGot(q)
    BY <1>2, QueueView DEF Same
  <2>3. DqFifo(q)!GiveUp(t)
    BY <1>0, <2>1, <2>2 DEF DqFifo!GiveUp, DqContent
  <2> QED BY <2>3 DEF Moves, DqFifo!Next
<1>3. CASE Sent(PushList[q], t)' = Sent(PushList[q], t) /\ Got(q, t)' = Nothing /\ Got(q, t) # Nothing
  <2>1. DqGot(q)' = [DqGot(q) EXCEPT ![t] = Nothing] /\ DqGot(q)[t] # Nothing
    BY <1>3, QueueView DEF Same
  <2>2. DqSends(q)' = DqSends(q)
    BY <1>3, QueueView DEF Same
  <2>3. DqFifo(q)!Return(t)
    BY <1>0, <2>1, <2>2 DEF DqFifo!Return, DqContent
  <2> QED BY <2>3 DEF Moves, DqFifo!Next
<1> QED BY <1>1, <1>2, <1>3 DEF Same

(* A message comes in. *)
LEMMA QueuePuts ==
  ASSUME CoreInv, CoreInv', NEW q \in Dq, exists[q], exists'[q] = exists[q], NEW m \in Message,
         Len(DqContent(q)) < DqSize, DqContent(q)' = Append(DqContent(q), m),
         NEW t \in Thread \ {Idle}, \A x \in Thread \ {t} : Same(q, PushList[q], x), Got(q, t)' = Got(q, t),
         \/ Sent(PushList[q], t)' = Sent(PushList[q], t)
         \/ Sent(PushList[q], t) = m /\ Sent(PushList[q], t)' = Nothing
  PROVE  Moves(q)
<1>1. DqGot(q)' = DqGot(q)
  BY QueueView DEF Same
<1>2. DqFifo(q)!HasRoom /\ UNCHANGED <<DqGot(q), exists[q]>>
  BY <1>1 DEF DqFifo!HasRoom, DqContent
<1>3. CASE Sent(PushList[q], t)' = Sent(PushList[q], t)
  <2>1. DqSends(q)' = DqSends(q)
    BY <1>3, QueueView DEF Same
  <2>2. DqFifo(q)!PutNow(m)
    BY <1>2, <2>1 DEF DqFifo!PutNow, DqContent
  <2> QED BY <2>2 DEF Moves, DqFifo!Next
<1>4. CASE Sent(PushList[q], t) = m /\ Sent(PushList[q], t)' = Nothing
  <2>1. DqSends(q)' = [DqSends(q) EXCEPT ![t] = Nothing] /\ DqSends(q)[t] = m
    BY <1>4, QueueView DEF Same
  <2>2. m # Nothing
    BY CallAssumption
  <2>3. DqFifo(q)!Put(t)
    BY <1>2, <2>1, <2>2 DEF DqFifo!Put, DqContent
  <2> QED BY <2>3 DEF Moves, DqFifo!Next
<1> QED BY <1>3, <1>4

(* The caller t begins to wait with its message. *)
LEMMA QueueAsks ==
  ASSUME CoreInv, CoreInv', NEW q \in Dq, exists[q], Unmoved(q), NEW m \in Message,
         NEW t \in Thread \ {Idle}, \A x \in Thread \ {t} : Same(q, PushList[q], x),
         Got(q, t) = Nothing, Got(q, t)' = Nothing, Sent(PushList[q], t) = Nothing, Sent(PushList[q], t)' = m
  PROVE  Moves(q)
<1>0. DqContent(q)' = DqContent(q) /\ exists'[q] = exists[q]
  BY UnmovedContent
<1>1. DqGot(q)' = DqGot(q) /\ DqGot(q)[t] = Nothing
  BY QueueView DEF Same
<1>2. DqSends(q)' = [DqSends(q) EXCEPT ![t] = m] /\ DqSends(q)[t] = Nothing
  BY QueueView DEF Same
<1>3. DqFifo(q)!Ask(t, m)
  BY <1>0, <1>1, <1>2 DEF DqFifo!Ask, DqContent
<1> QED BY <1>3 DEF Moves, DqFifo!Next

(* The caller t takes the first message. *)
LEMMA QueueGets ==
  ASSUME CoreInv, CoreInv', NEW q \in Dq, exists[q], exists'[q] = exists[q],
         DqContent(q) # <<>>, DqContent(q)' = Tail(DqContent(q)),
         NEW t \in Thread \ {Idle}, \A x \in Thread \ {t} : Same(q, PushList[q], x),
         Got(q, t) = Nothing, Got(q, t)' = Head(DqContent(q)),
         Sent(PushList[q], t) = Nothing, Sent(PushList[q], t)' = Nothing
  PROVE  Moves(q)
<1>1. DqGot(q)' = [DqGot(q) EXCEPT ![t] = Head(DqContent(q))] /\ DqGot(q)[t] = Nothing
  BY QueueView DEF Same
<1>2. DqSends(q)' = DqSends(q) /\ DqSends(q)[t] = Nothing
  BY QueueView DEF Same
<1>3. DqFifo(q)!Get(t)
  BY <1>1, <1>2 DEF DqFifo!Get, DqContent
<1> QED BY <1>3 DEF Moves, DqFifo!Next

(* A queue that is not initialised yet is in no call.                      *)
Absent(q) == exists[q] \/ \A x \in Thread : ~Taking(q, x) /\ ~Putting(PushList[q], x)

DqBoxInv == ObjectsInv /\ Shaped /\ \A q \in Dq : Absent(q)

DqDone(q) == Moves(q) /\ Absent(q)'

(***************************************************************************)
(* Calls on other objects, and steps of the kernel.                        *)
(***************************************************************************)

(* The step changes neither the queue nor a call on it. *)
LEMMA SameQueue ==
  ASSUME CoreInv, CoreInv', NEW q \in Dq, Absent(q), Unmoved(q), NEW s, s = PushList[q],
         \A x \in Thread : /\ Putting(s, x)' <=> Putting(s, x)
                           /\ Taking(q, x)' <=> Taking(q, x)
                           /\ Same(q, s, x)
  PROVE  DqDone(q)
<1>1. Moves(q)
  BY QueueSame
<1>2. exists'[q] = exists[q]
  BY DEF Unmoved
<1> QED BY <1>1, <1>2 DEF DqDone, Absent

LEMMA ApartQueue ==
  ASSUME DqBoxInv, ObjectsInv', NEW q \in Dq, Unmoved(q), Apart(PushList[q]),
         \A x \in Thread : Elsewhere({q, PushList[q]}, x), Carries({q, PushList[q]})
  PROVE  DqDone(q)
<1>1. CoreInv /\ CoreInv' /\ Absent(q)
  BY DEF DqBoxInv, ObjectsInv
<1>2. PICK s : s = PushList[q]
  OBVIOUS
<1>3. \A x \in Thread : /\ Putting(s, x)' <=> Putting(s, x)
                        /\ Taking(q, x)' <=> Taking(q, x)
                        /\ Same(q, s, x)
  BY <1>2, ApartClients
<1> QED BY <1>1, <1>2, <1>3, SameQueue

LEMMA KernelQueue ==
  ASSUME DqBoxInv, CoreInv', IpcCallStep, Calm, UNCHANGED <<exists, val, dqVars>>, NEW q \in Dq
  PROVE  DqDone(q)
<1>1. CoreInv /\ Absent(q) /\ Unmoved(q)
  BY DEF DqBoxInv, ObjectsInv, Unmoved, dqVars
<1>2. PICK s \in Obj : s = PushList[q]
  BY QueueLists
<1>3. /\ \A x \in Thread : (Taking(q, x)' <=> Taking(q, x)) /\ (Putting(s, x)' => Putting(s, x))
      /\ \E u : /\ \A x \in Thread \ {u} : Same(q, s, x)
                /\ \/ \A x \in Thread : Same(q, s, x)
                   \/ u \in Thread \ {Idle} /\ Sent(s, u)' = Nothing /\ Got(q, u)' = Got(q, u)
  BY <1>1, QueueLists, KernelClients
<1>4. Moves(q)
  BY <1>1, <1>2, <1>3, QueueSame, QueueMoves
<1>5. Absent(q)'
  BY <1>1, <1>2, <1>3 DEF Absent, Unmoved
<1> QED BY <1>4, <1>5 DEF DqDone

(***************************************************************************)
(* Steps of the data queue's own functions.                                *)
(***************************************************************************)
DqEnds(t, q) ==
  \/ DqPopReturn(t) /\ call[t] = q
  \/ (CallFails(t, q) \/ CallFails(t, PushList[q])) /\ UNCHANGED dqVars

DqCalls(t, q) ==
  \/ \E m \in Sends[t] : \/ DqPush(t, q, m)
                         \/ \E n \in PushTimeouts \cup {left[t]} : DqPushWait(t, q, m, n)
  \/ DqPushFull(t, q)
  \/ DqPop(t, q) \/ (\E n \in Timeouts \cup {left[t]} : DqPopWait(t, q, n))
  \/ DqReset(t, q)

DqActs(q) ==
  \/ \E t \in Thread : DqEnds(t, q) \/ DqFlushPushers(t, q) \/ DqResetEnd(t, q)
  \/ \E t \in Thread \ {Idle} : DqCalls(t, q)
  \/ DqInit(Main, q) \/ IsrDqPop(q)

LEMMA DqOne == DataQueueNext => \E q \in Dq : DqActs(q)
<1> SUFFICES ASSUME DataQueueNext PROVE \E q \in Dq : DqActs(q)
  OBVIOUS
<1>1. CASE \E t \in Thread \ {Idle} : DqCall(t)
  BY <1>1 DEF DqCall, DqActs, DqCalls
<1>2. CASE \E t \in Thread : DqPopReturn(t)
  <2>1. PICK t \in Thread : DqPopReturn(t)
    BY <1>2
  <2>2. call[t] \in Dq
    BY <2>1 DEF DqPopReturn
  <2> QED BY <2>1, <2>2 DEF DqActs, DqEnds
<1>3. CASE \E t \in Thread, q \in Dq : DqFlushPushers(t, q) \/ DqResetEnd(t, q)
  BY <1>3 DEF DqActs
<1>4. CASE \E t \in Thread, q \in Dq : (CallFails(t, q) \/ CallFails(t, PushList[q])) /\ UNCHANGED dqVars
  BY <1>4 DEF DqActs, DqEnds
<1>5. CASE \E q \in Dq : DqInit(Main, q) \/ IsrDqPop(q)
  BY <1>5 DEF DqActs
<1> QED BY <1>1, <1>2, <1>3, <1>4, <1>5 DEF DataQueueNext

(* A step on one queue leaves another one alone. *)
LEMMA OtherQueues ==
  ASSUME CoreInv, DqShape, Shaped, exists \in [Obj -> BOOLEAN], NEW r \in Dq, NEW q \in Dq \ {r}, DqActs(r)
  PROVE  /\ Unmoved(q)
         /\ \E t \in Thread : Alone(t) /\ call[t] \notin {q, PushList[q]} /\ call'[t] \notin {q, PushList[q]}
<1> DEFINE S == {q, PushList[q]}
           Apt(t) == Alone(t) /\ call[t] \notin S /\ call'[t] \notin S
<1>0. /\ "none" \notin S /\ r \notin S /\ PushList[r] \notin S /\ Main \in Thread /\ q # r /\ q \in Obj
      /\ r \in Obj /\ pc \in [Thread -> Pc] /\ call \in [Thread -> Call] /\ err \in [Thread -> Err]
  <2>1. "none" \notin S /\ r \notin S /\ q # r /\ q \in Obj /\ r \in Obj /\ PushList[r] # q
    BY QueueLists
  <2>2. PushList[q] # PushList[r]
    BY QueueLists
  <2> QED BY <2>1, <2>2, CoreView, KernelAssumption DEF Prio
<1> SUFFICES Unmoved(q) /\ \E t \in Thread : Apt(t)
  OBVIOUS
<1> HIDE DEF S
<1> USE DEF Running, InUser, At, Goto, Retrying, MayBlock, Shaped
<1>1. ASSUME NEW t \in Thread, pc[t] = "run" PROVE call[t] = "none"
  BY <1>1, NoCall
<1>2. CASE \E t \in Thread : DqEnds(t, r) \/ DqFlushPushers(t, r) \/ DqResetEnd(t, r)
  <2>1. PICK t \in Thread : DqEnds(t, r) \/ DqFlushPushers(t, r) \/ DqResetEnd(t, r)
    BY <1>2
  <2>2. UNCHANGED <<exists, dqVars>>
    BY <2>1 DEF DqEnds, DqPopReturn, CallFails, DqFlushPushers, DqResetEnd
  <2>3. call[t] \in {r, PushList[r]} /\ call'[t] \in {"none", PushList[r]}
    BY <1>0, <2>1 DEF DqEnds, DqPopReturn, CallFails, EndCall, DqFlushPushers, DqResetEnd
  <2>4. Alone(t)
    BY <1>0, <2>1 DEF DqEnds, DqPopReturn, CallFails, EndCall, DqFlushPushers, DqResetEnd, Alone, ipcCallVars, threadVars
  <2> QED BY <1>0, <2>2, <2>3, <2>4 DEF Unmoved, dqVars
<1>3. CASE \E t \in Thread \ {Idle} : DqCalls(t, r)
  <2>1. PICK t \in Thread \ {Idle} : DqCalls(t, r)
    BY <1>3
  <2>2. CASE \E m : DqPush(t, r, m)
    <3>1. Unmoved(q)
      BY <1>0, <2>2 DEF DqPush, Unmoved, DqShape
    <3>2. Alone(t) /\ call'[t] = "none" /\ (pc[t] = "run" \/ call[t] = PushList[r])
      BY <1>0, <2>2 DEF DqPush, Pushing, EndCall, Alone
    <3> QED BY <1>0, <1>1, <3>1, <3>2
  <2>3. CASE \E m, n : DqPushWait(t, r, m, n)
    <3>1. Unmoved(q)
      BY <1>0, <2>3 DEF DqPushWait, Unmoved
    <3>2. Alone(t) /\ call'[t] = PushList[r] /\ (pc[t] = "run" \/ call[t] = PushList[r])
      BY <1>0, <2>3 DEF DqPushWait, WaitFor, Block, SuspendFor, Alone
    <3> QED BY <1>0, <1>1, <3>1, <3>2
  <2>4. CASE DqPushFull(t, r)
    <3>1. Unmoved(q)
      BY <1>0, <2>4 DEF DqPushFull, Unmoved
    <3>2. Alone(t) /\ call'[t] = call[t] /\ pc[t] = "run"
      BY <1>0, <2>4 DEF DqPushFull, Alone, kernelVars, callVars, threadVars, ipcCallVars
    <3> QED BY <1>0, <1>1, <3>1, <3>2
  <2>5. CASE DqPop(t, r)
    <3>1. Unmoved(q)
      BY <1>0, <2>5 DEF DqPop, TakeItem, Unmoved, DqShape
    <3>2. Alone(t) /\ call'[t] = r /\ (pc[t] = "run" \/ call[t] = r)
      BY <1>0, <2>5 DEF DqPop, Alone
    <3> QED BY <1>0, <1>1, <3>1, <3>2
  <2>6. CASE \E n : DqPopWait(t, r, n)
    <3>1. Unmoved(q)
      BY <1>0, <2>6 DEF DqPopWait, Unmoved, dqVars
    <3>2. Alone(t) /\ call'[t] = r /\ (pc[t] = "run" \/ call[t] = r)
      BY <1>0, <2>6 DEF DqPopWait, WaitFor, Block, SuspendFor, Alone
    <3> QED BY <1>0, <1>1, <3>1, <3>2
  <2>7. CASE DqReset(t, r)
    <3>1. Unmoved(q)
      BY <1>0, <2>7 DEF DqReset, Unmoved, dqVars
    <3>2. Alone(t) /\ call'[t] = r /\ pc[t] = "run"
      BY <1>0, <2>7 DEF DqReset, Alone, threadVars, ipcCallVars
    <3> QED BY <1>0, <1>1, <3>1, <3>2
  <2> QED BY <2>1, <2>2, <2>3, <2>4, <2>5, <2>6, <2>7 DEF DqCalls
<1>4. CASE DqInit(Main, r)
  <2>1. Unmoved(q)
    BY <1>0, <1>4 DEF DqInit, ObjectInit, Unmoved, DqShape
  <2>2. Alone(Main) /\ call'[Main] = call[Main] /\ pc[Main] = "run"
    BY <1>0, <1>4 DEF DqInit, ObjectInit, Alone, callVars, threadVars, ipcCallVars, kernelVars
  <2> QED BY <1>0, <1>1, <2>1, <2>2
<1>5. CASE IsrDqPop(r)
  <2>1. Unmoved(q)
    BY <1>0, <1>5 DEF IsrDqPop, TakeItem, Unmoved, DqShape
  <2>2. UNCHANGED <<pc, call, val, err>>
    BY <1>5 DEF IsrDqPop, callVars, ipcCallVars
  <2>3. Idle \in Thread /\ call[Idle] = "none"
    BY <1>1, CoreView, KernelAssumption
  <2> QED BY <1>0, <2>1, <2>2, <2>3 DEF Alone
<1> QED BY <1>2, <1>3, <1>4, <1>5 DEF DqActs

LEMMA QueueFinds ==
  ASSUME DqBoxInv, ObjectsInv', NEW q \in Dq
  PROVE  /\ CoreInv /\ CoreInv' /\ DqShape /\ DqShape' /\ RingOK(q) /\ RingOK(q)' /\ Absent(q)
         /\ DOMAIN val = Thread /\ exists \in [Obj -> BOOLEAN]
         /\ pc \in [Thread -> Pc] /\ call \in [Thread -> Call] /\ err \in [Thread -> Err]
         /\ pc[Idle] = "run" /\ "none" # q /\ "none" # PushList[q] /\ q # PushList[q] /\ q \in Obj
<1>1. /\ CoreInv /\ CoreInv' /\ DqShape /\ DqShape' /\ Absent(q) /\ DOMAIN val = Thread
      /\ exists \in [Obj -> BOOLEAN]
  BY DEF DqBoxInv, ObjectsInv, DqInv, Shaped
<1>2. RingOK(q) /\ RingOK(q)'
  BY DEF DqBoxInv, ObjectsInv, DqInv, QueueOK
<1> QED BY <1>1, <1>2, CoreView, QueueLists

(* A step of a thread on an open queue that moves no item and that begins  *)
(* no push.                                                                *)
LEMMA QuietStep ==
  ASSUME CoreInv, CoreInv', NEW q \in Dq, Absent(q), Unmoved(q), NEW t \in Thread \ {Idle}, Alone(t),
         NEW s, s = PushList[q],
         \/ Same(q, s, t) /\ (Taking(q, t)' => Taking(q, t)) /\ (Putting(s, t)' => Putting(s, t))
         \/ ~Taking(q, t)' /\ ~Putting(s, t)' /\ (~Taking(q, t) \/ ~Putting(s, t))
  PROVE  DqDone(q)
<1>1. \A x \in Thread \ {t} : Same(q, s, x)
  BY AloneSame
<1>2. Moves(q)
  <2>1. CASE Same(q, s, t)
    BY <1>1, <2>1, QueueSame
  <2>2. CASE ~Taking(q, t)' /\ ~Putting(s, t)' /\ (~Taking(q, t) \/ ~Putting(s, t))
    <3>1. Got(q, t)' = Nothing /\ Sent(s, t)' = Nothing /\ (Got(q, t) = Nothing \/ Sent(s, t) = Nothing)
      BY <2>2 DEF Got, Sent
    <3> QED BY <1>1, <3>1, QueueMoves
  <2> QED BY <2>1, <2>2
<1>3. \A x \in Thread : (Taking(q, x)' => Taking(q, x)) /\ (Putting(s, x)' => Putting(s, x))
  BY DEF Alone, Taking, Putting, InWait
<1>4. exists'[q] = exists[q]
  BY DEF Unmoved
<1>5. Absent(q)'
  BY <1>3, <1>4 DEF Absent
<1> QED BY <1>2, <1>5 DEF DqDone

LEMMA DqPushBox ==
  ASSUME DqBoxInv, ObjectsInv', NEW q \in Dq, NEW t \in Thread \ {Idle}, NEW m \in Sends[t], DqPush(t, q, m)
  PROVE  DqDone(q)
<1>0. /\ CoreInv /\ CoreInv' /\ DqShape /\ DqShape' /\ RingOK(q) /\ RingOK(q)' /\ DOMAIN val = Thread
      /\ pc \in [Thread -> Pc] /\ call \in [Thread -> Call]
      /\ "none" # q /\ "none" # PushList[q] /\ q # PushList[q]
  BY QueueFinds
<1>1. /\ exists[q] /\ Length(q) # DqSize /\ current = t
      /\ (pc[t] = "run" \/ (pc[t] = "blocked" /\ call[t] = PushList[q] /\ m = val[t]))
      /\ pc' = [pc EXCEPT ![t] = IF waitq[q] # <<>> THEN "sched" ELSE "run"]
      /\ call' = [call EXCEPT ![t] = "none"] /\ val' = [val EXCEPT ![t] = Nothing] /\ UNCHANGED <<err, exists>>
  BY DEF DqPush, Pushing, EndCall, InUser, Retrying, Running, At, Goto
<1>2. Alone(t)
  BY <1>0, <1>1 DEF Alone
<1>3. m \in Message
  BY CallAssumption
<1>4. DqContent(q)' = Append(DqContent(q), m) /\ Len(DqContent(q)) < DqSize
  BY <1>0, <1>1, <1>3, ItemsPut DEF DqPush
<1>5. \A x \in Thread \ {t} : Same(q, PushList[q], x)
  BY <1>2, AloneSame
<1>6. Got(q, t) = Nothing /\ Got(q, t)' = Nothing /\ Sent(PushList[q], t)' = Nothing
  BY <1>0, <1>1 DEF Got, Sent, Taking, Putting, InWait
<1>7. Sent(PushList[q], t) = Nothing \/ Sent(PushList[q], t) = m
  BY <1>1 DEF Sent, Putting, InWait
<1>8. Moves(q)
  BY <1>0, <1>1, <1>3, <1>4, <1>5, <1>6, <1>7, QueuePuts
<1> QED BY <1>1, <1>8 DEF DqDone, Absent

LEMMA DqPushWaitBox ==
  ASSUME DqBoxInv, ObjectsInv', NEW q \in Dq, NEW t \in Thread \ {Idle}, NEW m \in Sends[t], NEW n,
         DqPushWait(t, q, m, n)
  PROVE  DqDone(q)
<1>0. /\ CoreInv /\ CoreInv' /\ Absent(q) /\ DOMAIN val = Thread
      /\ pc \in [Thread -> Pc] /\ call \in [Thread -> Call] /\ err \in [Thread -> Err]
      /\ "none" # q /\ "none" # PushList[q] /\ q # PushList[q]
  BY QueueFinds
<1>1. /\ exists[q]
      /\ (pc[t] = "run" \/ (pc[t] = "blocked" /\ call[t] = PushList[q] /\ err[t] = "EOK" /\ m = val[t]))
      /\ pc' = [pc EXCEPT ![t] = "sched"] /\ call' = [call EXCEPT ![t] = PushList[q]]
      /\ err' = [err EXCEPT ![t] = "EOK"] /\ val' = [val EXCEPT ![t] = m]
      /\ UNCHANGED <<exists, put_index, get_index, items>>
  BY DEF DqPushWait, WaitFor, Block, SuspendFor, MayBlock, InUser, Retrying, Running, At, Goto
<1>2. Alone(t)
  BY <1>0, <1>1 DEF Alone
<1>3. m \in Message
  BY CallAssumption
<1>4. Unmoved(q)
  BY <1>1 DEF Unmoved
<1>5. \A x \in Thread \ {t} : Same(q, PushList[q], x)
  BY <1>2, AloneSame
<1>6. Got(q, t) = Nothing /\ Got(q, t)' = Nothing /\ Sent(PushList[q], t)' = m
  BY <1>0, <1>1 DEF Got, Sent, Taking, Putting, InWait
<1>7. CASE pc[t] = "run"
  <2>1. Sent(PushList[q], t) = Nothing
    BY <1>7 DEF Sent, Putting, InWait
  <2>2. Moves(q)
    BY <1>0, <1>1, <1>3, <1>4, <1>5, <1>6, <2>1, QueueAsks
  <2> QED BY <1>1, <2>2 DEF DqDone, Absent
<1>8. CASE pc[t] # "run"
  <2>1. Sent(PushList[q], t) = m
    BY <1>1, <1>8 DEF Sent, Putting, InWait
  <2>2. \A x \in Thread : Same(q, PushList[q], x)
    BY <1>5, <1>6, <2>1 DEF Same
  <2>3. Moves(q)
    BY <1>0, <1>4, <2>2, QueueSame
  <2> QED BY <1>1, <2>3 DEF DqDone, Absent
<1> QED BY <1>7, <1>8

LEMMA DqPopBox ==
  ASSUME DqBoxInv, ObjectsInv', NEW q \in Dq, NEW t \in Thread \ {Idle}, DqPop(t, q)
  PROVE  DqDone(q)
<1>0. /\ CoreInv /\ CoreInv' /\ DqShape /\ DqShape' /\ RingOK(q) /\ RingOK(q)' /\ DOMAIN val = Thread
      /\ pc \in [Thread -> Pc] /\ call \in [Thread -> Call]
      /\ "none" # q /\ "none" # PushList[q] /\ q # PushList[q]
  BY QueueFinds
<1>1. /\ exists[q] /\ Length(q) # 0
      /\ (pc[t] = "run" \/ (pc[t] = "blocked" /\ call[t] = q))
      /\ pc' = [pc EXCEPT ![t] = "got"] /\ call' = [call EXCEPT ![t] = q]
      /\ val' = [val EXCEPT ![t] = items[q][get_index[q] % DqSize]] /\ UNCHANGED <<err, exists>>
  BY DEF DqPop, InUser, Retrying, Running, At, Goto
<1>2. Alone(t)
  BY <1>0, <1>1 DEF Alone
<1>3. /\ DqContent(q)' = Tail(DqContent(q)) /\ DqContent(q) # <<>>
      /\ Head(DqContent(q)) = items[q][get_index[q] % DqSize]
  BY <1>0, <1>1, ItemsGet DEF DqPop, TakeItem
<1>4. \A x \in Thread \ {t} : Same(q, PushList[q], x)
  BY <1>2, AloneSame
<1>5. /\ Got(q, t) = Nothing /\ Got(q, t)' = Head(DqContent(q))
      /\ Sent(PushList[q], t) = Nothing /\ Sent(PushList[q], t)' = Nothing
  BY <1>0, <1>1, <1>3 DEF Got, Sent, Taking, Putting, InWait
<1>6. Moves(q)
  BY <1>0, <1>1, <1>3, <1>4, <1>5, QueueGets
<1> QED BY <1>1, <1>6 DEF DqDone, Absent

LEMMA IsrDqPopBox ==
  ASSUME DqBoxInv, ObjectsInv', NEW q \in Dq, IsrDqPop(q)
  PROVE  DqDone(q)
<1>0. CoreInv /\ CoreInv' /\ DqShape /\ DqShape' /\ RingOK(q) /\ RingOK(q)'
  BY QueueFinds
<1>1. exists[q] /\ Length(q) # 0 /\ UNCHANGED <<pc, call, val, err, exists>>
  BY DEF IsrDqPop, callVars, ipcCallVars
<1>2. DqContent(q)' = Tail(DqContent(q)) /\ DqContent(q) # <<>>
  BY <1>0, <1>1, ItemsGet DEF IsrDqPop, TakeItem
<1>3. \A x \in Thread : Same(q, PushList[q], x)
  BY <1>1 DEF Same, Sent, Got, Taking, Putting, InWait
<1>4. DqSends(q)' = DqSends(q) /\ DqGot(q)' = DqGot(q)
  BY <1>0, <1>3, QueueView DEF Same
<1>5. DqFifo(q)!GetNow
  BY <1>1, <1>2, <1>4 DEF DqFifo!GetNow, DqContent
<1>6. Moves(q)
  BY <1>5 DEF Moves, DqFifo!Next
<1> QED BY <1>1, <1>6 DEF DqDone, Absent

(* The calls that move no item. *)
LEMMA DqWaitBox ==
  ASSUME DqBoxInv, ObjectsInv', NEW q \in Dq, NEW t \in Thread \ {Idle},
         DqPushFull(t, q) \/ (\E n : DqPopWait(t, q, n)) \/ DqReset(t, q)
  PROVE  DqDone(q)
<1>0. /\ CoreInv /\ CoreInv' /\ Absent(q) /\ DOMAIN val = Thread
      /\ pc \in [Thread -> Pc] /\ call \in [Thread -> Call] /\ err \in [Thread -> Err]
      /\ "none" # q /\ "none" # PushList[q] /\ q # PushList[q]
  BY QueueFinds
<1> USE DEF InUser, Running, At, Goto
<1>1. Unmoved(q)
  BY DEF DqPushFull, DqPopWait, DqReset, Unmoved, dqVars
<1>2. PICK s : s = PushList[q]
  OBVIOUS
<1>3. Alone(t)
  BY <1>0 DEF Alone, DqPushFull, DqPopWait, WaitFor, Block, SuspendFor, DqReset, kernelVars, callVars, threadVars,
    ipcCallVars
<1>4. ~Taking(q, t) /\ ~Putting(s, t) /\ ~Taking(q, t)' /\ ~Putting(s, t)'
  <2>1. CASE DqPushFull(t, q)
    <3>1. pc[t] = "run" /\ UNCHANGED <<pc, call>>
      BY <2>1 DEF DqPushFull, kernelVars, callVars
    <3> QED BY <3>1 DEF Taking, Putting, InWait
  <2>2. CASE \E n : DqPopWait(t, q, n)
    <3>1. (pc[t] = "run" \/ (pc[t] = "blocked" /\ call[t] = q)) /\ pc'[t] = "sched" /\ call'[t] = q
      BY <1>0, <2>2 DEF DqPopWait, WaitFor, Block, SuspendFor, MayBlock, Retrying
    <3> QED BY <1>0, <1>2, <3>1 DEF Taking, Putting, InWait
  <2>3. CASE DqReset(t, q)
    <3>1. pc[t] = "run" /\ pc'[t] = "flush"
      BY <1>0, <2>3 DEF DqReset
    <3> QED BY <3>1 DEF Taking, Putting, InWait
  <2> QED BY <2>1, <2>2, <2>3
<1> QED BY <1>0, <1>1, <1>2, <1>3, <1>4, QuietStep

(* The calls that end, or go on to the second list. *)
LEMMA DqEndsBox ==
  ASSUME DqBoxInv, ObjectsInv', NEW q \in Dq, NEW t \in Thread,
         DqEnds(t, q) \/ DqFlushPushers(t, q) \/ DqResetEnd(t, q)
  PROVE  DqDone(q)
<1>0. /\ CoreInv /\ CoreInv' /\ Absent(q) /\ DOMAIN val = Thread
      /\ pc \in [Thread -> Pc] /\ call \in [Thread -> Call] /\ err \in [Thread -> Err]
      /\ pc[Idle] = "run" /\ "none" # q /\ "none" # PushList[q] /\ q # PushList[q]
  BY QueueFinds
<1> USE DEF InUser, Running, At, Goto
<1>1. Unmoved(q)
  BY DEF DqEnds, DqPopReturn, CallFails, DqFlushPushers, DqResetEnd, Unmoved, dqVars
<1>2. PICK s : s = PushList[q]
  OBVIOUS
<1>3. Alone(t)
  BY <1>0 DEF DqEnds, DqPopReturn, CallFails, EndCall, DqFlushPushers, DqResetEnd, Alone, ipcCallVars, threadVars
<1>4. CASE DqEnds(t, q)
  <2>1. call[t] \in {q, s} /\ call'[t] = "none" /\ pc[t] \in {"got", "blocked"}
    BY <1>0, <1>2, <1>4 DEF DqEnds, DqPopReturn, CallFails, EndCall
  <2>2. t # Idle
    BY <1>0, <2>1
  <2>3. ~Taking(q, t)' /\ ~Putting(s, t)' /\ (~Taking(q, t) \/ ~Putting(s, t))
    BY <1>0, <1>2, <2>1 DEF Taking, Putting, InWait
  <2> QED BY <1>0, <1>1, <1>2, <1>3, <2>2, <2>3, QuietStep
<1>5. CASE DqFlushPushers(t, q) \/ DqResetEnd(t, q)
  <2>1. pc[t] = "flush" /\ (pc'[t] = "flush" \/ call'[t] = "none")
    BY <1>0, <1>5 DEF DqFlushPushers, DqResetEnd
  <2>2. t # Idle
    BY <1>0, <2>1
  <2>3. ~Taking(q, t)' /\ ~Putting(s, t)' /\ ~Taking(q, t)
    BY <1>0, <1>2, <2>1 DEF Taking, Putting, InWait
  <2> QED BY <1>0, <1>1, <1>2, <1>3, <2>2, <2>3, QuietStep
<1> QED BY <1>4, <1>5

LEMMA DqInitBox ==
  ASSUME DqBoxInv, ObjectsInv', NEW q \in Dq, DqInit(Main, q)
  PROVE  DqDone(q)
<1>0. CoreInv /\ CoreInv' /\ DqShape /\ Absent(q) /\ exists \in [Obj -> BOOLEAN] /\ q \in Obj
  BY QueueFinds
<1>1. /\ ~exists[q] /\ exists' = [exists EXCEPT ![q] = TRUE] /\ UNCHANGED <<pc, call, val, err>>
      /\ put_index' = [put_index EXCEPT ![q] = 0] /\ get_index' = [get_index EXCEPT ![q] = 0]
  BY DEF DqInit, ObjectInit, callVars, threadVars, ipcCallVars
<1>2. exists'[q] = TRUE /\ Length(q)' = 0
  BY <1>0, <1>1 DEF DqShape, Length
<1>3. DqContent(q)' = <<>>
  BY <1>2 DEF DqContent
<1>4. PICK s : s = PushList[q]
  OBVIOUS
<1>5. \A x \in Thread : ~Taking(q, x) /\ ~Putting(s, x)
  BY <1>0, <1>1, <1>4 DEF Absent
<1>6. \A x \in Thread : ~Taking(q, x)' /\ ~Putting(s, x)'
  BY <1>1, <1>5 DEF Taking, Putting, InWait
<1>7. \A x \in Thread : /\ Sent(s, x) = Nothing /\ Sent(s, x)' = Nothing
                        /\ Got(q, x) = Nothing /\ Got(q, x)' = Nothing
  BY <1>5, <1>6 DEF Sent, Got
<1>8. /\ DqSends(q)' = DqSends(q) /\ DqGot(q)' = DqGot(q)
      /\ \A c \in Thread \ {Idle} : DqSends(q)[c] = Nothing /\ DqGot(q)[c] = Nothing
  BY <1>0, <1>4, <1>7, QueueView
<1>9. DqFifo(q)!Open
  BY <1>1, <1>2, <1>3, <1>8 DEF DqFifo!Open, DqContent
<1>10. Moves(q)
  BY <1>9 DEF Moves, DqFifo!Next
<1> QED BY <1>2, <1>10 DEF DqDone, Absent

LEMMA DataQueueBox ==
  ASSUME DqBoxInv, ObjectsInv', NEW q \in Dq, DqActs(q)
  PROVE  DqDone(q)
<1>1. CASE \E t \in Thread : DqEnds(t, q) \/ DqFlushPushers(t, q) \/ DqResetEnd(t, q)
  BY <1>1, DqEndsBox
<1>2. CASE \E t \in Thread \ {Idle} : DqCalls(t, q)
  <2>1. PICK t \in Thread \ {Idle} : DqCalls(t, q)
    BY <1>2
  <2>2. CASE \E m \in Sends[t] : DqPush(t, q, m)
    BY <2>2, DqPushBox
  <2>3. CASE \E m \in Sends[t] : \E n : DqPushWait(t, q, m, n)
    BY <2>3, DqPushWaitBox
  <2>4. CASE DqPop(t, q)
    BY <2>4, DqPopBox
  <2>5. CASE DqPushFull(t, q) \/ (\E n : DqPopWait(t, q, n)) \/ DqReset(t, q)
    BY <2>5, DqWaitBox
  <2> QED BY <2>1, <2>2, <2>3, <2>4, <2>5 DEF DqCalls
<1>3. CASE DqInit(Main, q) \/ IsrDqPop(q)
  BY <1>3, DqInitBox, IsrDqPopBox
<1> QED BY <1>1, <1>2, <1>3 DEF DqActs

(***************************************************************************)
(* The steps of the whole.                                                 *)
(***************************************************************************)
LEMMA DataQueuesStep ==
  ASSUME DqBoxInv, Guarded, [ObjectsNext]_objectsVars
  PROVE  ObjectsInv' /\ Shaped' /\ \A q \in Dq : DqDone(q)
<1>0. CoreInv /\ DqShape /\ exists \in [Obj -> BOOLEAN] /\ ObjectsInv /\ Shaped /\ \A q \in Dq : Absent(q)
  BY DEF DqBoxInv, ObjectsInv, DqInv
<1>1. /\ ObjectsInv' /\ Shaped'
      /\ \/ IpcCallStep /\ Calm /\ UNCHANGED <<exists, val, dqVars>>
         \/ DataQueueNext \/ (Aloof(DqLists) /\ UNCHANGED dqVars)
  BY <1>0, StepsForQueues
<1>2. CoreInv'
  BY <1>1 DEF ObjectsInv
<1>3. CASE IpcCallStep /\ Calm /\ UNCHANGED <<exists, val, dqVars>>
  BY <1>1, <1>2, <1>3, KernelQueue
<1>4. CASE Aloof(DqLists) /\ UNCHANGED dqVars
  <2> SUFFICES ASSUME NEW q \in Dq PROVE DqDone(q)
    BY <1>1
  <2>1. q \in DqLists /\ PushList[q] \in DqLists
    BY QueueLists
  <2>2. Apart(PushList[q]) /\ exists'[q] = exists[q]
    BY <1>4, <2>1 DEF Aloof
  <2>3. \A x \in Thread : Elsewhere({q, PushList[q]}, x)
    BY <1>4, <2>1 DEF Aloof, Elsewhere
  <2>4. Carries({q, PushList[q]})
    BY <1>4, <2>1 DEF Aloof, Carries
  <2>5. Unmoved(q)
    BY <1>4, <2>2 DEF Unmoved, dqVars
  <2> QED BY <1>1, <2>2, <2>3, <2>4, <2>5, ApartQueue
<1>5. CASE DataQueueNext
  <2>1. PICK r \in Dq : DqActs(r)
    BY <1>5, DqOne
  <2>2. DqDone(r)
    BY <1>1, <2>1, DataQueueBox
  <2>3. ASSUME NEW q \in Dq \ {r} PROVE DqDone(q)
    <3>1. PICK t \in Thread : Alone(t) /\ call[t] \notin {q, PushList[q]} /\ call'[t] \notin {q, PushList[q]}
      BY <1>0, <2>1, OtherQueues
    <3>2. Unmoved(q)
      BY <1>0, <2>1, OtherQueues
    <3>3. PICK s : s = PushList[q]
      OBVIOUS
    <3>4. \A x \in Thread : /\ Putting(s, x)' <=> Putting(s, x)
                            /\ Taking(q, x)' <=> Taking(q, x)
      BY <3>1, <3>3 DEF Alone, Putting, InWait, Taking
    <3>5. \A x \in Thread : Same(q, s, x)
      <4>1. \A x \in Thread \ {t} : Same(q, s, x)
        BY <3>1, AloneSame
      <4>2. Same(q, s, t)
        BY <3>1, <3>3 DEF Same, Sent, Got, Putting, InWait, Taking
      <4> QED BY <4>1, <4>2
    <3> QED BY <1>0, <1>2, <3>2, <3>3, <3>4, <3>5, SameQueue
  <2> QED BY <1>1, <2>2, <2>3
<1> QED BY <1>1, <1>3, <1>4, <1>5

LEMMA DataQueuesInit ==
  ASSUME ObjectsInit
  PROVE  DqBoxInv /\ \A q \in Dq : DqFifo(q)!Init
<1>1. /\ exists = [o \in Obj |-> FALSE] /\ call = [t \in Thread |-> "none"]
      /\ val = [t \in Thread |-> Nothing] /\ job = [t \in Thread |-> "none"]
      /\ put_index = [q \in Dq |-> 0] /\ get_index = [q \in Dq |-> 0]
  BY DEF ObjectsInit, IpcCallInit, KernelInit, DataQueueInit
<1>2. ASSUME NEW q \in Dq PROVE Absent(q) /\ DqFifo(q)!Init
  <2>1. q \in Obj /\ q # "none" /\ PushList[q] # "none"
    BY QueueLists
  <2>2. Absent(q)
    BY <1>1, <2>1 DEF Absent, Taking, Putting, InWait
  <2>3. exists[q] = FALSE
    BY <1>1, <2>1
  <2>4. /\ DqSends(q) = [c \in Thread \ {Idle} |-> Nothing]
        /\ DqGot(q) = [c \in Thread \ {Idle} |-> Nothing]
    BY <1>1, <2>1 DEF DqSends, DqGot
  <2>5. DqContent(q) = <<>>
    <3>1. Length(q) = 0
      BY <1>1 DEF Length
    <3> QED BY <3>1 DEF DqContent
  <2> QED BY <2>2, <2>3, <2>4, <2>5 DEF DqFifo!Init, DqContent
<1> QED BY <1>1, <1>2, ObjectsInitInv DEF DqBoxInv, Shaped

(* Every data queue keeps the promise of BoundedFifo, whatever its size    *)
(* and its low water mark: an item that is pushed is popped once, by a     *)
(* thread or an interrupt handler, in order; a reset keeps the items.      *)
THEOREM DataQueuesImplement ==
  ASSUME NEW q \in Dq
  PROVE  Guarded => (ObjectsSpec => DqFifo(q)!Spec)
<1> SUFFICES ASSUME Guarded PROVE ObjectsSpec => DqFifo(q)!Spec
  OBVIOUS
<1>1. ObjectsInit => DqBoxInv /\ DqFifo(q)!Init
  BY DataQueuesInit
<1>2. DqBoxInv /\ [ObjectsNext]_objectsVars => DqBoxInv' /\ [DqFifo(q)!Next]_(DqFifo(q)!vars)
  BY DataQueuesStep DEF DqBoxInv, DqDone, Moves
<1> QED BY <1>1, <1>2, PTL DEF ObjectsSpec, DqFifo!Spec
=============================================================================
