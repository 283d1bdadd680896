------------------------------- MODULE Mempool -------------------------------
(***************************************************************************)
(* Memory pools of src/mempool.c on the kernel: blocks of one size, and    *)
(* threads that wait for one.                                              *)
(***************************************************************************)
EXTENDS Ipc

CONSTANTS
  Chunk,      \* the blocks of each pool
  Allocator,  \* the threads that call rt_mp_alloc
  Timed       \* TRUE: they wait with a timeout, too

ASSUME MempoolAssumption ==
  /\ IsFiniteSet(Chunk) /\ Chunk # {}
  /\ Allocator \subseteq Thread \ {Idle} /\ Timed \in BOOLEAN

Pool == Obj

VARIABLES
  freeCount,  \* mp->block_free_count
  blockList,  \* mp->block_list
  suspended,  \* mp->suspend_thread_count
  out         \* the blocks that are allocated and not freed

poolVars == <<freeCount, blockList, suspended, out, exists>>
vars == <<kernelVars, poolVars>>

TakeBlock(m) ==
  /\ freeCount' = [freeCount EXCEPT ![m] = @ - 1]
  /\ blockList' = [blockList EXCEPT ![m] = Tail(@)]
  /\ out' = [out EXCEPT ![m] = @ \cup {Head(blockList[m])}]

(***************************************************************************)
(* rt_mp_alloc.  A call with time 0 on an empty pool changes nothing.      *)
(***************************************************************************)
MpAlloc(t, m) ==
  /\ InUser(t) /\ t \in Allocator /\ exists[m] /\ freeCount[m] > 0
  /\ TakeBlock(m)
  /\ UNCHANGED <<kernelVars, suspended, exists>>

(* rt_list_insert_after: the last to come is the first in the list.        *)
MpWait(t, m, n) ==
  /\ MayBlock(t) /\ t \in Allocator /\ exists[m] /\ freeCount[m] = 0
  /\ SuspendFor(t, m, n)
  /\ waitq' = [waitq EXCEPT ![m] = <<t>> \o @]
  /\ err' = [err EXCEPT ![t] = "EOK"]
  /\ suspended' = [suspended EXCEPT ![m] = @ + 1]
  /\ UNCHANGED <<freeCount, blockList, out, exists>>

Resumed(t, m) ==
  /\ At(t, "blocked") /\ call[t] = m
  /\ Goto(t, "run") /\ call' = [call EXCEPT ![t] = "none"]
  /\ UNCHANGED <<queueVars, threadVars, arg, current, nest, due, lag, suspended, exists>>

MpFail(t, m) ==
  /\ Resumed(t, m) /\ err[t] # "EOK"
  /\ UNCHANGED <<freeCount, blockList, out>>

(* The woken thread takes a block without looking whether there is one;    *)
(* with none, it follows a null pointer, and the model stops.              *)
MpTakeWoken(t, m) ==
  /\ Resumed(t, m) /\ err[t] = "EOK" /\ blockList[m] # <<>>
  /\ TakeBlock(m)

(***************************************************************************)
(* rt_mp_free, by any thread: suspend_thread_count, not the list, tells    *)
(* whether a thread is waiting.  On an empty list the model stops.         *)
(***************************************************************************)
CountToWaiter(m) ==   \* mutant: as in rt_sem_release, only if nobody waits
  IF suspended[m] > 0 THEN freeCount[m] ELSE freeCount[m] + 1

CountFreed(m) == freeCount[m] + 1

MpFree(t, m, b) ==
  /\ InUser(t) /\ exists[m] /\ b \in out[m]
  /\ out' = [out EXCEPT ![m] = @ \ {b}]
  /\ freeCount' = [freeCount EXCEPT ![m] = CountFreed(m)]
  /\ blockList' = [blockList EXCEPT ![m] = <<b>> \o @]
  /\ IF suspended[m] > 0
       THEN /\ waitq[m] # <<>>
            /\ Wake(Head(waitq[m])) /\ err' = [err EXCEPT ![Head(waitq[m])] = "EOK"]
            /\ suspended' = [suspended EXCEPT ![m] = @ - 1]
            /\ Goto(t, "sched")
       ELSE UNCHANGED <<ready, mask, waitq, stat, timer, err, suspended, pc>>
  /\ UNCHANGED <<defunct, prio, slice, call, arg, current, nest, due, lag, exists>>

(***************************************************************************)
(* rt_mp_detach, rt_mp_delete; blocks that are out are not freed any more. *)
(***************************************************************************)
MpDetach(t, m) ==
  /\ Detach(t, m)
  /\ UNCHANGED <<freeCount, blockList, suspended, out>>

MpFlushUncounted(t) ==   \* mutant: suspend_thread_count is not decremented
  /\ FlushCheck(t) \/ FlushWake(t) \/ FlushEnd(t)
  /\ UNCHANGED <<freeCount, blockList, out, suspended>>

MpFlush(t) ==
  /\ FlushCheck(t) \/ FlushWake(t) \/ FlushEnd(t)
  /\ suspended' = IF pc[t] = "flushlock" THEN [suspended EXCEPT ![call[t]] = @ - 1]
                                         ELSE suspended
  /\ UNCHANGED <<freeCount, blockList, out>>

(* rt_mp_init, rt_mp_create *)
MpInit(t, m) ==
  /\ ObjectInit(t, m)
  /\ freeCount' = [freeCount EXCEPT ![m] = Cardinality(Chunk)]
  /\ blockList' = [blockList EXCEPT ![m] = SetToSeq(Chunk)]
  /\ suspended' = [suspended EXCEPT ![m] = 0]
  /\ out' = [out EXCEPT ![m] = {}]

MpCall(t) ==
  \E m \in Pool :
    \/ MpAlloc(t, m) \/ (\E n \in IF Timed THEN 0 .. MaxTime ELSE {0} : MpWait(t, m, n))
    \/ (\E b \in Chunk : MpFree(t, m, b)) \/ MpDetach(t, m) \/ MpInit(t, m)

(* Threads are not deleted while they wait: nothing would decrement        *)
(* suspend_thread_count.                                                   *)
WaitersStay ==
  Guarded => \A t \in Thread : call[t] \in Pool =>
               \A u \in Thread : arg'[u] = t => pc'[u] # "del1"

Init ==
  /\ KernelInit
  /\ exists = [m \in Pool |-> TRUE]
  /\ freeCount = [m \in Pool |-> Cardinality(Chunk)]
  /\ blockList = [m \in Pool |-> SetToSeq(Chunk)]
  /\ suspended = [m \in Pool |-> 0] /\ out = [m \in Pool |-> {}]

Next ==
  \/ KernelNext /\ WaitersStay /\ UNCHANGED poolVars
  \/ \E t \in Thread : MpFlush(t) \/ \E m \in Pool : MpFail(t, m) \/ MpTakeWoken(t, m)
  \/ \E t \in Thread \ {Idle} : MpCall(t)

Spec == Init /\ [][Next]_vars

(***************************************************************************)
(* Properties.                                                             *)
(***************************************************************************)

(* No block is lost or handed out twice: each is either in the list, which *)
(* block_free_count counts, or allocated.                                  *)
BlocksAccounted ==
  \A m \in Pool : exists[m] =>
    /\ freeCount[m] = Len(blockList[m]) /\ IsInjective(blockList[m])
    /\ Range(blockList[m]) \cap out[m] = {} /\ Range(blockList[m]) \cup out[m] = Chunk

(* "the allocated memory block": a thread that rt_mp_free has woken finds  *)
(* a block when it runs again.                                             *)
WokenFindsBlock ==
  \A m \in Pool, t \in Thread :
    call[t] = m /\ pc[t] = "blocked" /\ current = t /\ err[t] = "EOK" /\ stat[t] = "READY"
      => freeCount[m] > 0

(* "numbers of thread pended on this resource": rt_mp_free goes by it.     *)
PendedCounted == \A m \in Pool : exists[m] => suspended[m] = Len(waitq[m])
=============================================================================
