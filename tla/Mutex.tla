------------------------------- MODULE Mutex -------------------------------
(***************************************************************************)
(* Mutexes of src/ipc.c on the kernel: recursive, with an owner who is     *)
(* lent the priority of a waiting thread and hands the mutex over to the   *)
(* first waiter when he releases it.                                       *)
(***************************************************************************)
EXTENDS Ipc

CONSTANTS
  MutexFlag,  \* "FIFO" or "PRIO" for each mutex
  MaxHold     \* bound on mutex->hold: no take is made at this depth

Mtx == Obj
NoPrio == 255   \* the original_priority of a free mutex

ASSUME MutexAssumption ==
  MutexFlag \in [Mtx -> {"FIFO", "PRIO"}] /\ MaxHold \in 1 .. 255 /\ MaxPrio <= NoPrio

VARIABLES
  owner,     \* mutex->owner
  hold,      \* mutex->hold
  avail,     \* mutex->value
  original,  \* mutex->original_priority
  mine       \* history: the takes of each thread that have returned RT_EOK,
             \* less its releases

mutexVars == <<owner, hold, avail, original, mine, exists>>
vars == <<kernelVars, mutexVars>>

SetOwner(m, t, h, v, p) ==
  /\ owner' = [owner EXCEPT ![m] = t] /\ hold' = [hold EXCEPT ![m] = h]
  /\ avail' = [avail EXCEPT ![m] = v] /\ original' = [original EXCEPT ![m] = p]

Counted(m, t, n) == mine' = [mine EXCEPT ![m][t] = @ + n]

Errno(t, e) == err' = [err EXCEPT ![t] = e]

(***************************************************************************)
(* rt_mutex_take.  SetOwner, Errno and Counted are one locked section.     *)
(***************************************************************************)
MutexTakeAgain(t, m) ==
  /\ InUser(t) /\ exists[m] /\ owner[m] = t /\ hold[m] < MaxHold
  /\ SetOwner(m, t, hold[m] + 1, avail[m], original[m])
  /\ Errno(t, "EOK") /\ Counted(m, t, 1)
  /\ UNCHANGED <<queueVars, stat, prio, slice, timer, callVars, current, nest, due, lag, exists>>

MutexTakeFree(t, m) ==
  /\ InUser(t) /\ exists[m] /\ owner[m] # t /\ avail[m] > 0
  /\ SetOwner(m, t, hold[m] + 1, avail[m] - 1, prio[t])
  /\ Errno(t, "EOK") /\ Counted(m, t, 1)
  /\ UNCHANGED <<queueVars, stat, prio, slice, timer, callVars, current, nest, due, lag, exists>>

(* A call with time 0. *)
MutexTryFail(t, m) ==
  /\ InUser(t) /\ exists[m] /\ owner[m] # t /\ avail[m] = 0
  /\ Errno(t, "TIMEOUT")
  /\ UNCHANGED <<queueVars, stat, prio, slice, timer, callVars, current, nest, due, lag, mutexVars>>

(* The owner is lent the caller's priority if it is higher: in his place   *)
(* in the ready queue, if he is ready, and never in a wait list.           *)
LendNever(t, o) ==   \* mutant: the owner keeps his priority
  RemoveThread(t) /\ UNCHANGED prio

Lend(t, o) ==
  IF prio[t] < prio[o]
    THEN /\ prio' = [prio EXCEPT ![o] = prio[t]]
         /\ IF stat[o] = "READY"
              THEN /\ ready' = [p \in Prio |-> Unlink(Requeued(o, prio[t])[p], t)]
                   /\ mask' = MaskWithout(o) \cup {prio[t]}
              ELSE RemoveThread(t)
    ELSE RemoveThread(t) /\ UNCHANGED prio

(* n = 0 is RT_WAITING_FOREVER. *)
MutexWait(t, m, n) ==
  /\ MayBlock(t) /\ exists[m] /\ owner[m] # t /\ avail[m] = 0
  /\ Lend(t, owner[m])
  /\ stat' = [stat EXCEPT ![t] = "SUSPEND"]
  /\ waitq' = [waitq EXCEPT ![m] = WaitInsert(@, t, MutexFlag[m])]
  /\ timer' = [timer EXCEPT ![t] = n]
  /\ Errno(t, "EOK")
  /\ Goto(t, "sched")
  /\ call' = [call EXCEPT ![t] = m]
  /\ UNCHANGED <<defunct, slice, arg, current, nest, due, lag, mutexVars>>

MutexReturnBlind(t) ==   \* mutant: thread->error is not looked at
  LET m == call[t] IN
  /\ At(t, "blocked") /\ m \in Mtx
  /\ Goto(t, "run") /\ call' = [call EXCEPT ![t] = "none"]
  /\ Counted(m, t, 1)
  /\ UNCHANGED <<queueVars, threadVars, arg, current, nest, due, lag,
                 owner, hold, avail, original, exists>>

MutexReturn(t) ==
  LET m == call[t] IN
  /\ At(t, "blocked") /\ m \in Mtx
  /\ Goto(t, "run") /\ call' = [call EXCEPT ![t] = "none"]
  /\ Counted(m, t, IF err[t] = "EOK" THEN 1 ELSE 0)
  /\ UNCHANGED <<queueVars, threadVars, arg, current, nest, due, lag,
                 owner, hold, avail, original, exists>>

(***************************************************************************)
(* rt_mutex_release                                                        *)
(***************************************************************************)
MutexReleaseOther(t, m) ==
  /\ InUser(t) /\ exists[m] /\ owner[m] # t
  /\ Errno(t, "ERROR")
  /\ UNCHANGED <<queueVars, stat, prio, slice, timer, callVars, current, nest, due, lag, mutexVars>>

MutexReleaseInner(t, m) ==
  /\ InUser(t) /\ exists[m] /\ owner[m] = t /\ hold[m] > 1
  /\ SetOwner(m, t, hold[m] - 1, avail[m], original[m])
  /\ Counted(m, t, -1)
  /\ UNCHANGED <<queueVars, threadVars, callVars, current, nest, due, lag, exists>>

(* The owner gets his priority back, and with it the end of its queue.     *)
PrioKept(t, m) == prio[t]   \* mutant: the lent priority is kept

PrioBack(t, m) == original[m]

QueuesBack(t, m) ==
  IF PrioBack(t, m) # prio[t] THEN Requeued(t, PrioBack(t, m)) ELSE ready

MaskBackKept(t, m) == mask \cup {PrioBack(t, m)}   \* mutant: the old bit is kept

MaskBack(t, m) ==
  IF PrioBack(t, m) # prio[t] THEN MaskWithout(t) \cup {PrioBack(t, m)} ELSE mask

(* Nobody waits. The priority may fall here without a call of rt_schedule. *)
MutexReleaseFree(t, m) ==
  /\ InUser(t) /\ exists[m] /\ owner[m] = t /\ hold[m] = 1 /\ waitq[m] = <<>>
  /\ prio' = [prio EXCEPT ![t] = PrioBack(t, m)]
  /\ ready' = QueuesBack(t, m) /\ mask' = MaskBack(t, m)
  /\ SetOwner(m, NoThread, 0, avail[m] + 1, NoPrio)
  /\ Counted(m, t, -1)
  /\ lag' = (lag \/ PrioBack(t, m) # prio[t])
  /\ UNCHANGED <<waitq, defunct, stat, err, slice, timer, callVars, current, nest, due, exists>>

(* The mutex is handed over to the first waiter u, who becomes ready.      *)
GiveTo(m, u) == SetOwner(m, u, 1, avail[m], prio[u])

MutexHandOverLost(t, m) ==   \* mutant: the waiting thread is not woken
  /\ InUser(t) /\ exists[m] /\ owner[m] = t /\ hold[m] = 1 /\ waitq[m] # <<>>
  /\ SetOwner(m, NoThread, 0, avail[m] + 1, NoPrio) /\ Counted(m, t, -1)
  /\ UNCHANGED <<queueVars, threadVars, callVars, current, nest, due, lag, exists>>

MutexHandOver(t, m) ==
  LET u == Head(waitq[m]) IN
  /\ InUser(t) /\ exists[m] /\ owner[m] = t /\ hold[m] = 1 /\ waitq[m] # <<>>
  /\ prio' = [prio EXCEPT ![t] = PrioBack(t, m)]
  /\ ready' = [QueuesBack(t, m) EXCEPT ![prio[u]] = Append(@, u)]
  /\ mask' = MaskBack(t, m) \cup {prio[u]}
  /\ waitq' = UnlinkAll(waitq, u)
  /\ stat' = [stat EXCEPT ![u] = "READY"]
  /\ timer' = [timer EXCEPT ![u] = 0]
  /\ GiveTo(m, u)
  /\ Counted(m, t, -1)
  /\ Goto(t, "sched")
  /\ UNCHANGED <<defunct, err, slice, call, arg, current, nest, due, lag, exists>>

MutexRelease(t, m) ==
  MutexReleaseOther(t, m) \/ MutexReleaseInner(t, m) \/ MutexReleaseFree(t, m) \/ MutexHandOver(t, m)

(***************************************************************************)
(* rt_mutex_detach, rt_mutex_delete; Guarded: when the mutex is free, or   *)
(* by an owner who is lent no priority, since nothing takes it back.       *)
(***************************************************************************)
MutexDetach(t, m) ==
  /\ Detach(t, m)
  /\ Guarded => owner[m] = NoThread \/ (owner[m] = t /\ original[m] = prio[t])
  /\ UNCHANGED <<owner, hold, avail, original, mine>>

(* rt_mutex_init, rt_mutex_create; what the callers held is forgotten. *)
MutexInit(t, m) ==
  /\ ObjectInit(t, m)
  /\ SetOwner(m, NoThread, 0, 1, NoPrio)
  /\ mine' = [mine EXCEPT ![m] = [u \in Thread |-> 0]]

InMutexCall(t) ==
  \/ MutexReturn(t)
  \/ /\ FlushCheck(t) \/ FlushWake(t) \/ FlushEnd(t)
     /\ UNCHANGED <<owner, hold, avail, original, mine>>

MutexCall(t) ==
  \E m \in Mtx :
    \/ MutexTakeAgain(t, m) \/ MutexTakeFree(t, m) \/ MutexTryFail(t, m)
    \/ \E n \in 0 .. MaxTime : MutexWait(t, m, n)
    \/ MutexRelease(t, m) \/ MutexDetach(t, m) \/ MutexInit(t, m)

(* What the threads promise: none exits or is deleted while it owns a      *)
(* mutex.                                                                  *)
OwnersStay ==
  Guarded => \A m \in Mtx : owner[m] # NoThread /\ exists[m] =>
               /\ stat'[owner[m]] # "CLOSE"
               /\ \A t \in Thread : arg'[t] = owner[m] => pc'[t] # "del1"

Init ==
  /\ KernelInit
  /\ exists = [m \in Mtx |-> TRUE]
  /\ owner = [m \in Mtx |-> NoThread] /\ hold = [m \in Mtx |-> 0]
  /\ avail = [m \in Mtx |-> 1] /\ original = [m \in Mtx |-> NoPrio]
  /\ mine = [m \in Mtx |-> [t \in Thread |-> 0]]

Next ==
  \/ KernelNext /\ OwnersStay /\ UNCHANGED mutexVars
  \/ \E t \in Thread : InMutexCall(t)
  \/ \E t \in Thread \ {Idle} : MutexCall(t)

Spec == Init /\ [][Next]_vars

(* As in KernelFairness; and an owner who runs again and again gives the   *)
(* mutex back at last.                                                     *)
Fairness ==
  /\ SF_vars(Interrupt /\ UNCHANGED mutexVars)
  /\ \A t \in Thread \ {Idle} :
       /\ SF_vars((InCall(t) /\ UNCHANGED mutexVars) \/ InMutexCall(t))
       /\ SF_vars(ExitCritical(t) /\ UNCHANGED mutexVars)
       /\ \A m \in Mtx : /\ SF_vars(MutexReleaseInner(t, m))
                          /\ SF_vars(MutexReleaseFree(t, m) \/ MutexHandOver(t, m))

LiveSpec == Spec /\ Fairness

(***************************************************************************)
(* Properties.                                                             *)
(***************************************************************************)

MutexTypeOK ==
  /\ exists \in [Mtx -> BOOLEAN]
  /\ owner \in [Mtx -> Thread \cup {NoThread}] /\ hold \in [Mtx -> 0 .. MaxHold]
  /\ avail \in [Mtx -> {0, 1}] /\ original \in [Mtx -> Prio \cup {NoPrio}]
  /\ mine \in [Mtx -> [Thread -> 0 .. MaxHold]]

(* Mutual exclusion as the callers see it: a thread whose takes returned   *)
(* RT_EOK more often than it released is the owner, held that many times;  *)
(* whatever timeouts, errors and hand-overs came in between.               *)
MutualExclusion ==
  \A m \in Mtx, t \in Thread :
    exists[m] /\ mine[m][t] > 0 => owner[m] = t /\ hold[m] = mine[m][t]

(* A mutex threads wait for is owned, and it is not free and owned at once.*)
WaitedForIsOwned ==
  \A m \in Mtx : exists[m] => /\ waitq[m] # <<>> => owner[m] # NoThread
                              /\ owner[m] = NoThread <=> avail[m] = 1

(* Lending and hand-over leave the mutex and the kernel consistent.        *)
MutexSound == MutexTypeOK /\ KernelSound /\ WaitedForIsOwned

(* Priority inheritance: the owner runs at least at the priority of every  *)
(* thread that waits for the mutex.                                        *)
OwnerInherits ==
  \A m \in Mtx : \A t \in Range(waitq[m]) :
    owner[m] # NoThread => prio[owner[m]] <= prio[t]

(* A thread that waits for a mutex is woken, with or without a timeout,    *)
(* unless a thread stays suspended for ever by rt_thread_suspend.          *)
Parked(u) ==
  stat[u] = "SUSPEND" /\ timer[u] = 0 /\ \A m \in Mtx : u \notin Range(waitq[m])

WaitersAreServed ==
  (\A u \in Thread : []<>~Parked(u)) =>
    \A m \in Mtx, t \in Thread : t \in Range(waitq[m]) ~> t \notin Range(waitq[m])

(* "change the owner thread to original priority": a thread that owns no   *)
(* mutex has the priority it was started with.  (PrioChoices is empty.)    *)
BoostEnds ==
  \A t \in Thread : (\A m \in Mtx : owner[m] # t) => prio[t] = InitPrio[t]
=============================================================================
