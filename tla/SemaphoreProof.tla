--------------------------- MODULE SemaphoreProof ---------------------------
(***************************************************************************)
(* Theorems about the semaphores of src/ipc.c for any number of threads,   *)
(* semaphores, tokens and ticks: the kernel stays sound, nobody waits      *)
(* while there is a token, and each semaphore keeps the promise of         *)
(* CountingSemaphore.                                                      *)
(***************************************************************************)
EXTENDS Semaphore, KernelProof

SemTypes == value \in [Sem -> 0 .. MaxValue] /\ exists \in [Sem -> BOOLEAN]

(* A thread in the loop of a reset knows its semaphore. *)
ResetOK == \A t \in Thread : pc[t] = "reset" => call[t] \in Sem

(* The kernel's invariant, what a flush and a reset rely on, and no lost   *)
(* wake-up.                                                                *)
SemInv == KernelInv /\ FlushOK /\ ResetOK /\ SemTypes /\ NobodyWaitsForAToken

(***************************************************************************)
(* One lemma for each operation.                                           *)
(***************************************************************************)

(* A step that only moves the calling thread from one place to another. *)
LEMMA SemPlaceStep ==
  ASSUME KernelInv, FlushOK, NEW t \in Thread, current = t,
         pc[t] \in {"run", "got", "blocked", "reset"},
         NEW l \in {"run", "got", "sched", "reset"},
         pc[t] = "reset" => l = "sched", t # Idle,
         NEW c \in Call, Goto(t, l), call' = [call EXCEPT ![t] = c],
         ResetOK, l = "reset" => c \in Sem,
         UNCHANGED <<queueVars, threadVars, arg, current, nest, due, lag>>
  PROVE  KernelInv' /\ FlushOK' /\ ResetOK'
<1> USE DEF Goto, threadVars
<1>a. pc \in [Thread -> Pc] /\ call \in [Thread -> Call] /\ err \in [Thread -> Err]
  BY DEF KernelInv, KernelTypeOK, Call, Err
<1>1. KernelInv'
  <2>1. /\ call' \in [Thread -> Call] /\ \A v \in Thread \ {t} : call'[v] = call[v]
        /\ err' \in [Thread -> Err] /\ l \in Pc \ OpPc
        /\ pc[t] \notin OpPc \cup {"sched"} /\ (pc[t] = "reset" => l \in {"sched", "reset"})
    BY <1>a DEF Pc, OpPc
  <2>2. UNCHANGED <<queueVars, stat, prio, slice, timer, arg, current, nest, due, lag>>
    OBVIOUS
  <2> QED BY <2>1, <2>2, PlaceStep
<1>2. FlushOK'
  <2>1. ~Flushing(current) /\ \A x \in Thread : Flushing(x)' => Flushing(x)
    BY <1>a DEF Flushing
  <2> QED BY <2>1, NoFlush
<1>3. ResetOK'
  BY <1>a DEF ResetOK
<1> QED BY <1>1, <1>2, <1>3

(* A step that begins no reset and does not touch one under way. *)
LEMMA NoReset ==
  ASSUME ResetOK, \A x \in Thread : pc'[x] = "reset" => pc[x] = "reset" /\ call'[x] = call[x]
  PROVE  ResetOK'
BY DEF ResetOK

(* No kernel function does. *)
LEMMA KernelKeepsReset ==
  ASSUME KernelInv, ResetOK, [KernelNext]_kernelVars
  PROVE  ResetOK'
<1> SUFFICES ASSUME NEW x \in Thread, pc'[x] = "reset"
             PROVE  pc[x] = "reset" /\ call'[x] = call[x]
  BY NoReset
<1> USE DEF callVars, Goto
<1>t. pc \in [Thread -> Pc] /\ call \in [Thread -> Call]
  BY DEF KernelInv, KernelTypeOK, Call
<1>1. CASE UNCHANGED kernelVars
  BY <1>1 DEF kernelVars
<1>2. ASSUME NEW v \in Thread, InCall(v) PROVE pc[x] = "reset" /\ call'[x] = call[x]
  BY <1>2, <1>t DEF InCall, Schedule, Return, SuspendLocked, ResumeLocked, ResumeInsert, DeleteTimer, DeleteClose, DeleteDefunct
<1>3. ASSUME NEW v \in Thread, UserCall(v) PROVE pc[x] = "reset" /\ call'[x] = call[x]
  <2>1. CASE (\E n \in 1 .. MaxTime : Sleep(v, n)) \/ SuspendSelf(v) \/ Yield(v) \/ EnterCritical(v) \/ ExitCritical(v) \/ Exit(v)
    BY <1>t, <2>1 DEF Sleep, SuspendSelf, SuspendFor, Yield, EnterCritical, ExitCritical, Exit
  <2>2. CASE \E u \in Thread : \/ Suspend(v, u) \/ Resume(v, u) \/ Delete(v, u)
                              \/ Create(v, u) \/ Startup(v, u)
                              \/ \E p \in PrioChoices : ChangePriority(v, u, p)
    BY <1>t, <2>2 DEF Suspend, Resume, Delete, Create, Startup, ChangePriority, Begin
  <2> QED BY <1>3, <2>1, <2>2 DEF UserCall
<1>4. CASE IdleExcute \/ Tick \/ \E v \in Thread : Timeout(v)
  BY <1>4 DEF IdleExcute, Tick, Timeout
<1> QED BY <1>1, <1>2, <1>3, <1>4 DEF KernelNext, ThreadStep, Interrupt

(* rt_sem_take with a token. *)
LEMMA SemTakeStep ==
  ASSUME SemInv, NEW t \in Thread \ {Idle}, NEW s \in Sem, SemTake(t, s)
  PROVE  SemInv'
<1> USE DEF SemInv, SemTake, InUser, Running
<1>1. KernelInv' /\ FlushOK' /\ ResetOK'
  <2>1. s \in Call
    BY DEF Sem, Call
  <2> QED BY <2>1, SemPlaceStep
<1>2. SemTypes'
  BY SemAssumption DEF SemTypes
<1>3. NobodyWaitsForAToken'
  BY DEF NobodyWaitsForAToken, SemTypes, queueVars
<1> QED BY <1>1, <1>2, <1>3

(* rt_sem_take without one. *)
LEMMA SemWaitStep ==
  ASSUME SemInv, NEW t \in Thread \ {Idle}, NEW s \in Sem, NEW n \in 0 .. MaxTime, SemWait(t, s, n)
  PROVE  SemInv'
<1> USE DEF SemInv, SemWait, Sem
<1>1. KernelInv'
  BY BlockStep
<1>2. FlushOK' /\ ResetOK'
  <2>1. pc \in [Thread -> Pc] /\ call \in [Thread -> Call]
    BY DEF KernelInv, KernelTypeOK, Call
  <2>2. ~Flushing(current) /\ \A x \in Thread : Flushing(x)' => Flushing(x)
    BY <2>1 DEF Flushing, MayBlock, InUser, Running, Block, SuspendFor, Goto
  <2>3. \A x \in Thread : pc'[x] = "reset" => pc[x] = "reset" /\ call'[x] = call[x]
    BY <2>1 DEF Block, SuspendFor, Goto
  <2> QED BY <2>2, <2>3, NoFlush, NoReset
<1>3. SemTypes'
  BY DEF SemTypes, semVars
<1>4. NobodyWaitsForAToken'
  <2>1. \A x \in Sem \ {s} : waitq'[x] = waitq[x]
    BY DEF Block, KernelInv, KernelTypeOK
  <2> QED BY <2>1 DEF NobodyWaitsForAToken, semVars, SemTypes
<1> QED BY <1>1, <1>2, <1>3, <1>4

(* The return of rt_sem_take. *)
LEMMA SemReturnStep ==
  ASSUME SemInv, NEW t \in Thread, SemReturn(t)
  PROVE  SemInv'
<1> USE DEF SemInv, SemReturn, At, Running
<1>1. KernelInv' /\ FlushOK' /\ ResetOK'
  <2>1. t # Idle /\ "none" \in Call
    BY DEF KernelInv, IdleOK, Call
  <2> QED BY <2>1, SemPlaceStep
<1>2. SemTypes' /\ NobodyWaitsForAToken'
  BY DEF SemTypes, NobodyWaitsForAToken, queueVars, semVars
<1> QED BY <1>1, <1>2

(* A token goes to the first waiter, or there is none. *)
LEMMA SemGiveEffect ==
  ASSUME SemInv, NEW s \in Sem, SemGive(s), UNCHANGED exists
  PROVE  SemTypes' /\ NobodyWaitsForAToken'
<1> USE SemAssumption DEF SemInv, Sem
<1>1. CASE waitq[s] # <<>>
  <2>1. /\ UNCHANGED value /\ waitq' = UnlinkAll(waitq, Head(waitq[s]))
    BY <1>1 DEF SemGive, Wake, MakeReady
  <2>2. Head(waitq[s]) \in Thread
    BY <1>1, HeadRange DEF KernelInv, KernelTypeOK
  <2>3. ASSUME NEW x \in Sem, waitq[x] = <<>> PROVE waitq'[x] = <<>>
    BY <2>1, <2>2, <2>3, EmptyStays
  <2> QED BY <2>1, <2>3 DEF SemTypes, NobodyWaitsForAToken
<1>2. CASE waitq[s] = <<>>
  <2>1. UNCHANGED waitq /\ value' = [value EXCEPT ![s] = @ + 1] /\ value[s] < MaxValue
    BY <1>2 DEF SemGive
  <2> QED BY <1>2, <2>1 DEF SemTypes, NobodyWaitsForAToken
<1> QED BY <1>1, <1>2

(* rt_sem_release by a thread. *)
LEMMA SemReleaseStep ==
  ASSUME SemInv, NEW t \in Thread \ {Idle}, NEW s \in Sem, SemRelease(t, s)
  PROVE  SemInv'
<1> USE DEF SemInv, SemRelease, InUser, Running, Goto, Sem
<1>a. pc \in [Thread -> Pc] /\ call \in [Thread -> Call] /\ err \in [Thread -> Err]
  BY DEF KernelInv, KernelTypeOK, Call, Err
<1>1. KernelInv'
  <2>1. CASE waitq[s] # <<>>
    <3>1. Wake(Head(waitq[s])) /\ UNCHANGED <<defunct, prio, slice, arg, nest, due, current, call, err>> /\ due = {}
      BY <2>1 DEF SemGive
    <3>2. /\ pc' \in [Thread -> Pc] /\ pc'[current] = "sched" /\ pc[current] # "sched"
          /\ \A v \in Thread : pc'[v] = pc[v] \/ (pc'[v] \notin OpPc /\ pc[v] \notin OpPc)
      BY <1>a, <2>1 DEF Pc, OpPc
    <3>3. pc'[Idle] = "run"
      BY <1>a, KernelAssumption DEF KernelInv, IdleOK
    <3>4. lag' \in BOOLEAN
      BY DEF KernelInv, KernelTypeOK
    <3> QED BY <1>a, <2>1, <3>1, <3>2, <3>3, <3>4, WakeStep
  <2>2. CASE waitq[s] = <<>>
    <3>1. Goto(t, "run") /\ UNCHANGED <<queueVars, threadVars, arg, current, nest, due, lag, call>>
      BY <2>2 DEF SemGive, queueVars, threadVars
    <3>2. call[t] \in Call /\ call' = [call EXCEPT ![t] = call[t]]
      BY <1>a, <3>1
    <3>3. t # Idle /\ pc[t] = "run" /\ current = t
      OBVIOUS
    <3> QED BY <3>1, <3>2, <3>3, SemPlaceStep
  <2> QED BY <2>1, <2>2
<1>2. FlushOK' /\ ResetOK'
  <2>1. ~Flushing(current) /\ \A x \in Thread : Flushing(x)' => Flushing(x)
    BY <1>a DEF Flushing
  <2>2. \A x \in Thread : pc'[x] = "reset" => pc[x] = "reset" /\ call'[x] = call[x]
    BY <1>a
  <2> QED BY <2>1, <2>2, NoFlush, NoReset
<1> QED BY <1>1, <1>2, SemGiveEffect

(* rt_sem_release by an interrupt handler; while a thread flushes another  *)
(* semaphore, its waiters are left alone.                                  *)
LEMMA IsrSemReleaseStep ==
  ASSUME SemInv, Guarded, NEW s \in Sem, IsrSemRelease(s)
  PROVE  SemInv'
<1> USE DEF SemInv, IsrSemRelease, IrqEnabled, callVars, Sem
<1>a. pc \in [Thread -> Pc] /\ call \in [Thread -> Call] /\ err \in [Thread -> Err]
  BY DEF KernelInv, KernelTypeOK, Call, Err
<1>1. CASE waitq[s] # <<>>
  <2>1. Wake(Head(waitq[s])) /\ DoSchedule /\ UNCHANGED <<defunct, prio, slice, arg, nest, due, call, err, pc>> /\ due = {}
    BY <1>1 DEF SemGive
  <2>2. KernelInv'
    <3>1. pc'[Idle] = "run"
      BY <2>1 DEF KernelInv, IdleOK
    <3> QED BY <1>a, <1>1, <2>1, <3>1, WakeStep
  <2>3. FlushOK'
    <3> SUFFICES ASSUME NEW x \in Thread, Flushing(x)
                 PROVE  /\ current' = x /\ nest' > 0 /\ call'[x] \in Obj
                        /\ \A u \in Range(waitq'[call'[x]]) : timer'[u] = 0 /\ u \notin due'
                        /\ pc'[x] = "flushlock" => waitq'[call'[x]] # <<>>
      BY <2>1 DEF FlushOK, Flushing
    <3>1. /\ current = x /\ nest > 0 /\ nest # 0 /\ call[x] \in Obj
          /\ \A u \in Range(waitq[call[x]]) : timer[u] = 0 /\ u \notin due
          /\ pc[x] = "flushlock" => waitq[call[x]] # <<>>
      BY DEF FlushOK, KernelInv, KernelTypeOK
    <3>2. call[x] # s
      BY DEF Flushing
    <3> DEFINE w == Head(waitq[s])
    <3>3. w \in Range(waitq[s]) /\ w \in Thread
      BY <1>1, HeadRange DEF KernelInv, KernelTypeOK
    <3>4. w \notin Range(waitq[call[x]])
      BY <3>1, <3>2, <3>3 DEF KernelInv, ListsConsistent
    <3>5. waitq' = UnlinkAll(waitq, w) /\ timer' = [timer EXCEPT ![w] = 0]
      BY <2>1 DEF Wake, MakeReady
    <3>6. Unlinked(Obj, UnlinkAll(waitq, w), waitq, w)
      BY InvQueues, UnlinkAllProperties DEF WOK
    <3>7. waitq'[call[x]] = waitq[call[x]] /\ Range(waitq[call[x]]) \subseteq Thread
      BY <3>1, <3>4, <3>5, <3>6, InvQueues DEF Unlinked
    <3>8. \A u \in Range(waitq[call[x]]) : timer'[u] = 0 /\ u \notin due'
      BY <2>1, <3>1, <3>3, <3>5, <3>7 DEF KernelInv, KernelTypeOK
    <3>9. current' = current
      BY <2>1, <3>1 DEF DoSchedule
    <3> QED BY <2>1, <3>1, <3>7, <3>8, <3>9
  <2>4. ResetOK'
    BY <2>1, NoReset
  <2> QED BY <2>2, <2>3, <2>4, SemGiveEffect
<1>2. CASE waitq[s] = <<>>
  <2>1. UNCHANGED kernelVars
    BY <1>2 DEF SemGive, kernelVars, queueVars, threadVars
  <2>2. KernelInv' /\ FlushOK' /\ ResetOK'
    BY <2>1, StepInv, KernelKeepsFlush, KernelKeepsReset
  <2> QED BY <2>2, SemGiveEffect
<1> QED BY <1>1, <1>2

(* rt_sem_control(RT_IPC_CMD_RESET): its beginning ... *)
LEMMA SemResetStep ==
  ASSUME SemInv, NEW t \in Thread \ {Idle}, NEW s \in Sem, SemReset(t, s)
  PROVE  SemInv'
<1> USE DEF SemInv, SemReset, InUser, Running
<1>1. KernelInv' /\ FlushOK' /\ ResetOK'
  <2>1. s \in Call
    BY DEF Sem, Call
  <2> QED BY <2>1, SemPlaceStep
<1>2. SemTypes' /\ NobodyWaitsForAToken'
  BY DEF SemTypes, NobodyWaitsForAToken, queueVars, semVars
<1> QED BY <1>1, <1>2

(* ... each waiter it wakes ... *)
LEMMA SemResetWakeStep ==
  ASSUME SemInv, NEW t \in Thread, SemResetWake(t)
  PROVE  SemInv'
<1> DEFINE s == call[t]
<1> USE DEF SemInv, SemResetWake, WakeWithError, At, Running, callVars, semVars, Sem
<1>a. pc \in [Thread -> Pc] /\ call \in [Thread -> Call] /\ err \in [Thread -> Err]
  BY DEF KernelInv, KernelTypeOK, Call, Err
<1>b. /\ current = t /\ due = {} /\ pc[t] = "reset" /\ waitq[s] # <<>> /\ s \in Sem
      /\ Wake(Head(waitq[s])) /\ waitq' = UnlinkAll(waitq, Head(waitq[s]))
      /\ UNCHANGED <<defunct, prio, slice, pc, call, arg, current, nest, due, lag, value, exists>>
      /\ Head(waitq[s]) \in Thread
  BY HeadRange DEF ResetOK, Wake, MakeReady, KernelInv, KernelTypeOK
<1>1. KernelInv'
  <2>1. err' \in [Thread -> Err]
    BY <1>a, <1>b DEF Err
  <2>2. pc'[Idle] = "run" /\ lag' \in BOOLEAN
    BY <1>b DEF KernelInv, IdleOK, KernelTypeOK
  <2> HIDE DEF s
  <2> QED BY <1>a, <1>b, <2>1, <2>2, WakeStep
<1>2. FlushOK' /\ ResetOK'
  <2>1. ~Flushing(current) /\ \A x \in Thread : Flushing(x)' => Flushing(x)
    BY <1>b DEF Flushing
  <2> QED BY <1>b, <2>1, NoFlush, NoReset
<1>3. SemTypes' /\ NobodyWaitsForAToken'
  <2>1. ASSUME NEW x \in Sem, waitq[x] = <<>> PROVE waitq'[x] = <<>>
    BY <1>b, <2>1, EmptyStays
  <2> QED BY <1>b, <2>1 DEF SemTypes, NobodyWaitsForAToken
<1> QED BY <1>1, <1>2, <1>3

(* ... and its end, with the new value. *)
LEMMA SemResetEndStep ==
  ASSUME SemInv, NEW t \in Thread, SemResetEnd(t)
  PROVE  SemInv'
<1>1. /\ current = t /\ pc[t] = "reset" /\ waitq[call[t]] = <<>>
      /\ Goto(t, "sched") /\ call' = [call EXCEPT ![t] = "none"]
      /\ UNCHANGED <<queueVars, threadVars, arg, current, nest, due, lag, exists>>
      /\ \E v \in ResetTo : value' = [value EXCEPT ![call[t]] = v]
  BY DEF SemResetEnd, At, Running
<1>2. KernelInv' /\ FlushOK' /\ ResetOK'
  <2>1. t # Idle /\ "none" \in Call
    BY <1>1 DEF SemInv, KernelInv, IdleOK, Call
  <2> QED BY <1>1, <2>1, SemPlaceStep DEF SemInv
<1>3. PICK v \in ResetTo : value' = [value EXCEPT ![call[t]] = v]
  BY <1>1
<1>4. v \in 0 .. MaxValue
  BY SemAssumption
<1>5. SemTypes'
  BY <1>1, <1>3, <1>4 DEF SemInv, SemTypes
<1>6. NobodyWaitsForAToken'
  BY <1>1, <1>3 DEF SemInv, SemTypes, NobodyWaitsForAToken, queueVars
<1> QED BY <1>2, <1>5, <1>6 DEF SemInv

(* rt_sem_detach, rt_sem_delete *)
LEMMA SemDetachStep ==
  ASSUME SemInv, Guarded, NEW t \in Thread \ {Idle}, NEW s \in Sem, SemDetach(t, s)
  PROVE  SemInv'
<1>1. KernelInv' /\ FlushOK' /\ UNCHANGED <<waitq, exists, value>>
  BY DetachStep DEF SemInv, SemDetach, Sem
<1>2. ResetOK'
  <2>1. pc \in [Thread -> Pc] /\ call \in [Thread -> Call]
    BY DEF SemInv, KernelInv, KernelTypeOK, Call
  <2> QED BY <2>1, NoReset DEF SemInv, SemDetach, Detach, Goto
<1> QED BY <1>1, <1>2 DEF SemInv, SemTypes, NobodyWaitsForAToken

(* rt_sem_init, rt_sem_create *)
LEMMA SemInitStep ==
  ASSUME SemInv, NEW t \in Thread \ {Idle}, NEW s \in Sem, SemInit(t, s)
  PROVE  SemInv'
<1>1. KernelInv' /\ waitq'[s] = <<>> /\ \A x \in Obj \ {s} : waitq'[x] = waitq[x]
  BY ObjectInitStep DEF SemInv, SemInit, Sem
<1>2. FlushOK' /\ ResetOK'
  <2>1. current = t /\ pc[t] = "run" /\ UNCHANGED <<pc, call>>
    BY DEF SemInit, ObjectInit, InUser, Running, callVars
  <2>2. ~Flushing(current) /\ \A x \in Thread : Flushing(x)' => Flushing(x)
    BY <2>1 DEF Flushing
  <2> QED BY <2>1, <2>2, NoFlush, NoReset DEF SemInv
<1>3. /\ value' = [value EXCEPT ![s] = InitValue[s]] /\ exists' = [exists EXCEPT ![s] = TRUE]
  BY DEF SemInit, ObjectInit
<1>4. InitValue[s] \in 0 .. MaxValue
  BY SemAssumption
<1>5. SemTypes'
  BY <1>3, <1>4 DEF SemInv, SemTypes
<1>6. NobodyWaitsForAToken'
  <2>1. \A x \in Sem \ {s} : value'[x] = value[x]
    BY <1>3 DEF SemInv, SemTypes
  <2> QED BY <1>1, <2>1 DEF SemInv, NobodyWaitsForAToken, Sem
<1> QED BY <1>1, <1>2, <1>5, <1>6 DEF SemInv

(* The loop of rt_ipc_list_resume_all. *)
LEMMA SemFlushStep ==
  ASSUME SemInv, NEW t \in Thread, FlushCheck(t) \/ FlushWake(t) \/ FlushEnd(t), UNCHANGED value
  PROVE  SemInv'
<1> USE DEF SemInv, SemTypes, Sem
<1>r. ResetOK'
  <2>1. pc \in [Thread -> Pc] /\ call \in [Thread -> Call]
    BY DEF KernelInv, KernelTypeOK, Call
  <2> QED BY <2>1, NoReset DEF FlushCheck, FlushWake, FlushEnd, Goto
<1>1. CASE FlushCheck(t)
  <2>1. KernelInv' /\ FlushOK' /\ UNCHANGED <<waitq, exists, value>>
    BY <1>1, FlushCheckStep
  <2> QED BY <1>r, <2>1 DEF NobodyWaitsForAToken
<1>2. CASE FlushWake(t)
  <2>1. /\ KernelInv' /\ FlushOK' /\ UNCHANGED <<exists, value>>
        /\ call[t] \in Obj /\ waitq[call[t]] # <<>>
        /\ waitq' = UnlinkAll(waitq, Head(waitq[call[t]]))
    BY <1>2, FlushWakeStep
  <2>2. Head(waitq[call[t]]) \in Thread
    BY <2>1, HeadRange DEF KernelInv, KernelTypeOK
  <2>3. ASSUME NEW x \in Sem, waitq[x] = <<>> PROVE waitq'[x] = <<>>
    BY <2>1, <2>2, <2>3, EmptyStays
  <2> QED BY <1>r, <2>1, <2>3 DEF NobodyWaitsForAToken
<1>3. CASE FlushEnd(t)
  <2>1. KernelInv' /\ FlushOK' /\ UNCHANGED <<waitq, value>> /\ exists' \in [Obj -> BOOLEAN]
    BY <1>3, FlushEndStep
  <2> QED BY <1>r, <2>1 DEF NobodyWaitsForAToken
<1> QED BY <1>1, <1>2, <1>3

(***************************************************************************)
(* The theorems.                                                           *)
(***************************************************************************)

LEMMA SemInitInv == Init => SemInv
<1> SUFFICES ASSUME Init PROVE SemInv
  OBVIOUS
<1>1. KernelInv
  BY InitInv DEF Init
<1>2. FlushOK /\ ResetOK
  BY DEF FlushOK, Flushing, ResetOK, Init, KernelInit
<1>3. SemTypes
  BY SemAssumption DEF SemTypes, Init
<1>4. NobodyWaitsForAToken
  BY DEF NobodyWaitsForAToken, Init, KernelInit, Sem
<1> QED BY <1>1, <1>2, <1>3, <1>4 DEF SemInv

LEMMA SemStepInv ==
  ASSUME SemInv, Guarded, [Next]_vars
  PROVE  SemInv'
<1>1. ASSUME [KernelNext]_kernelVars, UNCHANGED semVars PROVE SemInv'
  <2>1. KernelInv' /\ FlushOK' /\ ResetOK'
    BY <1>1, StepInv, KernelKeepsFlush, KernelKeepsReset DEF SemInv
  <2>2. \A s \in Sem : waitq[s] = <<>> => waitq'[s] = <<>>
    BY <1>1, KernelShrinksWaits DEF SemInv, Sem
  <2> QED BY <1>1, <2>1, <2>2 DEF SemInv, SemTypes, NobodyWaitsForAToken, semVars
<1>2. ASSUME NEW t \in Thread, InSemCall(t) PROVE SemInv'
  <2>1. CASE SemReturn(t)
    BY <2>1, SemReturnStep
  <2>2. CASE SemResetWake(t) \/ SemResetEnd(t)
    BY <2>2, SemResetWakeStep, SemResetEndStep
  <2>3. CASE UNCHANGED value /\ (FlushCheck(t) \/ FlushWake(t) \/ FlushEnd(t))
    BY <2>3, SemFlushStep
  <2> QED BY <1>2, <2>1, <2>2, <2>3 DEF InSemCall
<1>3. ASSUME NEW t \in Thread \ {Idle}, SemCall(t) PROVE SemInv'
  BY <1>3, SemTakeStep, SemWaitStep, SemReleaseStep, SemResetStep, SemDetachStep, SemInitStep DEF SemCall
<1>4. ASSUME NEW s \in Sem, IsrSemRelease(s) PROVE SemInv'
  BY <1>4, IsrSemReleaseStep
<1>5. CASE UNCHANGED vars
  BY <1>1, <1>5 DEF vars
<1> QED BY <1>1, <1>2, <1>3, <1>4, <1>5 DEF Next

(* Every semaphore system keeps the invariant in which threads work on     *)
(* each other, and detach semaphores, only as Guarded says.                *)
THEOREM SemInvariant == Guarded => (Spec => []SemInv)
<1> SUFFICES ASSUME Guarded PROVE Spec => []SemInv
  OBVIOUS
<1>1. Init => SemInv
  BY SemInitInv
<1>2. SemInv /\ [Next]_vars => SemInv'
  BY SemStepInv
<1> QED BY <1>1, <1>2, PTL DEF Spec

(* rt_sem_take, rt_sem_release, RT_IPC_CMD_RESET, rt_sem_detach and        *)
(* interrupt handlers that release leave the ready queues, the wait lists, *)
(* the timers and preemption as the kernel needs them.                     *)
THEOREM SemaphoresStaySound == Guarded => (Spec => []SemSound)
<1>1. SemInv => SemSound
  BY HeadIsHighest DEF SemInv, KernelInv, SemTypes, SemSound, KernelSound
<1> QED BY <1>1, SemInvariant, PTL

(* No lost wake-up: rt_sem_release never leaves a token beside a waiting   *)
(* thread, and rt_sem_take never waits beside a token.                     *)
THEOREM NoLostWakeup == Guarded => (Spec => []NobodyWaitsForAToken)
<1>1. SemInv => NobodyWaitsForAToken
  BY DEF SemInv
<1> QED BY <1>1, SemInvariant, PTL

(***************************************************************************)
(* Refinement of CountingSemaphore: each step of the kernel, of a thread   *)
(* inside rt_sem_take, rt_sem_release, a reset or a detach, and of an      *)
(* interrupt handler is a step of the abstract semaphore or leaves it as   *)
(* it is.                                                                  *)
(***************************************************************************)

(***************************************************************************)
(* What the mapping needs beyond SemInv.                                   *)
(***************************************************************************)

(* A reset has the processor for itself. *)
ResetRuns ==
  \A t \in Thread : pc[t] = "reset" => current = t /\ due = {} /\ exists[call[t]]

(* Nobody waits for a semaphore that is gone. *)
GoneEmpty == \A s \in Sem : ~exists[s] => waitq[s] = <<>>

RefInv == SemInv /\ FreshOK /\ PlaceOK /\ ResetRuns /\ GoneEmpty /\ WaitPlace

LEMMA GrantedIsHeld ==
  ASSUME NEW s \in Sem
  PROVE  /\ Granted(s) = {x \in Thread : Holds(s, x)}
         /\ Granted(s)' = {x \in Thread : Holds(s, x)'}
         /\ \A x \in Range(waitq[s]) : WaitPlace => ~Holds(s, x)
BY DEF Granted, Holds, WaitPlace, Sem

(***************************************************************************)
(* Steps of the kernel.                                                    *)
(***************************************************************************)

(* In a reset or a flush the kernel does nothing to the thread, and it     *)
(* begins none.                                                            *)
LEMMA KernelKeepsClosed ==
  ASSUME RefInv, [KernelNext]_kernelVars, NEW x \in Thread
  PROVE  /\ pc'[x] \in {"reset", "flush", "flushlock"} <=> pc[x] \in {"reset", "flush", "flushlock"}
         /\ pc[x] \in {"reset", "flush", "flushlock"} => pc'[x] = pc[x] /\ call'[x] = call[x]
         /\ pc[x] = "reset" => UNCHANGED kernelVars
<1> USE DEF callVars, Goto
<1>t. pc \in [Thread -> Pc] /\ call \in [Thread -> Call]
  BY DEF RefInv, SemInv, KernelInv, KernelTypeOK, Call
<1>c. /\ pc[x] \in {"reset", "flush", "flushlock"} => current = x
      /\ pc[x] = "reset" => due = {}
  BY DEF RefInv, SemInv, FlushOK, Flushing, ResetRuns
<1> DEFINE Same == /\ pc'[x] \in {"reset", "flush", "flushlock"} <=> pc[x] \in {"reset", "flush", "flushlock"}
                   /\ pc[x] \in {"reset", "flush", "flushlock"} => pc'[x] = pc[x] /\ call'[x] = call[x]
                   /\ pc[x] # "reset"
<1>1. CASE UNCHANGED kernelVars
  BY <1>1 DEF kernelVars
<1>2. ASSUME NEW v \in Thread, InCall(v) PROVE Same
  BY <1>2, <1>t, <1>c DEF InCall, Schedule, Return, SuspendLocked, ResumeLocked, ResumeInsert, DeleteTimer, DeleteClose, DeleteDefunct, At, Running
<1>3. ASSUME NEW v \in Thread, UserCall(v) PROVE Same
  <2> USE DEF InUser, Running, MayBlock, MayControl
  <2>1. CASE (\E n \in 1 .. MaxTime : Sleep(v, n)) \/ SuspendSelf(v) \/ Yield(v) \/ EnterCritical(v) \/ ExitCritical(v) \/ Exit(v)
    BY <1>t, <1>c, <2>1 DEF Sleep, SuspendSelf, SuspendFor, Yield, EnterCritical, ExitCritical, Exit
  <2>2. CASE \E u \in Thread : \/ Suspend(v, u) \/ Resume(v, u) \/ Delete(v, u)
                              \/ Create(v, u) \/ Startup(v, u)
                              \/ \E p \in PrioChoices : ChangePriority(v, u, p)
    BY <1>t, <1>c, <2>2 DEF Suspend, Resume, Delete, Create, Startup, ChangePriority, Begin
  <2> QED BY <1>3, <2>1, <2>2 DEF UserCall
<1>4. CASE IdleExcute \/ Tick \/ \E v \in Thread : Timeout(v)
  BY <1>t, <1>c, <1>4 DEF IdleExcute, Tick, Timeout, InUser, Running, IrqEnabled
<1> QED BY <1>1, <1>2, <1>3, <1>4 DEF KernelNext, ThreadStep, Interrupt

(* What every step below starts from. *)
LEMMA ViewFacts ==
  ASSUME RefInv, NEW s \in Sem
  PROVE  /\ pc \in [Thread -> Pc] /\ call \in [Thread -> Call] /\ stat \in [Thread -> Stat]
         /\ err \in [Thread -> Err] /\ arg \in [Thread -> Thread \cup {NoThread}]
         /\ s \notin {"none", "sleep", "suspend"} /\ current \in Thread
         /\ Range(waitq[s]) \subseteq Thread
         /\ \A x \in Range(waitq[s]) : stat[x] = "SUSPEND" /\ call[x] = s
         /\ \A x \in Thread : pc[x] \in {"run"} \cup OpPc => call[x] = "none"
         /\ \A v \in Thread : arg[v] = NoThread <=> pc[v] \notin OpPc
BY WaitView DEF RefInv, SemInv, WaitInv, Sem

(* A kernel step is a step of the abstract semaphore: one client leaves    *)
(* with its token, gives its wait up, or nothing happens.                  *)
LEMMA KernelRefines ==
  ASSUME RefInv, [KernelNext]_kernelVars, UNCHANGED semVars, NEW s \in Sem
  PROVE  [Counting(s)!Next]_(Counting(s)!vars)
<1>1. Open(s)' = Open(s)
  <2>1. \A x \in Thread : /\ pc'[x] \in {"reset", "flush", "flushlock"} <=> pc[x] \in {"reset", "flush", "flushlock"}
                          /\ pc[x] \in {"reset", "flush", "flushlock"} => call'[x] = call[x]
    BY KernelKeepsClosed
  <2> QED BY <2>1 DEF Open, semVars
<1>2. Range(waitq'[s]) \subseteq Range(waitq[s])
  BY KernelShrinksWaits DEF RefInv, SemInv, Sem
<1>3. CASE UNCHANGED kernelVars
  <2>1. UNCHANGED <<value, waitq, call, stat, pc, err, arg>>
    BY <1>3 DEF kernelVars, queueVars, threadVars, callVars, semVars
  <2>2. Granted(s)' = Granted(s)
    BY <2>1 DEF Granted, Deleting
  <2> QED BY <1>1, <2>1, <2>2 DEF Counting!vars
<1>4. ASSUME NEW c \in Thread, Fades(s, c) PROVE [Counting(s)!Next]_(Counting(s)!vars)
  <2>1. /\ Granted(s) = {x \in Thread : Holds(s, x)}
        /\ Granted(s)' = {x \in Thread : Holds(s, x)'}
        /\ \A x \in Range(waitq[s]) : ~Holds(s, x)
    BY GrantedIsHeld DEF RefInv
  <2>2. value' = value
    BY DEF semVars
  <2>3. CASE c \in Range(waitq[s])
    <3>1. Granted(s)' = Granted(s)
      BY <1>4, <2>1, <2>3 DEF Fades
    <3>2. Range(waitq'[s]) = Range(waitq[s]) \/ Range(waitq'[s]) = Range(waitq[s]) \ {c}
      BY <1>2, <1>4 DEF Fades
    <3> QED BY <1>1, <2>2, <2>3, <3>1, <3>2 DEF Counting!Next, Counting!vars, Counting!GiveUp
  <2>4. CASE c \notin Range(waitq[s])
    <3>1. Range(waitq'[s]) = Range(waitq[s])
      BY <1>2, <1>4, <2>4 DEF Fades
    <3>2. Granted(s)' = Granted(s) \/ (c \in Granted(s) /\ Granted(s)' = Granted(s) \ {c})
      BY <1>4, <2>1 DEF Fades
    <3> QED BY <1>1, <2>2, <3>1, <3>2 DEF Counting!Next, Counting!vars, Counting!Leave
  <2> QED BY <2>3, <2>4
<1>5. CASE KernelNext
  <2>1. \E c \in Thread : Fades(s, c)
    BY <1>5, KernelFades DEF RefInv, SemInv, WaitInv, Sem
  <2> QED BY <1>4, <2>1
<1> QED BY <1>3, <1>5

(***************************************************************************)
(* Steps of the semaphore's own functions.                                 *)
(***************************************************************************)

(* The rest of RefInv. *)
Places == FreshOK /\ PlaceOK /\ ResetRuns /\ GoneEmpty /\ WaitPlace

(* The thread x is taking the semaphore out of service. *)
Closing(x) == pc[x] \in {"reset", "flush", "flushlock"}

Refines(s) == [Counting(s)!Next]_(Counting(s)!vars)

(* What a call finds: its caller is ready and nobody works on it, and no   *)
(* semaphore is being closed.                                              *)
LEMMA CallerFacts ==
  ASSUME RefInv, NEW t \in Thread, InUser(t)
  PROVE  /\ current = t /\ due = {} /\ pc[t] = "run" /\ call[t] = "none" /\ stat[t] = "READY"
         /\ \A v \in Thread : arg[v] # t
         /\ \A s \in Sem : t \notin Range(waitq[s])
         /\ \A x \in Thread : ~Closing(x)
<1>1. current = t /\ due = {} /\ pc[t] = "run" /\ call[t] = "none" /\ stat[t] = "READY"
  BY DEF InUser, Running, RefInv, PlaceOK, SemInv, KernelInv, CurrentOK
<1>2. \A x \in Thread : ~Closing(x)
  BY <1>1 DEF RefInv, SemInv, FlushOK, Flushing, ResetRuns, Closing
<1> QED BY <1>1, <1>2, RunningThread DEF RefInv, SemInv, Sem

(* With every thread as it was, and the lists and the value of s, nothing  *)
(* has happened to s.                                                      *)
LEMMA Stutters ==
  ASSUME NEW s \in Sem, UNCHANGED <<value[s], Range(waitq[s])>>, Open(s)' <=> Open(s),
         \A x \in Thread : Holds(s, x)' <=> Holds(s, x)
  PROVE  Refines(s)
<1>1. Granted(s)' = Granted(s)
  BY GrantedIsHeld
<1>2. Open(s)' = Open(s)
  BY DEF Open
<1> QED BY <1>1, <1>2 DEF Refines, Counting!vars

(* rt_sem_take with a token is Take. *)
LEMMA SemTakeRefines ==
  ASSUME RefInv, NEW t \in Thread \ {Idle}, NEW o \in Sem, SemTake(t, o), NEW s \in Sem
  PROVE  Places' /\ Refines(s)
<1> USE DEF SemTake, Goto, queueVars, threadVars
<1>f. /\ pc \in [Thread -> Pc] /\ call \in [Thread -> Call] /\ stat \in [Thread -> Stat]
      /\ s \notin {"none", "sleep", "suspend"} /\ Range(waitq[s]) \subseteq Thread
      /\ value \in [Sem -> 0 .. MaxValue]
  BY ViewFacts DEF RefInv, SemInv, SemTypes
<1>c. /\ current = t /\ due = {} /\ pc[t] = "run" /\ call[t] = "none" /\ stat[t] = "READY"
      /\ \A v \in Thread : arg[v] # t
      /\ \A x \in Sem : t \notin Range(waitq[x])
      /\ \A x \in Thread : ~Closing(x)
  BY CallerFacts
<1>1. /\ UNCHANGED <<waitq, exists, stat, err, arg, current, due>>
      /\ pc' = [pc EXCEPT ![t] = "got"] /\ call' = [call EXCEPT ![t] = o]
      /\ exists[o] /\ value[o] > 0 /\ value' = [value EXCEPT ![o] = @ - 1]
  OBVIOUS
<1> HIDE DEF SemTake
<1>2. Places'
  <2>1. FreshOK' /\ PlaceOK'
    BY <1>f, <1>c, <1>1 DEF RefInv, FreshOK, PlaceOK, OpPc
  <2>2. ResetRuns' /\ GoneEmpty'
    BY <1>f, <1>c, <1>1 DEF RefInv, ResetRuns, GoneEmpty, Closing
  <2>3. WaitPlace'
    BY <1>f, <1>c, <1>1, ViewFacts DEF RefInv, WaitPlace
  <2> QED BY <2>1, <2>2, <2>3 DEF Places
<1>3. \A x \in Thread : Deleting(x)' <=> Deleting(x)
  BY <1>f, <1>c, <1>1 DEF Deleting
<1>4. (Open(s)' <=> Open(s)) /\ (Open(s) <=> exists[s])
  BY <1>f, <1>c, <1>1 DEF Open, Closing
<1>5. \A x \in Thread \ {t} : Holds(s, x)' <=> Holds(s, x)
  BY <1>f, <1>1, <1>3 DEF Holds
<1>6. ~Holds(s, t)
  BY <1>f, <1>c DEF Holds
<1>7. CASE s = o
  <2>1. Holds(s, t)'
    BY <1>f, <1>c, <1>1, <1>3, <1>7 DEF Holds, Deleting
  <2>2. Granted(s)' = Granted(s) \cup {t} /\ t \notin Granted(s)
    BY <1>5, <1>6, <2>1, GrantedIsHeld
  <2>3. Open(s) /\ Open(s)' = Open(s) /\ value[s] > 0 /\ value'[s] = value[s] - 1
    BY <1>f, <1>1, <1>4, <1>7 DEF Open
  <2> QED BY <1>1, <1>2, <2>2, <2>3 DEF Refines, Counting!Next, Counting!Take
<1>8. CASE s # o
  <2>1. ~Holds(s, t)'
    BY <1>f, <1>1, <1>8 DEF Holds
  <2>2. UNCHANGED <<value[s], Range(waitq[s])>>
    BY <1>f, <1>1, <1>8
  <2> QED BY <1>2, <1>4, <1>5, <1>6, <2>1, <2>2, Stutters
<1> QED BY <1>2, <1>7, <1>8

(* rt_sem_take that has to wait is Wait. *)
LEMMA SemWaitRefines ==
  ASSUME RefInv, NEW t \in Thread \ {Idle}, NEW o \in Sem, NEW n \in 0 .. MaxTime,
         SemWait(t, o, n), NEW s \in Sem
  PROVE  Places' /\ Refines(s)
<1> USE DEF SemWait, MayBlock, Block, SuspendFor, Goto, semVars
<1>f. /\ pc \in [Thread -> Pc] /\ call \in [Thread -> Call] /\ stat \in [Thread -> Stat]
      /\ err \in [Thread -> Err]
      /\ s \notin {"none", "sleep", "suspend"} /\ Range(waitq[s]) \subseteq Thread
      /\ value \in [Sem -> 0 .. MaxValue]
  BY ViewFacts DEF RefInv, SemInv, SemTypes
<1>c. /\ current = t /\ due = {} /\ pc[t] = "run" /\ call[t] = "none" /\ stat[t] = "READY"
      /\ \A v \in Thread : arg[v] # t
      /\ \A x \in Sem : t \notin Range(waitq[x])
      /\ \A x \in Thread : ~Closing(x)
  BY CallerFacts
<1>1. /\ UNCHANGED <<exists, value, arg, current, due>>
      /\ stat' = [stat EXCEPT ![t] = "SUSPEND"] /\ err' = [err EXCEPT ![t] = "EOK"]
      /\ pc' = [pc EXCEPT ![t] = "sched"] /\ call' = [call EXCEPT ![t] = o]
      /\ waitq' = [waitq EXCEPT ![o] = WaitInsert(@, t, SemFlag[o])]
      /\ exists[o] /\ value[o] = 0
  OBVIOUS
<1> HIDE DEF SemWait, Block, SuspendFor
<1>w. \A x \in Sem : Range(waitq'[x]) = IF x = o THEN Range(waitq[o]) \cup {t} ELSE Range(waitq[x])
  <2>1. waitq \in [Obj -> Seq(Thread)] /\ IsInjective(waitq[o])
    BY DEF RefInv, SemInv, KernelInv, KernelTypeOK, ListsConsistent, Sem
  <2>2. Range(WaitInsert(waitq[o], t, SemFlag[o])) = Range(waitq[o]) \cup {t}
    BY <1>c, <2>1, WaitInsertRange DEF Sem
  <2> QED BY <1>1, <2>1, <2>2 DEF Sem
<1>2. Places'
  <2>1. FreshOK' /\ PlaceOK'
    BY <1>f, <1>c, <1>1 DEF RefInv, FreshOK, PlaceOK, OpPc
  <2>2. ResetRuns'
    BY <1>f, <1>c, <1>1 DEF RefInv, ResetRuns, Closing
  <2>3. GoneEmpty'
    <3>1. \A x \in Sem \ {o} : waitq'[x] = waitq[x]
      BY <1>1 DEF RefInv, SemInv, KernelInv, KernelTypeOK, Sem
    <3> QED BY <1>1, <3>1 DEF RefInv, GoneEmpty
  <2>4. WaitPlace'
    <3> SUFFICES ASSUME NEW x \in Sem, NEW v \in Range(waitq'[x])
                 PROVE  pc'[v] \in {"sched", "blocked"} /\ err'[v] = "EOK"
      BY DEF WaitPlace, Sem
    <3>1. v = t \/ (v \in Range(waitq[x]) /\ v \in Thread \ {t})
      BY <1>c, <1>w, ViewFacts
    <3> QED BY <1>f, <1>1, <3>1 DEF RefInv, WaitPlace, Sem
  <2> QED BY <2>1, <2>2, <2>3, <2>4 DEF Places
<1>3. \A x \in Thread : Deleting(x)' <=> Deleting(x)
  BY <1>f, <1>c, <1>1 DEF Deleting
<1>4. (Open(s)' <=> Open(s)) /\ (Open(s) <=> exists[s])
  BY <1>f, <1>c, <1>1 DEF Open, Closing
<1>5. \A x \in Thread \ {t} : Holds(s, x)' <=> Holds(s, x)
  BY <1>f, <1>1, <1>3, <1>w DEF Holds
<1>6. ~Holds(s, t) /\ ~Holds(s, t)'
  BY <1>f, <1>c, <1>1, <1>w DEF Holds
<1>7. CASE s = o
  <2>1. Granted(s)' = Granted(s) /\ t \notin Granted(s)
    BY <1>5, <1>6, GrantedIsHeld
  <2>2. Open(s) /\ Open(s)' = Open(s) /\ value[s] = 0 /\ value'[s] = value[s]
    BY <1>f, <1>1, <1>4, <1>7 DEF Open
  <2>3. Range(waitq'[s]) = Range(waitq[s]) \cup {t}
    BY <1>7, <1>w
  <2> QED BY <1>2, <2>1, <2>2, <2>3 DEF Refines, Counting!Next, Counting!Wait
<1>8. CASE s # o
  <2>2. UNCHANGED <<value[s], Range(waitq[s])>>
    BY <1>f, <1>1, <1>8, <1>w
  <2> QED BY <1>2, <1>4, <1>5, <1>6, <2>2, Stutters
<1> QED BY <1>2, <1>7, <1>8

(* The return of rt_sem_take is Leave, if it brings a token. *)
LEMMA SemReturnRefines ==
  ASSUME RefInv, NEW t \in Thread, SemReturn(t), NEW s \in Sem
  PROVE  Places' /\ Refines(s)
<1>f. /\ pc \in [Thread -> Pc] /\ call \in [Thread -> Call] /\ stat \in [Thread -> Stat]
      /\ err \in [Thread -> Err]
      /\ s \notin {"none", "sleep", "suspend"} /\ Range(waitq[s]) \subseteq Thread
      /\ value \in [Sem -> 0 .. MaxValue]
      /\ \A x \in Thread : pc[x] \in {"run"} \cup OpPc => call[x] = "none"
  BY ViewFacts DEF RefInv, SemInv, SemTypes
<1>1. /\ UNCHANGED <<waitq, value, exists, stat, err, arg, current, due>>
      /\ pc' = [pc EXCEPT ![t] = "run"] /\ call' = [call EXCEPT ![t] = "none"]
      /\ pc[t] \in {"got", "blocked"} /\ current = t /\ due = {} /\ call[t] \in Sem
  BY DEF SemReturn, At, Running, Goto, queueVars, threadVars, semVars
<1>2. \A x \in Thread : ~Closing(x)
  BY <1>1 DEF RefInv, SemInv, FlushOK, Flushing, ResetRuns, Closing
<1>w. \A x \in Sem : t \notin Range(waitq[x])
  <2>1. stat[t] = "READY"
    BY <1>1 DEF RefInv, SemInv, KernelInv, CurrentOK
  <2> QED BY <1>1, <2>1, RunningThread DEF RefInv, SemInv, Sem
<1>3. Places'
  <2>1. FreshOK' /\ PlaceOK'
    BY <1>f, <1>1 DEF RefInv, FreshOK, PlaceOK, OpPc
  <2>2. ResetRuns' /\ GoneEmpty'
    BY <1>f, <1>1, <1>2 DEF RefInv, ResetRuns, GoneEmpty, Closing
  <2>3. WaitPlace'
    BY <1>f, <1>1, <1>w, ViewFacts DEF RefInv, WaitPlace, Sem
  <2> QED BY <2>1, <2>2, <2>3 DEF Places
<1>4. \A x \in Thread : Deleting(x)' <=> Deleting(x)
  BY <1>f, <1>1 DEF Deleting
<1>5. Open(s)' <=> Open(s)
  BY <1>f, <1>1, <1>2 DEF Open, Closing
<1>6. \A x \in Thread \ {t} : Holds(s, x)' <=> Holds(s, x)
  BY <1>f, <1>1, <1>4 DEF Holds
<1>7. ~Holds(s, t)'
  BY <1>f, <1>1 DEF Holds
<1>8. UNCHANGED <<value[s], Range(waitq[s])>>
  BY <1>1
<1>9. CASE Holds(s, t)
  <2>1. Granted(s)' = Granted(s) \ {t} /\ t \in Granted(s)
    BY <1>6, <1>7, <1>9, GrantedIsHeld
  <2>2. Open(s)' = Open(s)
    BY <1>5 DEF Open
  <2> QED BY <1>3, <1>8, <2>1, <2>2 DEF Refines, Counting!Next, Counting!Leave
<1>10. CASE ~Holds(s, t)
  BY <1>3, <1>5, <1>6, <1>7, <1>8, <1>10, Stutters
<1> QED BY <1>9, <1>10

(* The waiter that is woken. *)
LEMMA WokenFacts ==
  ASSUME RefInv, NEW o \in Sem, waitq[o] # <<>>, Wake(Head(waitq[o]))
  PROVE  \E w \in Thread :
           /\ w = Head(waitq[o]) /\ w \in Range(waitq[o])
           /\ stat[w] = "SUSPEND" /\ call[w] = o /\ ~Deleting(w)
           /\ pc[w] \in {"sched", "blocked"} /\ err[w] = "EOK"
           /\ stat' = [stat EXCEPT ![w] = "READY"]
           /\ \A x \in Sem : Range(waitq'[x]) = IF x = o THEN Range(waitq[x]) \ {w} ELSE Range(waitq[x])
<1>1. waitq \in [Obj -> Seq(Thread)] /\ o \in Obj
  BY DEF RefInv, SemInv, KernelInv, KernelTypeOK, Sem
<1>2. Head(waitq[o]) \in Range(waitq[o]) /\ Head(waitq[o]) \in Thread
  BY <1>1, HeadRange
<1>3. PICK w \in Thread : w = Head(waitq[o])
  BY <1>2
<1>4. w \in Range(waitq[o])
  BY <1>2, <1>3
<1>5. stat[w] = "SUSPEND" /\ call[w] = o /\ \A v \in Thread : arg[v] # w
  BY <1>1, <1>4, WaiterFacts DEF RefInv, SemInv
<1>6. pc[w] \in {"sched", "blocked"} /\ err[w] = "EOK" /\ ~Deleting(w)
  BY <1>4, <1>5 DEF RefInv, WaitPlace, Sem, Deleting
<1>7. stat' = [stat EXCEPT ![w] = "READY"] /\ waitq' = UnlinkAll(waitq, w)
  BY <1>3 DEF Wake, MakeReady
<1>8. ASSUME NEW x \in Sem
      PROVE  Range(waitq'[x]) = IF x = o THEN Range(waitq[x]) \ {w} ELSE Range(waitq[x])
  <2>1. x \in Obj
    BY DEF Sem
  <2>2. Range(waitq'[x]) = Range(waitq[x]) \ {w}
    BY <1>7, <2>1, WaitRemoved DEF RefInv, SemInv, WOK
  <2>3. x # o => w \notin Range(waitq[x])
    BY <1>5, <2>1, WaiterFacts DEF RefInv, SemInv
  <2> QED BY <2>2, <2>3
<1> QED BY <1>3, <1>4, <1>5, <1>6, <1>7, <1>8

(* A waiter woken with the token is Post for its semaphore. *)
LEMMA GivenRefines ==
  ASSUME RefInv, NEW o \in Sem, waitq[o] # <<>>, Wake(Head(waitq[o])),
         UNCHANGED <<value, err, arg>>,
         \A x \in Thread : \/ UNCHANGED <<pc[x], call[x]>>
                           \/ call[x] = "none" /\ call'[x] = "none" /\ pc[x] = "run" /\ pc'[x] = "sched",
         Open(o), NEW s \in Sem, Open(s)' <=> Open(s)
  PROVE  Refines(s)
<1>f. /\ pc \in [Thread -> Pc] /\ call \in [Thread -> Call] /\ stat \in [Thread -> Stat]
      /\ err \in [Thread -> Err]
      /\ s \notin {"none", "sleep", "suspend"} /\ Range(waitq[s]) \subseteq Thread
      /\ value \in [Sem -> 0 .. MaxValue]
      /\ \A x \in Thread : pc[x] \in {"run"} \cup OpPc => call[x] = "none"
  BY ViewFacts DEF RefInv, SemInv, SemTypes
<1>1. PICK w \in Thread :
           /\ w = Head(waitq[o]) /\ w \in Range(waitq[o])
           /\ stat[w] = "SUSPEND" /\ call[w] = o /\ ~Deleting(w)
           /\ pc[w] \in {"sched", "blocked"} /\ err[w] = "EOK"
           /\ stat' = [stat EXCEPT ![w] = "READY"]
           /\ \A x \in Sem : Range(waitq'[x]) = IF x = o THEN Range(waitq[x]) \ {w} ELSE Range(waitq[x])
  BY WokenFacts
<1>2. \A x \in Thread : Deleting(x)' <=> Deleting(x)
  BY SameDeleting
<1>3. \A x \in Thread \ {w} : Holds(s, x)' <=> Holds(s, x)
  <2> SUFFICES ASSUME NEW x \in Thread \ {w} PROVE Holds(s, x)' <=> Holds(s, x)
    OBVIOUS
  <2>1. stat'[x] = stat[x] /\ (x \in Range(waitq'[s]) <=> x \in Range(waitq[s]))
    BY <1>f, <1>1
  <2>2. CASE UNCHANGED <<pc[x], call[x]>>
    BY <1>2, <2>1, <2>2 DEF Holds
  <2>3. CASE call[x] = "none" /\ call'[x] = "none"
    BY <1>f, <2>3 DEF Holds
  <2> QED BY <2>2, <2>3
<1>4. pc'[w] = pc[w] /\ call'[w] = o /\ stat'[w] = "READY"
  BY <1>f, <1>1
<1>5. Open(s)' = Open(s)
  BY DEF Open
<1>6. CASE s = o
  <2>1. Holds(s, w)'
    BY <1>1, <1>2, <1>4, <1>6 DEF Holds
  <2>2. Granted(s)' = Granted(s) \cup {w}
    BY <1>3, <2>1, GrantedIsHeld
  <2>3. Range(waitq'[s]) = Range(waitq[s]) \ {w} /\ value' = value /\ Open(s) /\ w \in Range(waitq[s])
    BY <1>1, <1>6
  <2> QED BY <1>5, <2>2, <2>3 DEF Refines, Counting!Next, Counting!Post
<1>7. CASE s # o
  <2>1. ~Holds(s, w) /\ ~Holds(s, w)'
    BY <1>1, <1>4, <1>7 DEF Holds
  <2>2. UNCHANGED <<value[s], Range(waitq[s])>>
    BY <1>1, <1>7
  <2> QED BY <1>3, <2>1, <2>2, Stutters
<1> QED BY <1>6, <1>7

(* A waiter woken with -RT_ERROR is GiveUp for its semaphore. *)
LEMMA RefusedRefines ==
  ASSUME RefInv, NEW o \in Sem, waitq[o] # <<>>, WakeWithError(o),
         UNCHANGED <<value, arg>>,
         \A x \in Thread : UNCHANGED call[x] /\ (pc'[x] = pc[x] \/ (Closing(x) /\ Closing(x)')),
         NEW s \in Sem, Open(s)' <=> Open(s)
  PROVE  Refines(s)
<1>f. /\ pc \in [Thread -> Pc] /\ call \in [Thread -> Call] /\ stat \in [Thread -> Stat]
      /\ err \in [Thread -> Err]
      /\ s \notin {"none", "sleep", "suspend"} /\ Range(waitq[s]) \subseteq Thread
      /\ value \in [Sem -> 0 .. MaxValue]
      /\ \A x \in Thread : pc[x] \in {"run"} \cup OpPc => call[x] = "none"
  BY ViewFacts DEF RefInv, SemInv, SemTypes
<1>0. Wake(Head(waitq[o]))
  BY DEF WakeWithError
<1>1. PICK w \in Thread :
           /\ w = Head(waitq[o]) /\ w \in Range(waitq[o])
           /\ stat[w] = "SUSPEND" /\ call[w] = o /\ ~Deleting(w)
           /\ pc[w] \in {"sched", "blocked"} /\ err[w] = "EOK"
           /\ stat' = [stat EXCEPT ![w] = "READY"]
           /\ \A x \in Sem : Range(waitq'[x]) = IF x = o THEN Range(waitq[x]) \ {w} ELSE Range(waitq[x])
  BY <1>0, WokenFacts
<1>e. err' = [err EXCEPT ![w] = "ERROR"]
  BY <1>1 DEF WakeWithError
<1>2. \A x \in Thread : Deleting(x)' <=> Deleting(x)
  BY SameDeleting DEF Closing
<1>3. \A x \in Thread \ {w} : Holds(s, x)' <=> Holds(s, x)
  <2> SUFFICES ASSUME NEW x \in Thread \ {w} PROVE Holds(s, x)' <=> Holds(s, x)
    OBVIOUS
  <2>1. stat'[x] = stat[x] /\ (x \in Range(waitq'[s]) <=> x \in Range(waitq[s])) /\ err'[x] = err[x]
    BY <1>f, <1>1, <1>e
  <2>2. CASE UNCHANGED <<pc[x], call[x]>>
    BY <1>2, <2>1, <2>2 DEF Holds
  <2>3. CASE Closing(x) /\ Closing(x)'
    BY <2>3 DEF Holds, Closing
  <2> QED BY <2>2, <2>3
<1>4. pc'[w] = pc[w] /\ call'[w] = o /\ err'[w] = "ERROR"
  BY <1>f, <1>1, <1>e DEF Closing
<1>5. Open(s)' = Open(s)
  BY DEF Open
<1>6. ~Holds(s, w) /\ ~Holds(s, w)'
  BY <1>1, <1>4 DEF Holds
<1>7. Granted(s)' = Granted(s)
  BY ZenonT(60), <1>3, <1>6, GrantedIsHeld
<1>8. CASE s = o
  <2>3. Range(waitq'[s]) = Range(waitq[s]) \ {w} /\ value' = value /\ w \in Range(waitq[s])
    BY <1>1, <1>8
  <2> QED BY <1>5, <1>7, <2>3 DEF Refines, Counting!Next, Counting!GiveUp
<1>9. CASE s # o
  <2>2. UNCHANGED <<value[s], Range(waitq[s])>>
    BY <1>1, <1>9
  <2> QED BY <1>3, <1>6, <2>2, Stutters
<1> QED BY <1>8, <1>9

(* The threads that go on waiting after another was woken, and the rest,   *)
(* are where they were.                                                    *)
LEMMA WokenPlaces ==
  ASSUME RefInv, NEW o \in Sem, waitq[o] # <<>>, Wake(Head(waitq[o])), UNCHANGED <<exists, call>>,
         err' = err \/ err' = [err EXCEPT ![Head(waitq[o])] = "ERROR"],
         \A x \in Thread : pc'[x] = pc[x] \/ pc[x] \notin {"sched", "blocked"}
  PROVE  FreshOK' /\ GoneEmpty' /\ WaitPlace'
<1>f. err \in [Thread -> Err] /\ stat \in [Thread -> Stat] /\ WOK(waitq)
  BY InvQueues DEF RefInv, SemInv, KernelInv, KernelTypeOK, Err
<1>1. PICK w \in Thread :
           /\ w = Head(waitq[o]) /\ w \in Range(waitq[o])
           /\ stat[w] = "SUSPEND" /\ call[w] = o /\ ~Deleting(w)
           /\ pc[w] \in {"sched", "blocked"} /\ err[w] = "EOK"
           /\ stat' = [stat EXCEPT ![w] = "READY"]
           /\ \A x \in Sem : Range(waitq'[x]) = IF x = o THEN Range(waitq[x]) \ {w} ELSE Range(waitq[x])
  BY WokenFacts
<1>2. FreshOK'
  BY <1>f, <1>1 DEF RefInv, FreshOK
<1>3. GoneEmpty'
  <2> SUFFICES ASSUME NEW x \in Sem, waitq[x] = <<>> PROVE waitq'[x] = <<>>
    BY DEF RefInv, GoneEmpty
  <2>1. waitq' = UnlinkAll(waitq, w)
    BY <1>1 DEF Wake, MakeReady
  <2>2. waitq'[x] \in Seq(Thread) /\ Range(waitq'[x]) = Range(waitq[x]) \ {w} /\ waitq[x] \in Seq(Thread)
    BY <1>f, <2>1, WaitRemoved DEF RefInv, SemInv, WOK, Sem
  <2>3. Range(waitq[x]) = {}
    BY <2>2, HeadRange
  <2>4. waitq'[x] = <<>> <=> Range(waitq'[x]) = {}
    BY <2>2, HeadRange
  <2> QED BY <2>2, <2>3, <2>4
<1>4. WaitPlace'
  <2> SUFFICES ASSUME NEW x \in Sem, NEW v \in Range(waitq'[x])
               PROVE  pc'[v] \in {"sched", "blocked"} /\ err'[v] = "EOK"
    BY DEF WaitPlace, Sem
  <2>1. v \in Range(waitq[x]) /\ v \in Thread
    <3>1. v \in Range(waitq[x])
      BY <1>1
    <3>2. Range(waitq[x]) \subseteq Thread
      BY ViewFacts
    <3> QED BY <3>1, <3>2
  <2>2. v # w
    <3>1. call[v] = x
      BY <2>1, ViewFacts
    <3> QED BY <1>1, <3>1
  <2>3. pc[v] \in {"sched", "blocked"} /\ err[v] = "EOK"
    BY <2>1 DEF RefInv, WaitPlace, Sem
  <2> QED BY <1>f, <1>1, <2>1, <2>2, <2>3
<1> QED BY <1>2, <1>3, <1>4

(* rt_sem_release without a waiter is Post. *)
LEMMA GrownRefines ==
  ASSUME RefInv, NEW o \in Sem, waitq[o] = <<>>, value' = [value EXCEPT ![o] = @ + 1],
         UNCHANGED <<waitq, pc, call, stat, err, arg>>,
         Open(o), NEW s \in Sem, Open(s)' <=> Open(s)
  PROVE  Refines(s)
<1>f. /\ pc \in [Thread -> Pc] /\ call \in [Thread -> Call] /\ stat \in [Thread -> Stat]
      /\ err \in [Thread -> Err]
      /\ s \notin {"none", "sleep", "suspend"} /\ Range(waitq[s]) \subseteq Thread
      /\ value \in [Sem -> 0 .. MaxValue]
      /\ \A x \in Thread : pc[x] \in {"run"} \cup OpPc => call[x] = "none"
  BY ViewFacts DEF RefInv, SemInv, SemTypes
<1>1. \A x \in Thread : Holds(s, x)' <=> Holds(s, x)
  BY DEF Holds, Deleting
<1>2. CASE s = o
  <2>1. Granted(s)' = Granted(s) /\ Open(s)' = Open(s) /\ Open(s)
    BY <1>1, <1>2, GrantedIsHeld DEF Open
  <2>2. value'[s] = value[s] + 1 /\ Range(waitq[s]) = {} /\ waitq' = waitq
    BY <1>f, <1>2 DEF Range
  <2> QED BY <2>1, <2>2 DEF Refines, Counting!Next, Counting!Post
<1>3. CASE s # o
  <2>1. UNCHANGED <<value[s], Range(waitq[s])>>
    BY <1>f, <1>3
  <2> QED BY <1>1, <2>1, Stutters
<1> QED BY <1>2, <1>3

(* rt_sem_release by a thread. *)
LEMMA SemReleaseRefines ==
  ASSUME RefInv, NEW t \in Thread \ {Idle}, NEW o \in Sem, SemRelease(t, o), NEW s \in Sem
  PROVE  Places' /\ Refines(s)
<1>f. /\ pc \in [Thread -> Pc] /\ call \in [Thread -> Call] /\ stat \in [Thread -> Stat]
      /\ err \in [Thread -> Err]
      /\ s \notin {"none", "sleep", "suspend"} /\ Range(waitq[s]) \subseteq Thread
      /\ value \in [Sem -> 0 .. MaxValue]
      /\ \A x \in Thread : pc[x] \in {"run"} \cup OpPc => call[x] = "none"
  BY ViewFacts DEF RefInv, SemInv, SemTypes
<1>c. /\ current = t /\ due = {} /\ pc[t] = "run" /\ call[t] = "none" /\ stat[t] = "READY"
      /\ \A v \in Thread : arg[v] # t
      /\ \A x \in Sem : t \notin Range(waitq[x])
      /\ \A x \in Thread : ~Closing(x)
  BY CallerFacts DEF SemRelease
<1>1. /\ exists[o] /\ SemGive(o) /\ pc' = [pc EXCEPT ![t] = IF waitq[o] # <<>> THEN "sched" ELSE "run"]
      /\ UNCHANGED <<err, call, arg, current, due, exists>>
  BY DEF SemRelease, Goto
<1>2. (Open(s)' <=> Open(s)) /\ Open(o)
  BY <1>f, <1>c, <1>1 DEF Open, Closing
<1>3. PlaceOK' /\ ResetRuns'
  <2>1. PlaceOK'
    BY <1>f, <1>c, <1>1 DEF PlaceOK
  <2>2. ResetRuns'
    BY <1>f, <1>c, <1>1 DEF ResetRuns, Closing
  <2> QED BY <2>1, <2>2
<1>4. CASE waitq[o] # <<>>
  <2>1. Wake(Head(waitq[o])) /\ UNCHANGED value
    BY <1>1, <1>4 DEF SemGive
  <2>2. \A x \in Thread : \/ UNCHANGED <<pc[x], call[x]>>
                          \/ call[x] = "none" /\ call'[x] = "none" /\ pc[x] = "run" /\ pc'[x] = "sched"
    BY <1>f, <1>c, <1>1, <1>4
  <2>3. Refines(s)
    BY <1>1, <1>2, <1>4, <2>1, <2>2, GivenRefines
  <2>4. FreshOK' /\ GoneEmpty' /\ WaitPlace'
    BY <1>1, <1>4, <2>1, <2>2, WokenPlaces
  <2> QED BY <1>3, <2>3, <2>4 DEF Places
<1>5. CASE waitq[o] = <<>>
  <2>1. value' = [value EXCEPT ![o] = @ + 1] /\ UNCHANGED <<waitq, pc, stat>>
    BY <1>f, <1>c, <1>1, <1>5 DEF SemGive
  <2>2. Refines(s)
    BY <1>1, <1>2, <1>5, <2>1, GrownRefines
  <2>3. FreshOK' /\ GoneEmpty' /\ WaitPlace'
    BY <1>1, <2>1 DEF RefInv, FreshOK, GoneEmpty, WaitPlace
  <2> QED BY <1>3, <2>2, <2>3 DEF Places
<1> QED BY <1>4, <1>5

(* rt_sem_release by an interrupt handler. *)
LEMMA IsrSemReleaseRefines ==
  ASSUME RefInv, Guarded, NEW o \in Sem, IsrSemRelease(o), NEW s \in Sem
  PROVE  Places' /\ Refines(s)
<1>f. /\ pc \in [Thread -> Pc] /\ call \in [Thread -> Call] /\ stat \in [Thread -> Stat]
      /\ err \in [Thread -> Err]
      /\ s \notin {"none", "sleep", "suspend"} /\ Range(waitq[s]) \subseteq Thread
      /\ value \in [Sem -> 0 .. MaxValue]
      /\ \A x \in Thread : pc[x] \in {"run"} \cup OpPc => call[x] = "none"
  BY ViewFacts DEF RefInv, SemInv, SemTypes
<1>1. /\ due = {} /\ pc[current] # "reset" /\ exists[o] /\ SemGive(o)
      /\ \A x \in Thread : pc[x] \in {"flush", "flushlock"} => call[x] # o
      /\ UNCHANGED <<err, pc, call, arg, due, exists>>
      /\ IF waitq[o] # <<>> THEN DoSchedule ELSE UNCHANGED <<current, lag>>
  BY DEF IsrSemRelease, IrqEnabled, callVars
<1>c. \A x \in Thread : pc[x] # "reset"
  BY <1>1 DEF RefInv, ResetRuns
<1>2. (Open(s)' <=> Open(s)) /\ Open(o)
  BY <1>1, <1>c DEF Open
<1>3. PlaceOK' /\ ResetRuns'
  BY <1>1, <1>c DEF RefInv, PlaceOK, ResetRuns
<1>4. CASE waitq[o] # <<>>
  <2>1. Wake(Head(waitq[o])) /\ UNCHANGED value
    BY <1>1, <1>4 DEF SemGive
  <2>2. Refines(s)
    BY <1>1, <1>2, <1>4, <2>1, GivenRefines
  <2>3. FreshOK' /\ GoneEmpty' /\ WaitPlace'
    BY <1>1, <1>4, <2>1, WokenPlaces
  <2> QED BY <1>3, <2>2, <2>3 DEF Places
<1>5. CASE waitq[o] = <<>>
  <2>1. value' = [value EXCEPT ![o] = @ + 1] /\ UNCHANGED <<waitq, stat>>
    BY <1>1, <1>5 DEF SemGive
  <2>2. Refines(s)
    BY <1>1, <1>2, <1>5, <2>1, GrownRefines
  <2>3. FreshOK' /\ GoneEmpty' /\ WaitPlace'
    BY <1>1, <2>1 DEF RefInv, FreshOK, GoneEmpty, WaitPlace
  <2> QED BY <1>3, <2>2, <2>3 DEF Places
<1> QED BY <1>4, <1>5

(* The beginning of a reset and of a detach is Close. *)
LEMMA CloseRefines ==
  ASSUME RefInv, NEW t \in Thread \ {Idle}, NEW o \in Sem, SemReset(t, o) \/ SemDetach(t, o), NEW s \in Sem
  PROVE  Places' /\ Refines(s)
<1>f. /\ pc \in [Thread -> Pc] /\ call \in [Thread -> Call] /\ stat \in [Thread -> Stat]
      /\ err \in [Thread -> Err]
      /\ s \notin {"none", "sleep", "suspend"} /\ Range(waitq[s]) \subseteq Thread
      /\ value \in [Sem -> 0 .. MaxValue]
      /\ \A x \in Thread : pc[x] \in {"run"} \cup OpPc => call[x] = "none"
  BY ViewFacts DEF RefInv, SemInv, SemTypes
<1>c. /\ current = t /\ due = {} /\ pc[t] = "run" /\ call[t] = "none" /\ stat[t] = "READY"
      /\ \A v \in Thread : arg[v] # t
      /\ \A x \in Sem : t \notin Range(waitq[x])
      /\ \A x \in Thread : ~Closing(x)
  BY CallerFacts DEF SemReset, SemDetach, Detach
<1>1. /\ exists[o] /\ call' = [call EXCEPT ![t] = o]
      /\ pc' = [pc EXCEPT ![t] = "reset"] \/ pc' = [pc EXCEPT ![t] = "flush"]
      /\ UNCHANGED <<waitq, stat, err, arg, current, due, exists, value>>
  BY DEF SemReset, SemDetach, Detach, Goto, queueVars, threadVars, semVars
<1>n. pc'[t] \in {"reset", "flush"} /\ \A x \in Thread \ {t} : pc'[x] = pc[x]
  BY <1>f, <1>1
<1>2. Places'
  <2>1. FreshOK' /\ PlaceOK'
    BY <1>f, <1>c, <1>n, <1>1 DEF RefInv, FreshOK, PlaceOK, OpPc
  <2>2. ResetRuns' /\ GoneEmpty'
    BY <1>f, <1>c, <1>n, <1>1 DEF RefInv, ResetRuns, GoneEmpty, Closing
  <2>3. WaitPlace'
    BY <1>n, <1>c, <1>1, ViewFacts DEF RefInv, WaitPlace, Sem
  <2> QED BY <2>1, <2>2, <2>3 DEF Places
<1>3. \A x \in Thread : Deleting(x)' <=> Deleting(x)
  BY <1>c, <1>n, <1>1 DEF Deleting
<1>4. \A x \in Thread : Holds(s, x)' <=> Holds(s, x)
  <2>1. ~Holds(s, t) /\ ~Holds(s, t)'
    BY <1>c, <1>n DEF Holds
  <2>2. \A x \in Thread \ {t} : Holds(s, x)' <=> Holds(s, x)
    BY <1>f, <1>n, <1>1, <1>3 DEF Holds
  <2> QED BY <2>1, <2>2
<1>5. CASE s = o
  <2>1. Open(s) = TRUE
    BY <1>c, <1>1, <1>5 DEF Open, Closing, RefInv, SemInv, SemTypes
  <2>2. Open(s)' = FALSE
    BY <1>f, <1>n, <1>1, <1>5 DEF Open
  <2>3. Granted(s)' = Granted(s)
    BY <1>4, GrantedIsHeld
  <2> QED BY <1>1, <1>2, <2>1, <2>2, <2>3 DEF Refines, Counting!Next, Counting!Close
<1>6. CASE s # o
  <2>1. Open(s)' <=> Open(s)
    <3>1. \A x \in Thread \ {t} : ~Closing(x)'
      BY <1>c, <1>n DEF Closing
    <3>2. call'[t] = o
      BY <1>f, <1>1
    <3> QED BY <1>c, <1>1, <1>6, <3>1, <3>2 DEF Open, Closing
  <2>2. UNCHANGED <<value[s], Range(waitq[s])>>
    BY <1>1
  <2> QED BY <1>2, <1>4, <2>1, <2>2, Stutters
<1> QED BY <1>5, <1>6

(* A thread that closes a semaphore is the only one. *)
LEMMA CloserFacts ==
  ASSUME RefInv, NEW t \in Thread, current = t, Closing(t), due = {}
  PROVE  /\ \A x \in Thread \ {t} : ~Closing(x)
         /\ call[t] \in Sem /\ stat[t] = "READY" /\ t # Idle
         /\ \A x \in Sem : t \notin Range(waitq[x])
         /\ \A v \in Thread : arg[v] # t
<1>1. \A x \in Thread : Closing(x) => current = x
  BY DEF RefInv, SemInv, FlushOK, Flushing, ResetRuns, Closing
<1>2. call[t] \in Sem
  BY DEF RefInv, SemInv, FlushOK, Flushing, ResetOK, Closing, Sem
<1>3. stat[t] = "READY" /\ t # Idle
  BY DEF RefInv, SemInv, KernelInv, CurrentOK, IdleOK, Closing
<1> QED BY <1>1, <1>2, <1>3, RunningThread DEF RefInv, SemInv, Sem

(* The waiters woken by a reset or a flush give up. *)
LEMMA RefusalRefines ==
  ASSUME RefInv, NEW t \in Thread, SemResetWake(t) \/ (FlushWake(t) /\ UNCHANGED value), NEW s \in Sem
  PROVE  Places' /\ Refines(s)
<1>f. pc \in [Thread -> Pc] /\ call \in [Thread -> Call]
  BY ViewFacts
<1>1. /\ current = t /\ due = {} /\ Closing(t) /\ WakeWithError(call[t])
      /\ UNCHANGED <<call, arg, current, due, exists, value>>
      /\ (UNCHANGED pc /\ waitq[call[t]] # <<>>) \/ (pc[t] = "flushlock" /\ pc' = [pc EXCEPT ![t] = "flush"])
  BY DEF SemResetWake, FlushWake, At, Running, Goto, Closing, callVars, semVars
<1>c. /\ \A x \in Thread \ {t} : ~Closing(x)
      /\ call[t] \in Sem /\ stat[t] = "READY" /\ t # Idle
      /\ \A x \in Sem : t \notin Range(waitq[x])
  BY <1>1, CloserFacts
<1>w. waitq[call[t]] # <<>>
  BY <1>1 DEF RefInv, SemInv, FlushOK, Flushing
<1>o. PICK o \in Sem : o = call[t]
  BY <1>c
<1>n. \A x \in Thread : pc'[x] = pc[x] \/ (x = t /\ pc[t] = "flushlock" /\ pc'[t] = "flush")
  BY <1>f, <1>1
<1>2. Open(s)' <=> Open(s)
  BY <1>n, <1>1 DEF Open
<1>3. Refines(s)
  <2>1. \A x \in Thread : UNCHANGED call[x] /\ (pc'[x] = pc[x] \/ (Closing(x) /\ Closing(x)'))
    BY <1>n, <1>1 DEF Closing
  <2>2. WakeWithError(o) /\ waitq[o] # <<>> /\ UNCHANGED <<value, arg>>
    BY <1>o, <1>1, <1>w
  <2> QED BY <1>2, <2>1, <2>2, RefusedRefines
<1>4. FreshOK' /\ GoneEmpty' /\ WaitPlace'
  <2>1. Wake(Head(waitq[o])) /\ err' = [err EXCEPT ![Head(waitq[o])] = "ERROR"] /\ waitq[o] # <<>>
    BY <1>o, <1>1, <1>w DEF WakeWithError
  <2>2. \A x \in Thread : pc'[x] = pc[x] \/ pc[x] \notin {"sched", "blocked"}
    BY <1>n
  <2> QED BY <1>1, <2>1, <2>2, WokenPlaces
<1>5. PlaceOK' /\ ResetRuns'
  BY <1>n, <1>1 DEF RefInv, PlaceOK, ResetRuns, OpPc
<1> QED BY <1>3, <1>4, <1>5 DEF Places

(* The end of a reset is Reopen. *)
LEMMA SemResetEndRefines ==
  ASSUME RefInv, NEW t \in Thread, SemResetEnd(t), NEW s \in Sem
  PROVE  Places' /\ Refines(s)
<1>f. /\ pc \in [Thread -> Pc] /\ call \in [Thread -> Call] /\ stat \in [Thread -> Stat]
      /\ err \in [Thread -> Err]
      /\ s \notin {"none", "sleep", "suspend"} /\ Range(waitq[s]) \subseteq Thread
      /\ value \in [Sem -> 0 .. MaxValue]
      /\ \A x \in Thread : pc[x] \in {"run"} \cup OpPc => call[x] = "none"
  BY ViewFacts DEF RefInv, SemInv, SemTypes
<1>1. /\ current = t /\ due = {} /\ pc[t] = "reset" /\ waitq[call[t]] = <<>>
      /\ pc' = [pc EXCEPT ![t] = "sched"] /\ call' = [call EXCEPT ![t] = "none"]
      /\ UNCHANGED <<waitq, stat, err, arg, current, due, exists>>
  BY DEF SemResetEnd, At, Running, Goto, queueVars, threadVars
<1>v. \E v \in ResetTo : value' = [value EXCEPT ![call[t]] = v]
  BY DEF SemResetEnd
<1>c. /\ \A x \in Thread \ {t} : ~Closing(x)
      /\ call[t] \in Sem /\ exists[call[t]]
      /\ \A x \in Sem : t \notin Range(waitq[x])
      /\ \A v \in Thread : arg[v] # t
  BY <1>1, CloserFacts DEF Closing, RefInv, ResetRuns
<1>o. PICK o \in Sem : o = call[t]
  BY <1>c
<1>n. pc'[t] = "sched" /\ call'[t] = "none" /\ \A x \in Thread \ {t} : pc'[x] = pc[x] /\ call'[x] = call[x]
  BY <1>f, <1>1
<1>2. Places'
  <2>1. FreshOK' /\ PlaceOK'
    BY <1>n, <1>1 DEF RefInv, FreshOK, PlaceOK, OpPc
  <2>2. ResetRuns' /\ GoneEmpty'
    BY <1>c, <1>n, <1>1 DEF RefInv, ResetRuns, GoneEmpty, Closing
  <2>3. WaitPlace'
    BY <1>n, <1>c, <1>1, ViewFacts DEF RefInv, WaitPlace
  <2> QED BY <2>1, <2>2, <2>3 DEF Places
<1>3. \A x \in Thread : Deleting(x)' <=> Deleting(x)
  BY <1>n, <1>1 DEF Deleting
<1>4. \A x \in Thread : Holds(s, x)' <=> Holds(s, x)
  <2>1. ~Holds(s, t) /\ ~Holds(s, t)'
    BY <1>f, <1>n, <1>1 DEF Holds
  <2>2. \A x \in Thread \ {t} : Holds(s, x)' <=> Holds(s, x)
    BY <1>n, <1>1, <1>3 DEF Holds
  <2> QED BY <2>1, <2>2
<1>5. CASE s = o
  <2>1. Open(s) = FALSE
    BY <1>o, <1>1, <1>5 DEF Open
  <2>2. Open(s)' = TRUE
    <3>1. \A x \in Thread : pc'[x] \notin {"reset", "flush", "flushlock"}
      BY <1>c, <1>n DEF Closing
    <3>2. exists'[s] = TRUE
      BY <1>o, <1>c, <1>1, <1>5 DEF RefInv, SemInv, SemTypes
    <3> QED BY <3>1, <3>2 DEF Open
  <2>3. Granted(s)' = Granted(s)
    BY <1>4, GrantedIsHeld
  <2>4. value'[s] \in ResetTo \cup {InitValue[s]}
    BY <1>o, <1>f, <1>v, <1>5
  <2>5. Range(waitq[s]) = {} /\ waitq' = waitq
    BY <1>o, <1>1, <1>5 DEF Range
  <2> QED BY <1>2, <2>1, <2>2, <2>3, <2>4, <2>5 DEF Refines, Counting!Next, Counting!Reopen
<1>6. CASE s # o
  <2>1. Open(s)' <=> Open(s)
    BY <1>o, <1>c, <1>n, <1>1, <1>6 DEF Open, Closing
  <2>2. UNCHANGED <<value[s], Range(waitq[s])>>
    BY <1>o, <1>f, <1>v, <1>1, <1>6
  <2> QED BY <1>2, <1>4, <2>1, <2>2, Stutters
<1> QED BY <1>5, <1>6

(* rt_sem_init of a semaphore that was detached is Reopen. *)
LEMMA SemInitRefines ==
  ASSUME RefInv, NEW t \in Thread \ {Idle}, NEW o \in Sem, SemInit(t, o), NEW s \in Sem
  PROVE  Places' /\ Refines(s)
<1>f. /\ pc \in [Thread -> Pc] /\ call \in [Thread -> Call] /\ stat \in [Thread -> Stat]
      /\ err \in [Thread -> Err]
      /\ s \notin {"none", "sleep", "suspend"} /\ Range(waitq[s]) \subseteq Thread
      /\ value \in [Sem -> 0 .. MaxValue]
      /\ \A x \in Thread : pc[x] \in {"run"} \cup OpPc => call[x] = "none"
  BY ViewFacts DEF RefInv, SemInv, SemTypes
<1>c. /\ current = t /\ due = {} /\ pc[t] = "run" /\ call[t] = "none" /\ stat[t] = "READY"
      /\ \A v \in Thread : arg[v] # t
      /\ \A x \in Sem : t \notin Range(waitq[x])
      /\ \A x \in Thread : ~Closing(x)
  BY CallerFacts DEF SemInit, ObjectInit
<1>1. /\ ~exists[o] /\ exists' = [exists EXCEPT ![o] = TRUE] /\ value' = [value EXCEPT ![o] = InitValue[o]]
      /\ waitq' = [waitq EXCEPT ![o] = <<>>]
      /\ UNCHANGED <<pc, call, stat, err, arg, current, due>>
  BY DEF SemInit, ObjectInit, callVars, threadVars
<1>w. waitq' = waitq
  BY <1>1 DEF RefInv, GoneEmpty, SemInv, KernelInv, KernelTypeOK, Sem
<1>e. exists'[o] = TRUE /\ \A x \in Sem \ {o} : exists'[x] = exists[x]
  BY <1>1 DEF RefInv, SemInv, SemTypes
<1>2. Places'
  <2>1. FreshOK' /\ PlaceOK' /\ WaitPlace'
    BY <1>w, <1>1 DEF RefInv, FreshOK, PlaceOK, WaitPlace
  <2>2. ResetRuns' /\ GoneEmpty'
    BY <1>c, <1>w, <1>e, <1>1 DEF RefInv, ResetRuns, GoneEmpty, Closing
  <2> QED BY <2>1, <2>2 DEF Places
<1>4. \A x \in Thread : Holds(s, x)' <=> Holds(s, x)
  BY <1>w, <1>1 DEF Holds, Deleting
<1>5. CASE s = o
  <2>1. Open(s) = FALSE
    BY <1>1, <1>5 DEF Open
  <2>2. Open(s)' = TRUE
    BY <1>c, <1>e, <1>1, <1>5 DEF Open, Closing
  <2>3. Granted(s)' = Granted(s)
    BY <1>4, GrantedIsHeld
  <2>4. value'[s] \in ResetTo \cup {InitValue[s]}
    BY <1>f, <1>1, <1>5
  <2>5. Range(waitq[s]) = {} /\ Range(waitq'[s]) = {}
    BY <1>w, <1>1, <1>5 DEF Range, RefInv, GoneEmpty
  <2> QED BY <1>2, <2>1, <2>2, <2>3, <2>4, <2>5 DEF Refines, Counting!Next, Counting!Reopen
<1>6. CASE s # o
  <2>1. Open(s)' <=> Open(s)
    BY <1>e, <1>1, <1>6 DEF Open
  <2>2. UNCHANGED <<value[s], Range(waitq[s])>>
    BY <1>f, <1>w, <1>1, <1>6
  <2> QED BY <1>2, <1>4, <2>1, <2>2, Stutters
<1> QED BY <1>5, <1>6

(* The look at the list in a flush, and its end, are seen by nobody. *)
LEMMA FlushRefines ==
  ASSUME RefInv, NEW t \in Thread, FlushCheck(t) \/ FlushEnd(t), UNCHANGED value, NEW s \in Sem
  PROVE  Places' /\ Refines(s)
<1>f. /\ pc \in [Thread -> Pc] /\ call \in [Thread -> Call] /\ stat \in [Thread -> Stat]
      /\ err \in [Thread -> Err]
      /\ s \notin {"none", "sleep", "suspend"} /\ Range(waitq[s]) \subseteq Thread
      /\ value \in [Sem -> 0 .. MaxValue]
      /\ \A x \in Thread : pc[x] \in {"run"} \cup OpPc => call[x] = "none"
  BY ViewFacts DEF RefInv, SemInv, SemTypes
<1>1. /\ current = t /\ due = {} /\ pc[t] = "flush"
      /\ UNCHANGED <<waitq, stat, err, arg, current, due>>
      /\ \/ pc' = [pc EXCEPT ![t] = "flushlock"] /\ UNCHANGED <<call, exists>>
         \/ /\ pc' = [pc EXCEPT ![t] = "run"] /\ call' = [call EXCEPT ![t] = "none"]
            /\ waitq[call[t]] = <<>> /\ exists' = [exists EXCEPT ![call[t]] = FALSE]
  BY DEF FlushCheck, FlushEnd, At, Running, Goto, queueVars, threadVars
<1>c. /\ \A x \in Thread \ {t} : ~Closing(x)
      /\ call[t] \in Sem /\ stat[t] = "READY"
      /\ \A x \in Sem : t \notin Range(waitq[x])
      /\ \A v \in Thread : arg[v] # t
  BY <1>1, CloserFacts DEF Closing
<1>o. PICK o \in Sem : o = call[t]
  BY <1>c
<1>n. /\ \A x \in Thread \ {t} : pc'[x] = pc[x] /\ call'[x] = call[x]
      /\ \/ pc'[t] = "flushlock" /\ call'[t] = o /\ exists' = exists
         \/ /\ pc'[t] = "run" /\ call'[t] = "none" /\ waitq[o] = <<>>
            /\ exists'[o] = FALSE /\ \A x \in Sem \ {o} : exists'[x] = exists[x]
  BY <1>f, <1>o, <1>1 DEF RefInv, SemInv, SemTypes
<1>2. Places'
  <2>1. FreshOK'
    BY <1>n, <1>c, <1>1 DEF RefInv, FreshOK
  <2>4. PlaceOK'
    BY <1>n, <1>1 DEF RefInv, PlaceOK, OpPc
  <2>2. ResetRuns' /\ GoneEmpty'
    BY <1>c, <1>n, <1>1 DEF RefInv, ResetRuns, GoneEmpty, Closing
  <2>3. WaitPlace'
    BY <1>n, <1>c, <1>1, ViewFacts DEF RefInv, WaitPlace, Sem
  <2> QED BY <2>1, <2>2, <2>3, <2>4 DEF Places
<1>3. \A x \in Thread : Deleting(x)' <=> Deleting(x)
  BY <1>n, <1>1 DEF Deleting
<1>4. \A x \in Thread : Holds(s, x)' <=> Holds(s, x)
  <2>1. ~Holds(s, t) /\ ~Holds(s, t)'
    BY <1>n, <1>1 DEF Holds
  <2>2. \A x \in Thread \ {t} : Holds(s, x)' <=> Holds(s, x)
    BY <1>n, <1>1, <1>3 DEF Holds
  <2> QED BY <2>1, <2>2
<1>5. Open(s)' <=> Open(s)
  <2>1. CASE s = o
    <3>1. ~Open(s)
      BY <1>o, <1>1, <2>1 DEF Open
    <3>2. ~Open(s)'
      BY <1>n, <2>1 DEF Open
    <3> QED BY <3>1, <3>2
  <2>2. CASE s # o
    BY <1>o, <1>c, <1>n, <1>1, <2>2 DEF Open, Closing
  <2> QED BY <2>1, <2>2
<1> QED BY <1>1, <1>2, <1>4, <1>5, Stutters

(***************************************************************************)
(* The theorem.                                                            *)
(***************************************************************************)

LEMMA RefInitInv == Init => RefInv
<1> SUFFICES ASSUME Init PROVE RefInv
  OBVIOUS
<1>1. SemInv
  BY SemInitInv
<1>2. FreshOK /\ PlaceOK /\ ResetRuns /\ GoneEmpty
  BY DEF FreshOK, PlaceOK, ResetRuns, GoneEmpty, Init, KernelInit, Sem
<1>3. WaitPlace
  BY DEF WaitPlace, Init, KernelInit, Sem, Range
<1> QED BY <1>1, <1>2, <1>3 DEF RefInv

LEMMA InitMaps ==
  ASSUME Init, NEW s \in Sem
  PROVE  Counting(s)!Init
<1>1. value[s] = InitValue[s] /\ Range(waitq[s]) = {}
  BY DEF Init, KernelInit, Range, Sem
<1>2. Granted(s) = {}
  BY DEF Granted, Init, KernelInit
<1>3. Open(s) = TRUE
  BY DEF Open, Init, KernelInit
<1> QED BY <1>1, <1>2, <1>3 DEF Counting!Init

LEMMA StepMaps ==
  ASSUME RefInv, Guarded, [Next]_vars
  PROVE  RefInv' /\ \A s \in Sem : Refines(s)
<1>0. SemInv'
  BY SemStepInv DEF RefInv
<1>1. ASSUME [KernelNext]_kernelVars, UNCHANGED semVars PROVE Places' /\ \A s \in Sem : Refines(s)
  <2>1. \A s \in Sem : Refines(s)
    BY <1>1, KernelRefines DEF Refines
  <2>2. FreshOK' /\ PlaceOK' /\ WaitPlace'
    BY <1>1, KernelKeepsFresh, KernelKeepsCalls, KernelKeepsPlace DEF RefInv, SemInv, WaitInv
  <2>3. GoneEmpty'
    BY <1>1, KernelShrinksWaits DEF RefInv, SemInv, GoneEmpty, Sem, semVars
  <2>4. ResetRuns'
    <3> SUFFICES ASSUME NEW x \in Thread, pc'[x] = "reset"
                 PROVE  current' = x /\ due' = {} /\ exists'[call'[x]]
      BY DEF ResetRuns
    <3>1. pc[x] = "reset" /\ UNCHANGED kernelVars
      BY <1>1, KernelKeepsClosed
    <3> QED BY <1>1, <3>1 DEF RefInv, ResetRuns, kernelVars, callVars, semVars
  <2> QED BY <2>1, <2>2, <2>3, <2>4 DEF Places
<1>2. ASSUME NEW t \in Thread, InSemCall(t) PROVE Places' /\ \A s \in Sem : Refines(s)
  <2>1. call[t] \in Sem
    <3>1. CASE SemReturn(t)
      BY <3>1 DEF SemReturn
    <3>2. CASE ~SemReturn(t)
      <4>1. current = t /\ due = {} /\ Closing(t)
        BY <1>2, <3>2 DEF InSemCall, SemResetWake, SemResetEnd, FlushCheck, FlushWake, FlushEnd, At, Running, Closing
      <4> QED BY <4>1, CloserFacts
    <3> QED BY <3>1, <3>2
  <2>2. ASSUME NEW s \in Sem PROVE Places' /\ Refines(s)
    <3>1. CASE SemReturn(t)
      BY <3>1, SemReturnRefines
    <3>2. CASE SemResetWake(t) \/ (FlushWake(t) /\ UNCHANGED value)
      BY <3>2, RefusalRefines
    <3>3. CASE SemResetEnd(t)
      BY <3>3, SemResetEndRefines
    <3>4. CASE UNCHANGED value /\ (FlushCheck(t) \/ FlushEnd(t))
      BY <3>4, FlushRefines
    <3> QED BY <1>2, <3>1, <3>2, <3>3, <3>4 DEF InSemCall
  <2> QED BY <2>1, <2>2
<1>3. ASSUME NEW t \in Thread \ {Idle}, SemCall(t) PROVE Places' /\ \A s \in Sem : Refines(s)
  <2>1. PICK o \in Sem :
          \/ SemTake(t, o) \/ (\E n \in 0 .. MaxTime : SemWait(t, o, n))
          \/ SemRelease(t, o) \/ SemReset(t, o) \/ SemDetach(t, o) \/ SemInit(t, o)
    BY <1>3 DEF SemCall
  <2>2. ASSUME NEW s \in Sem PROVE Places' /\ Refines(s)
    <3>1. CASE SemTake(t, o)
      BY <3>1, SemTakeRefines
    <3>2. CASE \E n \in 0 .. MaxTime : SemWait(t, o, n)
      BY <3>2, SemWaitRefines
    <3>3. CASE SemRelease(t, o)
      BY <3>3, SemReleaseRefines
    <3>4. CASE SemReset(t, o) \/ SemDetach(t, o)
      BY <3>4, CloseRefines
    <3>5. CASE SemInit(t, o)
      BY <3>5, SemInitRefines
    <3> QED BY <2>1, <3>1, <3>2, <3>3, <3>4, <3>5
  <2> QED BY <2>2
<1>4. ASSUME NEW o \in Sem, IsrSemRelease(o) PROVE Places' /\ \A s \in Sem : Refines(s)
  BY <1>4, IsrSemReleaseRefines
<1>5. CASE UNCHANGED vars
  <2>1. UNCHANGED kernelVars /\ UNCHANGED semVars
    BY <1>5 DEF vars
  <2> QED BY <2>1, <1>0, <1>1 DEF RefInv, Places
<1>6. CASE Next
  <2>1. Places' /\ \A s \in Sem : Refines(s)
    BY <1>1, <1>2, <1>3, <1>4, <1>6 DEF Next
  <2> QED BY <2>1, <1>0 DEF RefInv, Places
<1> QED BY <1>5, <1>6

(* What the mapping needs holds in every state. *)
THEOREM RefInvariant == Guarded => (Spec => []RefInv)
<1> SUFFICES ASSUME Guarded PROVE Spec => []RefInv
  OBVIOUS
<1>1. RefInv /\ [Next]_vars => RefInv'
  BY StepMaps
<1> QED BY <1>1, RefInitInv, PTL DEF Spec

(* The calls rt_sem_take, rt_sem_release, RT_IPC_CMD_RESET, rt_sem_detach, *)
(* rt_sem_init, the timeouts, the deletion of threads and the interrupt    *)
(* handlers do to each semaphore what CountingSemaphore allows: no token   *)
(* is lost, doubled, or handed to a thread whose call gives up.            *)
THEOREM SemaphoreImplements ==
  ASSUME NEW s \in Sem
  PROVE  Guarded => (Spec => Counting(s)!Spec)
<1> SUFFICES ASSUME Guarded PROVE Spec => Counting(s)!Spec
  OBVIOUS
<1>1. Init => Counting(s)!Init
  BY InitMaps
<1>2. RefInv /\ [Next]_vars => [Counting(s)!Next]_(Counting(s)!vars)
  BY StepMaps DEF Refines
<1> QED BY <1>1, <1>2, RefInvariant, PTL DEF Spec, Counting!Spec
=============================================================================
