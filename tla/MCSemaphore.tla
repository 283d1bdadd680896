---------------------------- MODULE MCSemaphore ----------------------------
(* Three application threads of two priorities, the idle thread, and one   *)
(* semaphore whose waiters are queued by priority.                         *)
EXTENDS Semaphore

CONSTANTS t1, t2, t3, idle, s1

MCThread == {t1, t2, t3, idle}
MCInitPrio == (t1 :> 0) @@ (t2 :> 1) @@ (t3 :> 1) @@ (idle :> 2)
MCSemFlag == s1 :> "PRIO"
MCInitValue == s1 :> 1

(* t2 and t3 differ in nothing. *)
MCSymmetry == Permutations({t2, t3})

(* bound: only t1 locks the scheduler, and with it deletes and detaches,   *)
(* and only t1 sleeps.                                                     *)
MCNext ==
  \/ /\ KernelNext /\ UNCHANGED semVars
     /\ nest' > nest => current = t1
     /\ \A t \in {t2, t3} : call'[t] # "sleep"
  \/ \E t \in Thread : InSemCall(t)
  \/ \E t \in Thread \ {Idle} : SemCall(t)

MCSpec == Init /\ [][MCNext]_vars

(* rt_sem_take, rt_sem_release, timeouts, resets, detached semaphores and  *)
(* deleted threads together implement the abstract counting semaphore:     *)
(* every token is handed to one thread, none is lost or made up.           *)
SemaphorePromise ==
  Counting(s1)!Init /\ [][Counting(s1)!Next]_(Counting(s1)!vars)
=============================================================================
