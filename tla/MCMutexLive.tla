---------------------------- MODULE MCMutexLive ----------------------------
(* Two application threads of different priorities, the idle thread, and   *)
(* one FIFO mutex.                                                         *)
EXTENDS Mutex

CONSTANTS t1, t2, idle, m1

MCThread == {t1, t2, idle}
MCInitPrio == (t1 :> 1) @@ (t2 :> 0) @@ (idle :> 2)
MCMutexFlag == m1 :> "FIFO"
=============================================================================
