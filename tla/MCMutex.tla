------------------------------ MODULE MCMutex ------------------------------
(* Three application threads of different priorities, the idle thread, and *)
(* one or two mutexes.                                                     *)
EXTENDS Mutex

CONSTANTS t1, t2, t3, idle, m1, m2

MCThread == {t1, t2, t3, idle}
MCInitPrio == (t1 :> 2) @@ (t2 :> 1) @@ (t3 :> 0) @@ (idle :> 3)
PrioFlag == [m \in Obj |-> "PRIO"]
FifoFlag == [m \in Obj |-> "FIFO"]
=============================================================================
