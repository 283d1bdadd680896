-------------------------- MODULE MCSemaphoreLive --------------------------
(* Two application threads of one priority, the idle thread, and one FIFO  *)
(* semaphore that threads and an interrupt handler release.                *)
EXTENDS Semaphore

CONSTANTS t1, t2, idle, s1

MCThread == {t1, t2, idle}
MCInitPrio == (t1 :> 0) @@ (t2 :> 0) @@ (idle :> 1)
MCSemFlag == s1 :> "FIFO"
MCInitValue == s1 :> 1
=============================================================================
