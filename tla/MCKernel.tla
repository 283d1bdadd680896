------------------------------ MODULE MCKernel ------------------------------
(* The kernel on its own: three application threads, the first of which    *)
(* starts the others, and the idle thread; no IPC object.                  *)
EXTENDS Kernel

CONSTANTS t1, t2, t3, idle

MCThread == {t1, t2, t3, idle}
MCStatic == {t2, idle}
MCInitPrio == (t1 :> 0) @@ (t2 :> 1) @@ (t3 :> 1) @@ (idle :> 2)
=============================================================================
