------------------------------ MODULE MCMempool ------------------------------
(* Three application threads of two priorities, the idle thread, and a     *)
(* memory pool of two blocks.                                              *)
EXTENDS Mempool

CONSTANTS t1, t2, t3, idle, p1, b1, b2

MCThread == {t1, t2, t3, idle}
MCInitPrio == (t1 :> 1) @@ (t2 :> 0) @@ (t3 :> 1) @@ (idle :> 2)
=============================================================================
