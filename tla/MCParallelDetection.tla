------------------------ MODULE MCParallelDetection ------------------------
EXTENDS ParallelDetection

(* A call that releases and then acquires: a wait, or an unlock and a lock. *)
MCCalls == {Call(TRUE, TRUE, TRUE, TRUE)}
MCUnits == {1}
=============================================================================
