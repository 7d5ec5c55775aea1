------------------------ MODULE MCReconcileScheduler -------------------------
(* A small instance of ReconcileScheduler. *)
EXTENDS ReconcileScheduler

CONSTANTS c1, c2, h1, h2, h3, s1, s2

MCCard == [h \in Withdrawals |-> IF h = h1 THEN c1 ELSE c2]
===============================================================================
