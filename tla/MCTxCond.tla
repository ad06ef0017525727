------------------------------ MODULE MCTxCond ------------------------------
(* The txcond condition variable on small instances.                       *)
EXTENDS TxCond
=============================================================================
