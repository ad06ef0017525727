--------------------------- MODULE MCPthreadCond ---------------------------
(* The futex condition variable on a small instance.                       *)
EXTENDS PthreadCond
=============================================================================
