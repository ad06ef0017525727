------------------------------ MODULE LockWord ------------------------------
(***************************************************************************)
(* One word per lock that says whether the lock is taken.                   *)
(***************************************************************************)
EXTENDS LockClient

VARIABLE val   \* val[l]: 0 when lock l is free and 1 when it is taken

WordInit == val = [l \in Locks |-> 0]

WordTypeOK == val \in [Locks -> {0, 1}]
=============================================================================
