----------------------------- MODULE MCMcsLocks -----------------------------
(* The queue locks on small instances.                                     *)
EXTENDS McsLocks

(* The locks that t uses, those that an abort would give back to it too.    *)
Used(t) == (held[t] \cup saved[t].held \cup {lk[t], saved[t].lk}) \ {Null}

(* t has called the library, and has its nodes since then.                 *)
Called(t) == free[t] # <<>> \/ used[t] # <<>>

First == CHOOSE t \in Threads : TRUE

Second == CHOOSE t \in Threads \ {First} : TRUE

(* The programs of the run.  If the first thread is the first to call, all   *)
(* threads compete for lock 1; else it never calls, the lock is mcs, the     *)
(* second thread uses one lock at a time, and the others nest all of them.   *)
(* Only a call of the program can break this.                              *)
SmallProgram ==
  IF Called(First)'
    THEN /\ Called(First) \/ \A t \in Threads : ~Called(t)
         /\ \A t \in Threads : Used(t)' \subseteq {1}
    ELSE ~tm /\ Cardinality(Used(Second)') <= 1
=============================================================================
