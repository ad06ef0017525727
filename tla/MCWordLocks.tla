----------------------------- MODULE MCWordLocks -----------------------------
(* The lock types on one word, on small instances.                         *)
EXTENDS WordLocks

(* The locks that t uses, those that an abort would give back to it too.    *)
Used(t) == (held[t] \cup saved[t].held \cup {lk[t], saved[t].lk}) \ {Null}

Third == CHOOSE t \in Threads : TRUE

(* The programs of the run: all threads compete for lock 1 while nobody     *)
(* uses another lock, and the others nest all the locks while the third      *)
(* thread rests.  Only a call of the program can break this.               *)
SmallProgram == Used(Third) = {} \/ \A t \in Threads : Used(t) \subseteq {1}
=============================================================================
