------------------------------- MODULE TasWord -------------------------------
(***************************************************************************)
(* The word of the test-and-set locks is the field val of struct            *)
(* _tas_lock_t.  The operation they all use on it is tatas, a test followed, *)
(* when it read 0, by an atomic exchange.  The test and the exchange are    *)
(* two steps: another thread may take the lock between them, and the        *)
(* exchange then fails.                                                    *)
(***************************************************************************)
EXTENDS LockWord

(* Mutant of Tatas: an atomic increment instead of the exchange.           *)
TatasCounting(t, read, swap, Won, Busy) ==
  \/ pc[t] = read /\ val[lk[t]] = 0 /\ Goto(t, swap) /\ UNCHANGED val
  \/ pc[t] = read /\ val[lk[t]] # 0 /\ Busy /\ UNCHANGED val
  \/ /\ pc[t] = swap
     /\ val' = [val EXCEPT ![lk[t]] = @ + 1]
     /\ \/ val[lk[t]] = 0 /\ Won
        \/ val[lk[t]] # 0 /\ Busy

(* Mutant of Tatas: a plain store instead of the exchange.                 *)
TatasStore(t, read, swap, Won, Busy) ==
  \/ pc[t] = read /\ val[lk[t]] = 0 /\ Goto(t, swap) /\ UNCHANGED val
  \/ pc[t] = read /\ val[lk[t]] # 0 /\ Busy /\ UNCHANGED val
  \/ pc[t] = swap /\ val' = [val EXCEPT ![lk[t]] = 1] /\ Won

(***************************************************************************)
(* tatas(&l->val, 1) in thread t: the test is at label read, the exchange  *)
(* at label swap.  Won is what the caller does when tatas returned 0, Busy  *)
(* what it does when either step saw a taken lock (an exchange that fails   *)
(* writes 1 over 1).                                                       *)
(***************************************************************************)
Tatas(t, read, swap, Won, Busy) ==
  \/ pc[t] = read /\ val[lk[t]] = 0 /\ Goto(t, swap) /\ UNCHANGED val
  \/ pc[t] = swap /\ val[lk[t]] = 0 /\ val' = [val EXCEPT ![lk[t]] = 1] /\ Won
  \/ pc[t] \in {read, swap} /\ val[lk[t]] # 0 /\ Busy /\ UNCHANGED val

(* Mutant of ReleaseWord: the word is not written back.                    *)
ReleaseNothing(l) == UNCHANGED val

(* __sync_lock_release(&l->val)                                            *)
ReleaseWord(l) == val' = [val EXCEPT ![l] = 0]
=============================================================================
