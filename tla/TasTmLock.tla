------------------------------ MODULE TasTmLock ------------------------------
(***************************************************************************)
(* The lock type "tas_tm": a test-and-set lock with prefetching             *)
(* (tas_lock_tm, tas_trylock_tm, tas_unlock_tm).  A thread that finds the   *)
(* lock taken runs the critical section anyway, inside a transaction that   *)
(* nothing ever commits; its own lock calls are elided while spec_entry is  *)
(* set.  The transaction aborts sooner or later and the thread tries again. *)
(***************************************************************************)
EXTENDS TasWord, Htm

TasTmLabels ==
  {"lock", "lock_swap", "enter", "abort", "spin", "spin_swap", "try", "try_swap"}

tas_lock_tm(t, l) ==
  MayLock(t, l) /\ CallUnlessElided(t, l, "lock") /\ UNCHANGED val

(* The test of the loop of tas_lock_tm: a taken lock is speculated on.     *)
TasTmTake(t) ==
  /\ Tatas(t, "lock", "lock_swap", Acquired(t), Goto(t, "enter"))
  /\ UNCHANGED htmVars

TasTmSpeculate(t) ==
  pc[t] = "enter" /\ EnterHtm(t, lk[t], Acquired(t)) /\ UNCHANGED val

TasTmFailed(t) ==
  /\ EnterHtmFailed(t, IF OutOfTries(t) THEN "spin" ELSE "lock")
  /\ CountTry(t)
  /\ UNCHANGED val

(* Out of tries: it falls back to the plain test-and-set loop.             *)
TasTmSpin(t) ==
  /\ Tatas(t, "spin", "spin_swap", Acquired(t), Goto(t, "spin"))
  /\ UNCHANGED htmVars

tas_trylock_tm(t, l) ==
  MayTrylock(t, l) /\ CallUnlessElided(t, l, "try") /\ UNCHANGED val

TasTmTry(t) ==
  Tatas(t, "try", "try_swap", Acquired(t), Refused(t)) /\ UNCHANGED htmVars

(* Mutant of tas_unlock_tm: the test of spec_entry is left out of it.      *)
UnlockInSpeculation(t, l) ==
  MayUnlock(t, l) /\ ReleaseWord(l) /\ CallReturning(t, held[t] \ {l}) /\ UNCHANGED htmVars

tas_unlock_tm(t, l) ==
  /\ MayUnlock(t, l)
  /\ \/ Elided(t, held[t] \ {l}) /\ UNCHANGED val
     \/ /\ spec_entry[t] = Null
        /\ ReleaseWord(l)
        /\ CallReturning(t, held[t] \ {l})
        /\ UNCHANGED htmVars

TasTmCall(t, l) == tas_lock_tm(t, l) \/ tas_trylock_tm(t, l) \/ tas_unlock_tm(t, l)

TasTmStep(t) ==
  TasTmTake(t) \/ TasTmSpeculate(t) \/ TasTmFailed(t) \/ TasTmSpin(t) \/ TasTmTry(t)
=============================================================================
