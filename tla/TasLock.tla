------------------------------- MODULE TasLock -------------------------------
(***************************************************************************)
(* The lock type "tas", the default one: tas_lock, tas_trylock, tas_unlock. *)
(***************************************************************************)
EXTENDS TasWord

TasLabels == {"lock", "lock_swap", "try", "try_swap"}

tas_lock(t, l) == MayLock(t, l) /\ Call(t, l, "lock") /\ UNCHANGED val

(* tatas, again and again until it returns 0.                              *)
TasSpin(t) == Tatas(t, "lock", "lock_swap", Acquired(t), Goto(t, "lock"))

tas_trylock(t, l) == MayTrylock(t, l) /\ Call(t, l, "try") /\ UNCHANGED val

(* tatas once; 1 is returned when the lock is taken.                       *)
TasTry(t) == Tatas(t, "try", "try_swap", Acquired(t), Refused(t))

tas_unlock(t, l) ==
  MayUnlock(t, l) /\ ReleaseWord(l) /\ CallReturning(t, held[t] \ {l})

TasCall(t, l) == tas_lock(t, l) \/ tas_trylock(t, l) \/ tas_unlock(t, l)

TasStep(t) == TasSpin(t) \/ TasTry(t)
=============================================================================
