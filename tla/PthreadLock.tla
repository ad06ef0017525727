----------------------------- MODULE PthreadLock -----------------------------
(***************************************************************************)
(* The lock type "pthread": pthread_lock, pthread_trylock, pthread_unlock   *)
(* pass the call on to libpthread.                                         *)
(***************************************************************************)
EXTENDS PthreadMutex

PthreadLabels == {"lock", "try"}

pthread_lock(t, l) == MayLock(t, l) /\ Call(t, l, "lock") /\ UNCHANGED val

PthreadSleep(t) == pc[t] = "lock" /\ MutexLock(lk[t]) /\ Acquired(t)

pthread_trylock(t, l) == MayTrylock(t, l) /\ Call(t, l, "try") /\ UNCHANGED val

PthreadTry(t) ==
  /\ pc[t] = "try"
  /\ \/ MutexLock(lk[t]) /\ Acquired(t)
     \/ MutexBusy(lk[t]) /\ Refused(t)

pthread_unlock(t, l) ==
  MayUnlock(t, l) /\ MutexUnlock(l) /\ CallReturning(t, held[t] \ {l})

PthreadCall(t, l) == pthread_lock(t, l) \/ pthread_trylock(t, l) \/ pthread_unlock(t, l)

PthreadStep(t) == PthreadSleep(t) \/ PthreadTry(t)
=============================================================================
