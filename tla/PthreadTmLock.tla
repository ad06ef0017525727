---------------------------- MODULE PthreadTmLock ----------------------------
(***************************************************************************)
(* The lock type "pthread_tm": a libpthread mutex with prefetching          *)
(* (pthread_lock_tm, pthread_trylock_tm, pthread_unlock_tm).  A thread that *)
(* finds the mutex taken speculates instead of sleeping, and sleeps when it *)
(* is out of tries.                                                        *)
(***************************************************************************)
EXTENDS PthreadMutex, Htm

PthreadTmLabels == {"lock", "enter", "abort", "sleep", "try"}

pthread_lock_tm(t, l) ==
  MayLock(t, l) /\ CallUnlessElided(t, l, "lock") /\ UNCHANGED val

PthreadTmTake(t) ==
  /\ pc[t] = "lock"
  /\ \/ MutexLock(lk[t]) /\ Acquired(t)
     \/ MutexBusy(lk[t]) /\ Goto(t, "enter")
  /\ UNCHANGED htmVars

PthreadTmSpeculate(t) ==
  pc[t] = "enter" /\ EnterHtm(t, lk[t], Acquired(t)) /\ UNCHANGED val

PthreadTmFailed(t) ==
  /\ EnterHtmFailed(t, IF OutOfTries(t) THEN "sleep" ELSE "lock")
  /\ CountTry(t)
  /\ UNCHANGED val

PthreadTmSleep(t) ==
  pc[t] = "sleep" /\ MutexLock(lk[t]) /\ Acquired(t) /\ UNCHANGED htmVars

pthread_trylock_tm(t, l) ==
  MayTrylock(t, l) /\ CallUnlessElided(t, l, "try") /\ UNCHANGED val

PthreadTmTry(t) ==
  /\ pc[t] = "try"
  /\ \/ MutexLock(lk[t]) /\ Acquired(t)
     \/ MutexBusy(lk[t]) /\ Refused(t)
  /\ UNCHANGED htmVars

pthread_unlock_tm(t, l) ==
  /\ MayUnlock(t, l)
  /\ \/ Elided(t, held[t] \ {l}) /\ UNCHANGED val
     \/ /\ spec_entry[t] = Null
        /\ MutexUnlock(l)
        /\ CallReturning(t, held[t] \ {l})
        /\ UNCHANGED htmVars

PthreadTmCall(t, l) ==
  pthread_lock_tm(t, l) \/ pthread_trylock_tm(t, l) \/ pthread_unlock_tm(t, l)

PthreadTmStep(t) ==
  \/ PthreadTmTake(t)
  \/ PthreadTmSpeculate(t)
  \/ PthreadTmFailed(t)
  \/ PthreadTmSleep(t)
  \/ PthreadTmTry(t)
=============================================================================
