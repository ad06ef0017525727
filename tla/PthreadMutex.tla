---------------------------- MODULE PthreadMutex ----------------------------
(***************************************************************************)
(* The mutex of libpthread, external: txlock finds its three functions with *)
(* dlsym (setup_pthread_funcs) and calls them from the lock types "pthread" *)
(* and "pthread_tm".  Each call takes effect in one step.                   *)
(***************************************************************************)
EXTENDS LockWord

(* pthread_mutex_lock, or a pthread_mutex_trylock that succeeds: a thread  *)
(* that calls the former on a taken mutex sleeps until it is free.         *)
MutexLock(l) == val[l] = 0 /\ val' = [val EXCEPT ![l] = 1]

(* pthread_mutex_trylock on a taken mutex.                                 *)
MutexBusy(l) == val[l] = 1 /\ UNCHANGED val

MutexUnlock(l) == val' = [val EXCEPT ![l] = 0]
=============================================================================
