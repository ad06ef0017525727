----------------------------- MODULE WordLocks -----------------------------
(***************************************************************************)
(* The library as a program meets it: init_lib_txlock chooses one lock type *)
(* from the environment when the library is loaded, and tl_lock, tl_trylock *)
(* and tl_unlock dispatch to it until the process ends.  This module puts   *)
(* together the lock types whose state is one word per lock.               *)
(***************************************************************************)
EXTENDS TasLock, TasTmLock, TasPriorityLock, PthreadLock, PthreadTmLock, HleLock, Integers

VARIABLE using   \* using_lock_type, by its name

vars == <<using, pc, lk, held, val, ready, htmVars>>

LockTypes == {"pthread", "pthread_tm", "tas", "tas_tm", "tas_priority_tm", "tas_hle"}

(* The lock type for the value of LIBTXLOCK_LOCK: "tas" when the variable   *)
(* is not set or names no lock type.                                       *)
Selected(name) == IF name \in LockTypes THEN name ELSE "tas"

Init ==
  /\ using \in {Selected(name) : name \in LockTypes \cup {"unknown"}}
  /\ ClientInit
  /\ WordInit
  /\ HtmInit
  /\ PriorityInit

(* The program calls tl_lock, tl_trylock or tl_unlock.                     *)
ClientCall(t, l) ==
  /\ UNCHANGED using
  /\ \/ using = "pthread" /\ PthreadCall(t, l) /\ UNCHANGED <<ready, htmVars>>
     \/ using = "tas" /\ TasCall(t, l) /\ UNCHANGED <<ready, htmVars>>
     \/ using = "pthread_tm" /\ PthreadTmCall(t, l) /\ UNCHANGED ready
     \/ using = "tas_tm" /\ TasTmCall(t, l) /\ UNCHANGED ready
     \/ using = "tas_priority_tm" /\ PriorityCall(t, l)
     \/ using = "tas_hle" /\ HleCall(t, l) /\ UNCHANGED ready

(* What a thread does inside the function that it has called.              *)
Step(t) ==
  /\ UNCHANGED using
  /\ \/ using = "pthread" /\ PthreadStep(t) /\ UNCHANGED <<ready, htmVars>>
     \/ using = "tas" /\ TasStep(t) /\ UNCHANGED <<ready, htmVars>>
     \/ using = "pthread_tm" /\ PthreadTmStep(t) /\ UNCHANGED ready
     \/ using = "tas_tm" /\ TasTmStep(t) /\ UNCHANGED ready
     \/ using = "tas_priority_tm" /\ PriorityStep(t)
     \/ using = "tas_hle" /\ HleStep(t) /\ UNCHANGED ready

TxAbort(t) == Abort(t) /\ UNCHANGED <<using, val, ready>>

Next ==
  \E t \in Threads :
    \/ Step(t)
    \/ TxAbort(t)
    \/ \E l \in Locks : ClientCall(t, l)

Spec == Init /\ [][Next]_vars

(* A thread inside a lock function keeps running, and a transaction that    *)
(* nobody commits aborts at the latest at an interrupt.                    *)
FairSpec == Spec /\ \A t \in Threads : WF_vars(Step(t)) /\ WF_vars(TxAbort(t))
-----------------------------------------------------------------------------
(* The labels of the functions of each lock type.                          *)
Labels ==
  [pthread |-> PthreadLabels, pthread_tm |-> PthreadTmLabels, tas |-> TasLabels,
   tas_tm |-> TasTmLabels, tas_priority_tm |-> PriorityLabels, tas_hle |-> HleLabels]

(* Every variable is of its type, and a thread is at a label of the lock    *)
(* type in use.                                                            *)
TypeOK ==
  /\ using \in LockTypes
  /\ ClientTypeOK(Labels[using])
  /\ WordTypeOK
  /\ HtmTypeOK
  /\ ready \in [Locks -> Int]

(* The word of a lock is 1 exactly while one thread really holds it, under  *)
(* every lock type.  A speculating thread holds what it held when its       *)
(* transaction began, so an elided unlock must not free the word of         *)
(* somebody else, an aborted call must not keep it, and the unlock of an    *)
(* elided lock must not write its word (txlock.c:140, 186).                *)
WordHasOneOwner ==
  \A l \in Locks :
    /\ val[l] = 1 <=> \E t \in Threads : l \in Owned(t)
    /\ \A t, u \in Threads : l \in Owned(t) \cap Owned(u) => t = u

(* Calls are elided (txlock.c:156, 200, 405) only by a thread whose          *)
(* transaction undoes what it then does with locks it did not take.        *)
FlagMatchesHardware ==
  using # "tas_hle" =>
    \A t \in Threads : pc[t] = "client" => (spec_entry[t] # Null <=> InTx(t))

(* While a transaction of tas_hle can still commit, every lock it elides is *)
(* free: its critical sections never commit in the middle of a real         *)
(* holder's, because the word read at txlock.c:126 stays in the read set.   *)
ElidedLocksAreFree ==
  using = "tas_hle" =>
    \A t \in Threads :
      InTx(t) /\ ~doomed[t] /\ pc[t] # "wait" => \A l \in Elides(t) : val[l] = 0

(* A commit leaves the thread with exactly the locks it held before its     *)
(* transaction, each level of the transaction being ended by the unlock of  *)
(* the lock that began it (tas_unlock_hle, txlock.c:141-142).              *)
CommitRestoresHeld ==
  [][\A t \in Threads :
       InTx(t) /\ ~InTx(t)' /\ pc'[t] # "abort" => held'[t] = saved[t].held]_vars

(* The field ready counts the promoted threads, and so returns to 0: a lock *)
(* is not left closed to the threads that read the count (txlock.c:223-225, *)
(* 210).                                                                   *)
ReadyCountsPromoted ==
  using = "tas_priority_tm" => \A l \in Locks : ready[l] = Cardinality(Promoted(l))

(* An unlock unlocks: a word that is 1 belongs to a thread that will give   *)
(* it back, so that the lock can be taken again.                           *)
NoWordLeftTaken == \A l \in Locks : val[l] = 1 => \E t \in Threads : l \in Owned(t)

(* Every lock type implements the abstract mutex for the locks really held. *)
M == INSTANCE Mutex WITH holds <- [t \in Threads |-> Owned(t)]

MutexSpec == M!Spec

(* A call of tl_lock outside transactions is not lost in retries: unless     *)
(* somebody comes to hold the lock for real, it is followed by a commit or  *)
(* by a real return.                                                       *)
CallGetsThrough ==
  \A t \in Threads, l \in Locks :
    lk[t] = l /\ ~InTx(t)
      ~> \/ lk[t] = Null /\ ~InTx(t)
         \/ \E u \in Threads : l \in Owned(u)
-----------------------------------------------------------------------------
(***************************************************************************)
(* The inductive invariant: what makes the properties above survive a step.  *)
(***************************************************************************)

(* Under every type but tas_hle, a transaction is one that will be undone:   *)
(* it runs only the program's code, with spec_entry set, and its abort       *)
(* comes back to a call that waits for a lock.                             *)
FlagBook(t) ==
  /\ InTx(t) => spec_entry[t] # Null /\ pc[t] = "client" /\ saved[t].lk \in Locks
  /\ spec_entry[t] # Null => InTx(t) \/ pc[t] = "abort"

(* Under tas_hle, a transaction has one level for each lock that it elides,  *)
(* and the locks it elides come after those that were really taken before.  *)
ElisionBook(t) ==
  /\ spec_entry[t] = Null
  /\ pc[t] # "client" => \A k \in held[t] : k < lk[t]
  /\ pc[t] \in {"check", "wait"} => InTx(t)
  /\ InTx(t) =>
       /\ pc[t] \in {"client", "enter", "check", "wait"}
       /\ saved[t].lk \in Locks
       /\ \A k \in saved[t].held : k < saved[t].lk
       /\ saved[t].held \subseteq held[t]
       /\ \A k \in saved[t].held, j \in Elides(t) : k < j
       /\ IsFiniteSet(Elides(t))
       /\ depth[t] = Cardinality(Elides(t)) + (IF pc[t] \in {"check", "wait"} THEN 1 ELSE 0)

Book(t) ==
  /\ pc[t] # "client" => lk[t] \in Locks
  /\ using \in {"pthread", "tas"} => ~InTx(t)
  /\ using # "tas_hle" => FlagBook(t)
  /\ using = "tas_hle" => ElisionBook(t)

(* What tas_hle asks of the program.                                       *)
NestsIfElided == using = "tas_hle" => Nested

IInv ==
  /\ TypeOK
  /\ NestsIfElided
  /\ \A t \in Threads : Book(t)
  /\ WordHasOneOwner

(* A transaction of tas_hle that can still commit watches the word of every  *)
(* lock that it elides, waiting or not.                                    *)
ElisionsAreWatched ==
  using = "tas_hle" =>
    \A t \in Threads :
      InTx(t) /\ ~doomed[t] => \A l \in Elides(t) : l \in watch[t] /\ val[l] = 0
=============================================================================
