--------------------------- MODULE FifoMutexProofs ---------------------------
(***************************************************************************)
(* A first-come-first-served mutex is a mutex, and a mutex excludes.  What   *)
(* is proved of the lock types is one of the two specifications; with these *)
(* theorems it says the same of all of them.                                *)
(***************************************************************************)
EXTENDS FifoMutex, TLAPS

M == INSTANCE Mutex

HoldsTyped == holds \in [Threads -> SUBSET Locks]

(* A step of the mutex lets nobody in beside a holder.                      *)
LEMMA MutexStep ==
  ASSUME HoldsTyped, M!Exclusion, [M!Next]_holds
  PROVE  HoldsTyped' /\ M!Exclusion'
<1>1. CASE UNCHANGED holds
  BY <1>1 DEF HoldsTyped, M!Exclusion
<1>2. CASE M!Next
  <2>1. PICK t \in Threads, l \in Locks : M!Acquire(t, l) \/ M!Release(t, l)
    BY <1>2 DEF M!Next
  <2>2. CASE M!Acquire(t, l)
    <3>1. \A u \in Threads : /\ l \notin holds[u]
                             /\ holds'[u] = IF u = t THEN holds[u] \cup {l} ELSE holds[u]
      BY <2>2 DEF M!Acquire, HoldsTyped
    <3>2. HoldsTyped'
      BY <2>2 DEF M!Acquire, HoldsTyped
    <3> QED
      BY <3>1, <3>2 DEF M!Exclusion
  <2>3. CASE M!Release(t, l)
    <3>1. \A u \in Threads : holds'[u] \subseteq holds[u]
      BY <2>3 DEF M!Release, HoldsTyped
    <3>2. HoldsTyped'
      BY <2>3 DEF M!Release, HoldsTyped
    <3> QED
      BY <3>1, <3>2 DEF M!Exclusion
  <2> QED
    BY <2>1, <2>2, <2>3
<1> QED
  BY <1>1, <1>2

(* Whatever implements the mutex never lets two threads hold the same lock:  *)
(* the six lock types on one word do (txlock.c:60-282, 380-446).            *)
THEOREM MutexExcludes == M!Spec => []M!Exclusion
<1>1. M!Init => HoldsTyped /\ M!Exclusion
  BY DEF M!Init, HoldsTyped, M!Exclusion
<1>2. HoldsTyped /\ M!Exclusion /\ [M!Next]_holds => HoldsTyped' /\ M!Exclusion'
  BY MutexStep
<1> QED
  BY <1>1, <1>2, PTL DEF M!Spec

(* A queue only restricts who takes the lock: the ticket and queue locks, in  *)
(* so far as they serve in order (txlock.c:287-374, 492-671), are mutexes.  *)
THEOREM FifoIsMutex == Spec => M!Spec
<1>1. Init => M!Init
  BY DEF Init, M!Init
<1>2. [Next]_<<holds, queue>> => [M!Next]_holds
  <2> SUFFICES ASSUME [Next]_<<holds, queue>> PROVE [M!Next]_holds
    OBVIOUS
  <2>1. CASE UNCHANGED <<holds, queue>>
    BY <2>1
  <2>2. CASE Next
    <3>1. PICK t \in Threads, l \in Locks :
            Enqueue(t, l) \/ Acquire(t, l) \/ TryAcquire(t, l) \/ Release(t, l)
      BY <2>2 DEF Next
    <3>2. CASE Enqueue(t, l)
      BY <3>2 DEF Enqueue
    <3>3. CASE Acquire(t, l) \/ TryAcquire(t, l)
      BY <3>3 DEF Acquire, TryAcquire, Free, M!Acquire, M!Next
    <3>4. CASE Release(t, l)
      BY <3>4 DEF Release, M!Release, M!Next
    <3> QED
      BY <3>1, <3>2, <3>3, <3>4
  <2> QED
    BY <2>1, <2>2
<1> QED
  BY <1>1, <1>2, PTL DEF Spec, M!Spec

(* No two threads hold a lock that is served in order.                      *)
THEOREM FifoExcludes == Spec => []M!Exclusion
BY FifoIsMutex, MutexExcludes, PTL
=============================================================================
