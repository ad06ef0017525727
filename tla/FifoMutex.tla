------------------------------ MODULE FifoMutex ------------------------------
(***************************************************************************)
(* What the ticket locks promise on top of Mutex: a thread that waits for a *)
(* lock has a place in that lock's queue, and the lock goes to the head of  *)
(* the queue.  A thread may also take a lock without waiting, but only when *)
(* nobody holds it and nobody waits for it.                                *)
(***************************************************************************)
EXTENDS Sequences

CONSTANTS Threads, Locks

VARIABLES holds,   \* holds[t]: the locks that t really holds
          queue    \* queue[l]: the threads waiting for l, first come first

Free(l) == \A u \in Threads : l \notin holds[u]

Init ==
  /\ holds = [t \in Threads |-> {}]
  /\ queue = [l \in Locks |-> <<>>]

Enqueue(t, l) ==
  /\ queue' = [queue EXCEPT ![l] = Append(@, t)]
  /\ UNCHANGED holds

Acquire(t, l) ==
  /\ Free(l) /\ queue[l] # <<>> /\ Head(queue[l]) = t
  /\ holds' = [holds EXCEPT ![t] = @ \cup {l}]
  /\ queue' = [queue EXCEPT ![l] = Tail(@)]

TryAcquire(t, l) ==
  /\ Free(l) /\ queue[l] = <<>>
  /\ holds' = [holds EXCEPT ![t] = @ \cup {l}]
  /\ UNCHANGED queue

Release(t, l) ==
  /\ l \in holds[t]
  /\ holds' = [holds EXCEPT ![t] = @ \ {l}]
  /\ UNCHANGED queue

Next ==
  \E t \in Threads, l \in Locks :
    Enqueue(t, l) \/ Acquire(t, l) \/ TryAcquire(t, l) \/ Release(t, l)

Spec == Init /\ [][Next]_<<holds, queue>>
=============================================================================
