-------------------------------- MODULE Mutex --------------------------------
(***************************************************************************)
(* What every lock type promises, whatever it does inside: a lock is taken  *)
(* by a thread only while no thread holds it, and is given back only by a   *)
(* thread that holds it.  Speculation, retries and lock words are invisible *)
(* at this level.                                                          *)
(***************************************************************************)
CONSTANTS Threads, Locks

VARIABLE holds   \* holds[t]: the locks that t really holds

Init == holds = [t \in Threads |-> {}]

Acquire(t, l) ==
  /\ \A u \in Threads : l \notin holds[u]
  /\ holds' = [holds EXCEPT ![t] = @ \cup {l}]

Release(t, l) ==
  /\ l \in holds[t]
  /\ holds' = [holds EXCEPT ![t] = @ \ {l}]

Next == \E t \in Threads, l \in Locks : Acquire(t, l) \/ Release(t, l)

Spec == Init /\ [][Next]_holds

(* Two threads never hold the same lock.                                   *)
Exclusion == \A t, u \in Threads : t # u => holds[t] \cap holds[u] = {}
=============================================================================
