----------------------------- MODULE LockClient -----------------------------
(***************************************************************************)
(* The program that calls txlock: threads that take and give back locks    *)
(* through tl_lock, tl_trylock and tl_unlock (txlock.c, lines 41-43), which *)
(* jump to the functions of the lock type in use.  Every lock module        *)
(* extends this one and gives those three entry points their bodies.       *)
(*                                                                         *)
(* A thread runs its own code at pc "client".  A call sets pc to the first  *)
(* label of the function called and lk to its argument; a return puts both *)
(* back.  held is what the thread BELIEVES it holds: on a speculating      *)
(* thread the belief is part of what an abort undoes.                      *)
(***************************************************************************)
EXTENDS Naturals

CONSTANTS Threads,  \* the threads of the program
          Locks     \* the locks, in the order in which the program nests them

ASSUME LocksAssumption == Locks \subseteq Nat \ {0}

(* The C null pointer, never the address of a lock.                        *)
Null == 0

VARIABLES pc,    \* pc[t]: label of the code that thread t runs next
          lk,    \* lk[t]: the lock given to the call in progress, or Null
          held   \* held[t]: the locks that the code of t takes itself to hold

clientVars == <<pc, lk, held>>

ClientInit ==
  /\ pc = [t \in Threads |-> "client"]
  /\ lk = [t \in Threads |-> Null]
  /\ held = [t \in Threads |-> {}]

ClientTypeOK(labels) ==
  /\ pc \in [Threads -> labels \cup {"client"}]
  /\ lk \in [Threads -> Locks \cup {Null}]
  /\ held \in [Threads -> SUBSET Locks]

(* The program's own discipline: blocking calls go up the order of Locks,  *)
(* so that it cannot deadlock by itself; a try-lock may go in any order.   *)
MayLock(t, l) == pc[t] = "client" /\ \A k \in held[t] : k < l

MayTrylock(t, l) == pc[t] = "client" /\ l \notin held[t]

MayUnlock(t, l) == pc[t] = "client" /\ l \in held[t]

Call(t, l, entry) ==
  /\ pc' = [pc EXCEPT ![t] = entry]
  /\ lk' = [lk EXCEPT ![t] = l]
  /\ UNCHANGED held

Goto(t, label) ==
  /\ pc' = [pc EXCEPT ![t] = label]
  /\ UNCHANGED <<lk, held>>

(* The call in progress ends and leaves t holding locks.                   *)
Return(t, locks) ==
  /\ pc' = [pc EXCEPT ![t] = "client"]
  /\ lk' = [lk EXCEPT ![t] = Null]
  /\ held' = [held EXCEPT ![t] = locks]

(* The call in progress, a lock or a try-lock, returns 0.                  *)
Acquired(t) == Return(t, held[t] \cup {lk[t]})

(* The call in progress, a try-lock, returns that the lock is taken.       *)
Refused(t) == Return(t, held[t])

(* A call that starts and ends in one step.                                *)
CallReturning(t, locks) ==
  /\ held' = [held EXCEPT ![t] = locks]
  /\ UNCHANGED <<pc, lk>>
=============================================================================
