--------------------------- MODULE TasPriorityLock ---------------------------
(***************************************************************************)
(* The lock type "tas_priority_tm" (tas_priority_lock_tm,                   *)
(* tas_priority_trylock_tm, tas_priority_unlock_tm).  A thread whose        *)
(* speculation failed is promoted: it is counted in the field ready, and a  *)
(* thread that reads a count other than 0 does not try to take the lock.    *)
(***************************************************************************)
EXTENDS TasWord, Htm, FiniteSets

VARIABLE ready   \* ready[l]: the field ready of lock l

PriorityLabels ==
  {"read", "test", "swap", "enter", "abort", "promote", "prio", "prio_swap", "demote",
   "try", "try_test", "try_swap"}

PriorityInit == ready = [l \in Locks |-> 0]

tas_priority_lock_tm(t, l) ==
  MayLock(t, l) /\ CallUnlessElided(t, l, "read") /\ UNCHANGED <<val, ready>>

Window == MaxDistance - MinDistance

(* copy.all = lk->all: what the thread does next depends on this copy of    *)
(* ready, however old it is by then.                                       *)
PriorityRead(t) ==
  /\ pc[t] = "read"
  /\ Goto(t, CASE ready[lk[t]] = 0 -> "test"
               [] ready[lk[t]] \in 1 .. Window - 1 -> "enter"
               [] OTHER -> "read")
  /\ UNCHANGED <<val, ready, htmVars>>

(* The copy was 0: the lock is tried, then speculated on when the window    *)
(* is not empty.                                                           *)
PriorityTake(t) ==
  /\ Tatas(t, "test", "swap", Acquired(t), Goto(t, IF Window > 0 THEN "enter" ELSE "read"))
  /\ UNCHANGED <<ready, htmVars>>

PrioritySpeculate(t) ==
  pc[t] = "enter" /\ EnterHtm(t, lk[t], Acquired(t)) /\ UNCHANGED <<val, ready>>

PriorityFailed(t) == EnterHtmFailed(t, "promote") /\ UNCHANGED <<val, ready, tries>>

Promote(t) ==
  /\ pc[t] = "promote"
  /\ ready' = [ready EXCEPT ![lk[t]] = @ + 1]
  /\ Goto(t, "prio")
  /\ UNCHANGED <<val, htmVars>>

(* The promoted thread has the lock, and has still to leave the count.     *)
PrioAcquired(t) ==
  /\ pc' = [pc EXCEPT ![t] = "demote"]
  /\ held' = [held EXCEPT ![t] = @ \cup {lk[t]}]
  /\ UNCHANGED lk

PriorityWait(t) ==
  /\ Tatas(t, "prio", "prio_swap", PrioAcquired(t), Goto(t, "prio"))
  /\ UNCHANGED <<ready, htmVars>>

(* Mutant of Demote: the promoted thread stays counted.                    *)
DemoteNobody(t) ==
  pc[t] = "demote" /\ Return(t, held[t]) /\ UNCHANGED <<val, ready, htmVars>>

Demote(t) ==
  /\ pc[t] = "demote"
  /\ ready' = [ready EXCEPT ![lk[t]] = @ - 1]
  /\ Return(t, held[t])
  /\ UNCHANGED <<val, htmVars>>

tas_priority_trylock_tm(t, l) ==
  MayTrylock(t, l) /\ CallUnlessElided(t, l, "try") /\ UNCHANGED <<val, ready>>

(* A try-lock gives up when it reads that somebody is promoted.            *)
PriorityTryRead(t) ==
  /\ pc[t] = "try"
  /\ \/ ready[lk[t]] = 0 /\ Goto(t, "try_test")
     \/ ready[lk[t]] # 0 /\ Refused(t)
  /\ UNCHANGED <<val, ready, htmVars>>

PriorityTry(t) ==
  /\ Tatas(t, "try_test", "try_swap", Acquired(t), Refused(t))
  /\ UNCHANGED <<ready, htmVars>>

tas_priority_unlock_tm(t, l) ==
  /\ MayUnlock(t, l)
  /\ UNCHANGED ready
  /\ \/ Elided(t, held[t] \ {l}) /\ UNCHANGED val
     \/ /\ spec_entry[t] = Null
        /\ ReleaseWord(l)
        /\ CallReturning(t, held[t] \ {l})
        /\ UNCHANGED htmVars

PriorityCall(t, l) ==
  \/ tas_priority_lock_tm(t, l)
  \/ tas_priority_trylock_tm(t, l)
  \/ tas_priority_unlock_tm(t, l)

PriorityStep(t) ==
  \/ PriorityRead(t)
  \/ PriorityTake(t)
  \/ PrioritySpeculate(t)
  \/ PriorityFailed(t)
  \/ Promote(t)
  \/ PriorityWait(t)
  \/ Demote(t)
  \/ PriorityTryRead(t)
  \/ PriorityTry(t)

Promoted(l) == {t \in Threads : pc[t] \in {"prio", "prio_swap", "demote"} /\ lk[t] = l}
=============================================================================
