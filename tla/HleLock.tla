------------------------------- MODULE HleLock -------------------------------
(***************************************************************************)
(* The lock type "tas_hle": lock elision on the test-and-set word           *)
(* (tas_lock_hle, tas_unlock_hle).  Here a transaction is meant to commit:  *)
(* tl_lock begins it, reads the word without writing it, and the matching   *)
(* tl_unlock ends it.  After NumTries aborts the word is really taken.      *)
(*                                                                         *)
(* tas_trylock_hle is assert(0) and has no action: a call ends the process. *)
(***************************************************************************)
EXTENDS TasWord, Htm

CONSTANT Nested   \* TRUE: the program gives locks back in reverse order

HleLabels == {"enter", "check", "wait", "abort", "spin", "spin_swap"}

tas_lock_hle(t, l) ==
  /\ MayLock(t, l)
  /\ Call(t, l, "enter")
  /\ tries' = [tries EXCEPT ![t] = 0]
  /\ UNCHANGED <<val, spec_entry, hardwareVars>>

(* Mutant of Elide: a nested call begins no level of its own.              *)
ElideOnce(t) ==
  /\ pc[t] = "enter"
  /\ \/ ~InTx(t) /\ EnterHtm(t, Null, Goto(t, "check"))
     \/ InTx(t) /\ Goto(t, "check") /\ UNCHANGED htmVars
  /\ UNCHANGED val

(* The loop of tas_lock_hle: enter_htm(0), so that spec_entry stays null.   *)
Elide(t) ==
  /\ pc[t] = "enter"
  /\ EnterHtm(t, Null, Goto(t, "check"))
  /\ UNCHANGED val

ElisionFailed(t) ==
  /\ EnterHtmFailed(t, IF OutOfTries(t) THEN "spin" ELSE "enter")
  /\ CountTry(t)
  /\ UNCHANGED val

(* What follows the test of the word; one that is taken leaves the thread  *)
(* spinning until the transaction aborts.                                  *)
WordTested(t) ==
  \/ val[lk[t]] = 0 /\ Acquired(t)
  \/ val[lk[t]] = 1 /\ Goto(t, "wait")

(* Mutant of CheckWord: the word is not read inside the transaction.        *)
CheckWordOutside(t) == pc[t] = "check" /\ WordTested(t) /\ UNCHANGED <<val, htmVars>>

(* Inside the transaction the word is read, and so watched.                *)
CheckWord(t) ==
  /\ pc[t] = "check"
  /\ Watch(t, lk[t])
  /\ WordTested(t)
  /\ UNCHANGED <<val, spec_entry, tries>>

Changed == {l \in Locks : val'[l] # val[l]}

HleSpin(t) ==
  /\ Tatas(t, "spin", "spin_swap", Acquired(t), Goto(t, "spin"))
  /\ Doom(Changed)
  /\ UNCHANGED <<spec_entry, tries>>

(* Inside a transaction an unlock of ANY lock ends a level of it; outside,  *)
(* it writes the word.                                                     *)
EndElision(t) == InTx(t) /\ XEnd(t) /\ UNCHANGED val

WriteBack(t, l) == ~InTx(t) /\ ReleaseWord(l) /\ Doom(Changed)

tas_unlock_hle(t, l) ==
  /\ MayUnlock(t, l)
  /\ Nested => \A k \in held[t] : k <= l
  /\ EndElision(t) \/ WriteBack(t, l)
  /\ CallReturning(t, held[t] \ {l})
  /\ UNCHANGED <<spec_entry, tries>>

HleCall(t, l) == tas_lock_hle(t, l) \/ tas_unlock_hle(t, l)

HleStep(t) == Elide(t) \/ ElisionFailed(t) \/ CheckWord(t) \/ HleSpin(t)

(* The locks that t's transaction elides now: believed, not taken.         *)
Elides(t) == held[t] \ Owned(t)
=============================================================================
