---------------------------- MODULE TicketTmLock ----------------------------
(***************************************************************************)
(* The lock type "ticket_tm": a ticket lock whose waiters speculate when    *)
(* they are close enough to the head (ticket_lock_tm, ticket_trylock_tm,    *)
(* ticket_unlock_tm).  A speculating waiter keeps its ticket, so it must    *)
(* notice when its turn comes: it reads now inside the transaction.         *)
(***************************************************************************)
EXTENDS TicketWord, Htm

CONSTANT UseTrylock   \* TRUE: the program calls tl_trylock

VARIABLE misled   \* a try-lock has reported a lock that it did not take

TicketTmLabels == {"take", "wait", "dist", "enter", "check", "abort", "try", "try_swap"}

ticket_lock_tm(t, l) ==
  MayLock(t, l) /\ CallUnlessElided(t, l, "take") /\ UNCHANGED <<ticketVars, misled>>

TmTake(t) ==
  pc[t] = "take" /\ TakeTicket(t) /\ Goto(t, "wait") /\ UNCHANGED <<htmVars, misled>>

TmWait(t) ==
  /\ pc[t] = "wait"
  /\ UNCHANGED <<next, now, htmVars, misled>>
  /\ \/ MyTurn(t) /\ Acquired(t) /\ DropTicket(t)
     \/ ~MyTurn(t) /\ Goto(t, "dist") /\ UNCHANGED ticket

InWindow(t) ==
  /\ Dist(ticket[t], now[lk[t]]) \in MinDistance .. MaxDistance
  /\ tries[t] < NumTries

(* now is read a second time: it may have reached the ticket meanwhile.    *)
Measure(t) ==
  /\ pc[t] = "dist"
  /\ Goto(t, IF InWindow(t) THEN "enter" ELSE "wait")
  /\ UNCHANGED <<ticketVars, htmVars, misled>>

Speculate(t) ==
  /\ pc[t] = "enter"
  /\ EnterHtm(t, lk[t], Goto(t, "check"))
  /\ UNCHANGED <<ticketVars, misled>>

(* Mutant of SpeculationFailed: tried again, neither tested nor counted.    *)
SpeculationRetried(t) ==
  EnterHtmFailed(t, "enter") /\ UNCHANGED <<tries, ticketVars, misled>>

SpeculationFailed(t) ==
  EnterHtmFailed(t, "wait") /\ CountTry(t) /\ UNCHANGED <<ticketVars, misled>>

(* Mutant of CheckTurn: now is not read inside the transaction.             *)
CheckTurnOutside(t) ==
  /\ pc[t] = "check"
  /\ UNCHANGED <<ticketVars, misled>>
  /\ \/ MyTurn(t) /\ Abort(t)
     \/ ~MyTurn(t) /\ Acquired(t) /\ UNCHANGED htmVars

(* if(l->now==my_ticket){HTM_ABORT(1);}                                    *)
CheckTurn(t) ==
  /\ pc[t] = "check"
  /\ UNCHANGED <<ticketVars, misled>>
  /\ \/ MyTurn(t) /\ Abort(t)
     \/ ~MyTurn(t) /\ Watch(t, lk[t]) /\ Acquired(t) /\ UNCHANGED <<spec_entry, tries>>

ticket_trylock_tm(t, l) ==
  /\ UseTrylock
  /\ MayTrylock(t, l)
  /\ CallUnlessElided(t, l, "try")
  /\ UNCHANGED <<ticketVars, misled>>

(* ticket_trylock_tm drops the result of ticket_trylock and returns 0.     *)
TmTry(t) ==
  /\ TryTicket(t, "try", "try_swap", Acquired(t), Acquired(t))
  /\ misled' = (misled \/ (pc[t] = "try_swap" /\ ~NobodyQueues(t)))
  /\ UNCHANGED htmVars

(* The write of now dooms the transactions that read it.                   *)
ticket_unlock_tm(t, l) ==
  /\ MayUnlock(t, l)
  /\ UNCHANGED misled
  /\ \/ Elided(t, held[t] \ {l}) /\ UNCHANGED ticketVars
     \/ /\ spec_entry[t] = Null
        /\ Serve(l)
        /\ CallReturning(t, held[t] \ {l})
        /\ Doom({l})
        /\ UNCHANGED <<spec_entry, tries>>

TicketTmCall(t, l) ==
  ticket_lock_tm(t, l) \/ ticket_trylock_tm(t, l) \/ ticket_unlock_tm(t, l)

TicketTmStep(t) ==
  \/ TmTake(t)
  \/ TmWait(t)
  \/ Measure(t)
  \/ Speculate(t)
  \/ SpeculationFailed(t)
  \/ CheckTurn(t)
  \/ TmTry(t)
=============================================================================
