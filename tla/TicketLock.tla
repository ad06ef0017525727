----------------------------- MODULE TicketLock -----------------------------
(***************************************************************************)
(* The lock type "ticket": ticket_lock, ticket_trylock, ticket_unlock.      *)
(***************************************************************************)
EXTENDS TicketWord

TicketLabels == {"take", "wait", "try", "try_swap"}

ticket_lock(t, l) == MayLock(t, l) /\ Call(t, l, "take") /\ UNCHANGED ticketVars

Take(t) == pc[t] = "take" /\ TakeTicket(t) /\ Goto(t, "wait")

(* The loop of ticket_lock, from the test that ends it.                    *)
TicketWait(t) ==
  /\ pc[t] = "wait"
  /\ MyTurn(t)
  /\ Acquired(t)
  /\ DropTicket(t)
  /\ UNCHANGED <<next, now>>

ticket_trylock(t, l) == MayTrylock(t, l) /\ Call(t, l, "try") /\ UNCHANGED ticketVars

TicketTry(t) == TryTicket(t, "try", "try_swap", Acquired(t), Refused(t))

ticket_unlock(t, l) ==
  MayUnlock(t, l) /\ Serve(l) /\ CallReturning(t, held[t] \ {l})

TicketCall(t, l) == ticket_lock(t, l) \/ ticket_trylock(t, l) \/ ticket_unlock(t, l)

TicketStep(t) == Take(t) \/ TicketWait(t) \/ TicketTry(t)
=============================================================================
