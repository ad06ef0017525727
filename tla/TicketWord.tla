----------------------------- MODULE TicketWord -----------------------------
(***************************************************************************)
(* The two counters of the ticket locks (struct _ticket_lock_t), unsigned   *)
(* and of a fixed width, so that they wrap around.  TicketRange stands for  *)
(* 2^32.  The arithmetic is written with one conditional instead of %.      *)
(***************************************************************************)
EXTENDS LockClient, FiniteSets

CONSTANT TicketRange   \* number of values of a counter, 2^32 in the code

(* Fewer threads than tickets: 2^32 threads do not fit in memory.          *)
ASSUME TicketRangeAssumption ==
  /\ TicketRange \in Nat \ {0, 1}
  /\ IsFiniteSet(Threads)
  /\ Cardinality(Threads) < TicketRange

VARIABLES next,    \* next[l]: the ticket that the next arrival takes
          now,     \* now[l]: the ticket that is being served
          ticket   \* ticket[t]: my_ticket in t's call, or the copy of now in a try-lock

ticketVars == <<next, now, ticket>>

Tickets == 0 .. TicketRange - 1

(* Mutant of Succ: the counter does not wrap around.                       *)
SuccUnbounded(x) == x + 1

(* x + 1 on the width of a counter                                         *)
Succ(x) == IF x = TicketRange - 1 THEN 0 ELSE x + 1

(* a - b on the width of a counter                                         *)
Dist(a, b) == IF a >= b THEN a - b ELSE a - b + TicketRange

TicketInit ==
  /\ next = [l \in Locks |-> 0]
  /\ now = [l \in Locks |-> 0]
  /\ ticket = [t \in Threads |-> 0]

TicketTypeOK ==
  /\ next \in [Locks -> Tickets]
  /\ now \in [Locks -> Tickets]
  /\ ticket \in [Threads -> Tickets]

(* Mutant of TakeTicket: next is read and not advanced.                    *)
TakeTicketOnly(t) ==
  /\ ticket' = [ticket EXCEPT ![t] = next[lk[t]]]
  /\ UNCHANGED <<next, now>>

(* my_ticket = __sync_fetch_and_add(&l->next, 1)                           *)
TakeTicket(t) ==
  /\ ticket' = [ticket EXCEPT ![t] = next[lk[t]]]
  /\ next' = [next EXCEPT ![lk[t]] = Succ(@)]
  /\ UNCHANGED now

(* Mutant of Serve: a waiter is passed over.                               *)
ServeNextButOne(l) ==
  /\ now' = [now EXCEPT ![l] = IF Succ(@) = next[l] THEN Succ(@) ELSE Succ(Succ(@))]
  /\ UNCHANGED <<next, ticket>>

(* l->now++, by the holder only                                            *)
Serve(l) ==
  /\ now' = [now EXCEPT ![l] = Succ(@)]
  /\ UNCHANGED <<next, ticket>>

MyTurn(t) == ticket[t] = now[lk[t]]

(* Both counters have the value of the thread's copy: the lock is free.     *)
NobodyQueues(t) == ticket[t] = now[lk[t]] /\ ticket[t] = next[lk[t]]

(* The local my_ticket goes out of scope.                                  *)
DropTicket(t) == ticket' = [ticket EXCEPT ![t] = 0]

(* Mutant of TryTicket: only the half of the word with now is compared.    *)
TryTicketHalf(t, read, swap, Won, Busy) ==
  \/ /\ pc[t] = read
     /\ ticket' = [ticket EXCEPT ![t] = now[lk[t]]]
     /\ Goto(t, swap)
     /\ UNCHANGED <<next, now>>
  \/ /\ pc[t] = swap
     /\ \/ MyTurn(t) /\ next' = [next EXCEPT ![lk[t]] = Succ(@)] /\ Won
        \/ ~MyTurn(t) /\ Busy /\ UNCHANGED next
     /\ DropTicket(t)
     /\ UNCHANGED now

(***************************************************************************)
(* ticket_trylock in two steps: a read of now at label read, and a compare- *)
(* and-swap of both counters at once at label swap, which succeeds when     *)
(* both still equal the value that was read.                               *)
(***************************************************************************)
TryTicket(t, read, swap, Won, Busy) ==
  \/ /\ pc[t] = read
     /\ ticket' = [ticket EXCEPT ![t] = now[lk[t]]]
     /\ Goto(t, swap)
     /\ UNCHANGED <<next, now>>
  \/ /\ pc[t] = swap
     /\ NobodyQueues(t)
     /\ next' = [next EXCEPT ![lk[t]] = Succ(@)]
     /\ Won
     /\ DropTicket(t)
     /\ UNCHANGED now
  \/ /\ pc[t] = swap
     /\ ~NobodyQueues(t)
     /\ Busy
     /\ DropTicket(t)
     /\ UNCHANGED <<next, now>>
=============================================================================
