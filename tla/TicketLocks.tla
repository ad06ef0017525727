----------------------------- MODULE TicketLocks -----------------------------
(***************************************************************************)
(* The library with one of the two ticket locks in use.                     *)
(***************************************************************************)
EXTENDS TicketLock, TicketTmLock, Sequences

VARIABLE using   \* using_lock_type, by its name

vars == <<using, pc, lk, held, ticketVars, misled, htmVars>>

Init ==
  /\ using \in {"ticket", "ticket_tm"}
  /\ ClientInit
  /\ TicketInit
  /\ HtmInit
  /\ misled = FALSE

(* The program calls tl_lock, tl_trylock or tl_unlock.                     *)
ClientCall(t, l) ==
  /\ UNCHANGED using
  /\ \/ using = "ticket" /\ TicketCall(t, l) /\ UNCHANGED <<misled, htmVars>>
     \/ using = "ticket_tm" /\ TicketTmCall(t, l)

(* What a thread does inside the function that it has called.              *)
Step(t) ==
  /\ UNCHANGED using
  /\ \/ using = "ticket" /\ TicketStep(t) /\ UNCHANGED <<misled, htmVars>>
     \/ using = "ticket_tm" /\ TicketTmStep(t)

TxAbort(t) == Abort(t) /\ UNCHANGED <<using, ticketVars, misled>>

Next ==
  \E t \in Threads :
    \/ Step(t)
    \/ TxAbort(t)
    \/ \E l \in Locks : ClientCall(t, l)

Spec == Init /\ [][Next]_vars

(* The program gives back a lock that t really holds.                      *)
RealUnlock(t, l) == ~InTx(t) /\ l \in held[t] /\ ClientCall(t, l) /\ l \notin held'[t]

(* A thread inside a lock function keeps running, a transaction that nobody *)
(* commits aborts at an interrupt, and the program ends every critical      *)
(* section that it really entered, even if it makes other calls in it.     *)
FairSpec ==
  /\ Spec
  /\ \A t \in Threads :
       /\ WF_vars(Step(t))
       /\ WF_vars(TxAbort(t))
       /\ \A l \in Locks : SF_vars(RealUnlock(t, l))
-----------------------------------------------------------------------------
(* Every variable is of its type; counters and tickets stay within their    *)
(* width.                                                                  *)
TypeOK ==
  /\ using \in {"ticket", "ticket_tm"}
  /\ ClientTypeOK(IF using = "ticket" THEN TicketLabels ELSE TicketTmLabels)
  /\ TicketTypeOK
  /\ HtmTypeOK
  /\ misled \in BOOLEAN

Holders(l) == {t \in Threads : l \in Owned(t)}

(* A waiter keeps its ticket while it speculates.                          *)
Waiters(l) ==
  {t \in Threads : \/ pc[t] \in {"wait", "dist", "enter", "check", "abort"} /\ lk[t] = l
                   \/ InTx(t) /\ saved[t].lk = l}

(* At most one thread really holds a lock, however often the counters wrap  *)
(* around and whoever speculates.                                          *)
MutualExclusion == \A l \in Locks : Cardinality(Holders(l)) <= 1

(* The same, as long as no try-lock has told a thread that it holds a lock  *)
(* which it does not hold (ticket_trylock_tm, txlock.c:359-361).           *)
MutualExclusionUnlessMisled == misled \/ MutualExclusion

(* next - now counts the real holder and the waiters, speculating ones      *)
(* included: no ticket is lost, none is served by a speculation, and none   *)
(* is handed out again before it was served (txlock.c:299, 322, 334, 370).  *)
TicketsAccountForThreads ==
  ~misled =>
    \A l \in Locks :
      /\ Dist(next[l], now[l]) = Cardinality(Holders(l)) + Cardinality(Waiters(l))
      /\ \A t, u \in Waiters(l) : ticket[t] = ticket[u] => t = u

(* A waiter whose turn has come is not left speculating: its transaction    *)
(* has been doomed by the unlock that served it (txlock.c:340, 370).       *)
TurnEndsSpeculation ==
  \A t \in Threads :
    InTx(t) /\ pc[t] = "client" /\ ticket[t] = now[saved[t].lk] => doomed[t]

(* Calls are elided (txlock.c:329, 356, 365) only by a thread whose          *)
(* transaction undoes what it then does with locks it did not take.        *)
FlagMatchesHardware ==
  \A t \in Threads : pc[t] = "client" => (spec_entry[t] # Null <=> InTx(t))

(* The waiters whose tickets l serves before that of t.                    *)
Before(t, l) ==
  {u \in Waiters(l) : Dist(ticket[u], now[l]) < Dist(ticket[t], now[l])}

(* The queue of l: its waiters in the order of their distance from the       *)
(* ticket that is being served.                                            *)
Queue(l) ==
  [i \in 1 .. Cardinality(Waiters(l)) |->
     CHOOSE t \in Waiters(l) : Cardinality(Before(t, l)) = i - 1]

(* Both ticket locks implement the first-come-first-served mutex, for the    *)
(* locks really held and the threads that have a ticket, speculating or not *)
(* (txlock.c:299, 322, 334, 370).                                           *)
F == INSTANCE FifoMutex WITH holds <- [t \in Threads |-> Owned(t)],
                             queue <- [l \in Locks |-> Queue(l)]

FifoSpec == F!Spec

(* No starvation, speculating or not: who calls ticket_lock or              *)
(* ticket_lock_tm outside transactions really gets the lock.               *)
EveryCallerServed ==
  \A t \in Threads, l \in Locks :
    pc[t] = "take" /\ lk[t] = l ~> l \in Owned(t)
-----------------------------------------------------------------------------
(***************************************************************************)
(* The inductive invariant: what makes the properties above survive a step.  *)
(***************************************************************************)

(* A transaction is one that will be undone.  It keeps its place in the      *)
(* queue of the lock that the thread waits for, and once it has found that   *)
(* it is not its turn, it can only go on for as long as that is true.       *)
SpeculationBook(t) ==
  /\ pc[t] # "client" => lk[t] \in Locks \ held[t]
  /\ spec_entry[t] # Null => InTx(t) \/ pc[t] = "abort"
  /\ pc[t] = "check" => InTx(t)
  /\ using = "ticket" => ~InTx(t) /\ spec_entry[t] = Null
  /\ InTx(t) =>
       /\ spec_entry[t] # Null
       /\ pc[t] \in {"client", "check"}
       /\ saved[t].lk \in Locks \ saved[t].held
       /\ pc[t] = "check" => lk[t] = saved[t].lk
       /\ pc[t] = "client" /\ ~doomed[t] =>
            saved[t].lk \in watch[t] /\ ticket[t] # now[saved[t].lk]

(* How far t has to go until l serves it.                                  *)
Place(t, l) == Dist(ticket[t], now[l])

(* The places from now to next are taken, each by one thread: the first one *)
(* by the holder, if there is one, and all others by waiters.              *)
TicketBook(l) ==
  /\ Cardinality(Holders(l)) \in {0, 1}
  /\ Dist(next[l], now[l]) = Cardinality(Holders(l)) + Cardinality(Waiters(l))
  /\ \A t \in Waiters(l) :
       Place(t, l) \in Cardinality(Holders(l)) .. Dist(next[l], now[l]) - 1
  /\ \A d \in Cardinality(Holders(l)) .. Dist(next[l], now[l]) - 1 :
       \E t \in Waiters(l) : Place(t, l) = d
  /\ \A t, u \in Waiters(l) : ticket[t] = ticket[u] => t = u

IInv ==
  /\ TypeOK
  /\ \A t \in Threads : SpeculationBook(t)
  /\ ~misled => \A l \in Locks : TicketBook(l)
=============================================================================
