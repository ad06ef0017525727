--------------------------- MODULE WordLocksProofs ---------------------------
(***************************************************************************)
(* The lock types on one word, for any threads, any locks and any number of *)
(* tries: whatever speculates, elides, aborts or falls back, no lock is     *)
(* lost and none is given away.  The theorems are at the end.  Each action  *)
(* is shown to keep the invariant IInv and to be, for the locks really      *)
(* held, a step of the abstract mutex M or no step at all.                  *)
(***************************************************************************)
EXTENDS WordLocks, FiniteSetTheorems, TLAPS

(* What the threads really hold, as the abstract mutex sees it.            *)
Holds == [t \in Threads |-> Owned(t)]

(* A step in which only t moves.                                           *)
OnlyMoves(t) ==
  \A u \in Threads \ {t} :
    /\ pc'[u] = pc[u] /\ lk'[u] = lk[u] /\ held'[u] = held[u]
    /\ spec_entry'[u] = spec_entry[u] /\ depth'[u] = depth[u] /\ saved'[u] = saved[u]

(* t goes to a label, with an argument, believing that it holds locks.      *)
Moves(t, label, l, locks) ==
  /\ pc' = [pc EXCEPT ![t] = label]
  /\ lk' = [lk EXCEPT ![t] = l]
  /\ held' = [held EXCEPT ![t] = locks]

(* Variables of which only the type matters here.                          *)
OthersTyped ==
  /\ tries' \in [Threads -> Nat]
  /\ watch' \in [Threads -> SUBSET Locks]
  /\ doomed' \in [Threads -> BOOLEAN]
  /\ ready' \in [Locks -> Int]

USE DEF Null

-----------------------------------------------------------------------------
(* A thread that does not move keeps its book and what it really holds.     *)
LEMMA OthersKeepBooks ==
  ASSUME IInv, NEW t \in Threads, NEW u \in Threads \ {t}, OnlyMoves(t), UNCHANGED using
  PROVE  Book(u)' /\ Owned(u)' = Owned(u)
<1>1. Book(u) /\ InTx(u)' = InTx(u) /\ Owned(u)' = Owned(u)
  BY DEF OnlyMoves, IInv, InTx, Owned
<1>2. Elides(u)' = Elides(u)
  BY <1>1 DEF Elides, OnlyMoves
<1>3. (using # "tas_hle" => FlagBook(u)')
  BY <1>1 DEF Book, FlagBook, OnlyMoves
<1>4. (using = "tas_hle" => ElisionBook(u)')
  BY <1>1, <1>2 DEF Book, ElisionBook, OnlyMoves
<1> QED
  BY <1>1, <1>3, <1>4 DEF Book, OnlyMoves

(* A step after which t really holds what it held before, and no word has   *)
(* changed.                                                                *)
LEMMA QuietStep ==
  ASSUME IInv, NEW t \in Threads,
         TypeOK', OnlyMoves(t), UNCHANGED <<using, val>>, Book(t)', Owned(t)' = Owned(t)
  PROVE  IInv' /\ UNCHANGED Holds
<1>1. \A u \in Threads : Book(u)' /\ Owned(u)' = Owned(u)
  BY OthersKeepBooks
<1>2. WordHasOneOwner'
  BY <1>1 DEF IInv, WordHasOneOwner
<1>3. UNCHANGED Holds
  BY <1>1 DEF Holds
<1> QED
  BY <1>1, <1>2, <1>3 DEF IInv, NestsIfElided

(* A step in which t sets the word of l, that was 0, and really holds l.    *)
LEMMA AcquireStep ==
  ASSUME IInv, NEW t \in Threads, NEW l \in Locks,
         TypeOK', OnlyMoves(t), UNCHANGED using, Book(t)',
         val[l] = 0, val' = [val EXCEPT ![l] = 1], Owned(t)' = Owned(t) \cup {l}
  PROVE  IInv' /\ M!Acquire(t, l)
<1>1. \A u \in Threads \ {t} : Book(u)' /\ Owned(u)' = Owned(u)
  BY OthersKeepBooks
<1>2. \A u \in Threads : l \notin Owned(u)
  BY DEF IInv, WordHasOneOwner
<1>3. WordHasOneOwner'
  BY <1>1, <1>2 DEF IInv, TypeOK, WordTypeOK, WordHasOneOwner
<1>4. M!Acquire(t, l)
  BY <1>1, <1>2 DEF M!Acquire
<1> QED
  BY <1>1, <1>3, <1>4 DEF IInv, NestsIfElided

(* A step in which t frees the word of a lock l that it really held.        *)
LEMMA ReleaseStep ==
  ASSUME IInv, NEW t \in Threads, NEW l \in Locks,
         TypeOK', OnlyMoves(t), UNCHANGED using, Book(t)',
         l \in Owned(t), val' = [val EXCEPT ![l] = 0], Owned(t)' = Owned(t) \ {l}
  PROVE  IInv' /\ M!Release(t, l)
<1>1. \A u \in Threads \ {t} : Book(u)' /\ Owned(u)' = Owned(u)
  BY OthersKeepBooks
<1>2. WordHasOneOwner'
  BY <1>1 DEF IInv, TypeOK, WordTypeOK, WordHasOneOwner
<1>3. M!Release(t, l)
  BY <1>1 DEF M!Release
<1> QED
  BY <1>1, <1>2, <1>3 DEF IInv, NestsIfElided

(* Moves of a thread that is in no transaction.                            *)
LEMMA RealMove ==
  ASSUME IInv, NEW t \in Threads, ~InTx(t),
         NEW label \in Labels[using] \cup {"client"},
         NEW l \in Locks \cup {Null}, NEW locks \in SUBSET Locks, NEW e \in Locks \cup {Null},
         Moves(t, label, l, locks),
         spec_entry' = [spec_entry EXCEPT ![t] = e],
         UNCHANGED <<using, depth, saved>>, OthersTyped, WordTypeOK',
         label # "client" => l \in Locks,
         e # Null => label = "abort" /\ using # "tas_hle",
         using = "tas_hle" =>
           label \notin {"check", "wait"} /\ (label # "client" => \A k \in locks : k < l)
  PROVE  /\ TypeOK' /\ OnlyMoves(t) /\ Book(t)'
         /\ Owned(t) = held[t] /\ Owned(t)' = locks
<1> USE DEF Moves
<1>1. TypeOK'
  BY DEF IInv, TypeOK, ClientTypeOK, HtmTypeOK, OthersTyped
<1>2. OnlyMoves(t)
  BY DEF OnlyMoves, IInv, TypeOK, ClientTypeOK, HtmTypeOK
<1>3. /\ pc'[t] = label /\ lk'[t] = l /\ held'[t] = locks /\ spec_entry'[t] = e
      /\ ~InTx(t)'
  BY DEF IInv, TypeOK, ClientTypeOK, HtmTypeOK, InTx
<1>4. FlagBook(t)' \/ using = "tas_hle"
  BY <1>3 DEF FlagBook
<1>5. using = "tas_hle" => ElisionBook(t)'
  BY <1>3 DEF ElisionBook
<1>6. Book(t)'
  BY <1>3, <1>4, <1>5 DEF Book
<1>7. Owned(t) = held[t] /\ Owned(t)' = locks
  BY <1>3 DEF Owned
<1> QED
  BY <1>1, <1>2, <1>6, <1>7

(* The forms in which the modules write such moves.                        *)
LEMMA MovesForms ==
  ASSUME TypeOK, NEW t \in Threads
  PROVE  /\ \A label, l : Call(t, l, label) => Moves(t, label, l, held[t])
         /\ \A label : Goto(t, label) => Moves(t, label, lk[t], held[t])
         /\ Acquired(t) => Moves(t, "client", Null, held[t] \cup {lk[t]})
         /\ PrioAcquired(t) => Moves(t, "demote", lk[t], held[t] \cup {lk[t]})
         /\ Refused(t) => Moves(t, "client", Null, held[t])
         /\ \A locks : CallReturning(t, locks) => Moves(t, pc[t], lk[t], locks)
BY DEF TypeOK, ClientTypeOK, Moves, Call, Goto, Acquired, Refused, PrioAcquired, Return,
       CallReturning
-----------------------------------------------------------------------------
(***************************************************************************)
(* The kinds of step outside transactions, common to the lock types.        *)
(***************************************************************************)

(* Labels at which a thread is only inside a transaction or after one.      *)
TxLabels == {"abort", "check", "wait"}

(* A thread outside transactions is not marked as speculating.             *)
LEMMA FlagIsNull ==
  ASSUME IInv, NEW t \in Threads, ~InTx(t), pc[t] # "abort"
  PROVE  spec_entry[t] = Null /\ spec_entry = [spec_entry EXCEPT ![t] = Null]
BY DEF IInv, Book, FlagBook, ElisionBook, TypeOK, HtmTypeOK

(* A lock function moves on, or gives up.                                  *)
LEMMA GotoStep ==
  ASSUME IInv, NEW t \in Threads, ~InTx(t), pc[t] \notin {"client", "abort"},
         NEW label \in Labels[using] \ TxLabels,
         Goto(t, label) \/ Refused(t),
         UNCHANGED <<using, val, spec_entry, depth, saved>>, OthersTyped
  PROVE  IInv' /\ UNCHANGED Holds
<1>1. TypeOK /\ WordTypeOK' /\ lk[t] \in Locks /\ held[t] \in SUBSET Locks
  BY DEF IInv, Book, TypeOK, WordTypeOK, ClientTypeOK
<1>2. using = "tas_hle" => \A k \in held[t] : k < lk[t]
  BY DEF IInv, Book, ElisionBook
<1>3. spec_entry' = [spec_entry EXCEPT ![t] = Null]
  BY FlagIsNull
<1>4. CASE Moves(t, label, lk[t], held[t])
  <2>1. TypeOK' /\ OnlyMoves(t) /\ Book(t)' /\ Owned(t) = held[t] /\ Owned(t)' = held[t]
    BY <1>1, <1>2, <1>3, <1>4, RealMove DEF TxLabels
  <2> QED
    BY <2>1, QuietStep
<1>5. CASE Moves(t, "client", Null, held[t])
  <2>1. TypeOK' /\ OnlyMoves(t) /\ Book(t)' /\ Owned(t) = held[t] /\ Owned(t)' = held[t]
    BY <1>1, <1>3, <1>5, RealMove
  <2> QED
    BY <2>1, QuietStep
<1> QED
  BY <1>1, <1>4, <1>5, MovesForms

(* A call that is not elided enters its function.                          *)
LEMMA CallStep ==
  ASSUME IInv, NEW t \in Threads, ~InTx(t), pc[t] = "client", NEW l \in Locks,
         NEW label \in Labels[using] \ TxLabels,
         using = "tas_hle" => \A k \in held[t] : k < l,
         Call(t, l, label),
         UNCHANGED <<using, val, spec_entry, depth, saved>>, OthersTyped
  PROVE  IInv' /\ UNCHANGED Holds
<1>1. TypeOK /\ WordTypeOK' /\ held[t] \in SUBSET Locks
  BY DEF IInv, Book, TypeOK, WordTypeOK, ClientTypeOK
<1>2. spec_entry' = [spec_entry EXCEPT ![t] = Null]
  BY FlagIsNull
<1>3. Moves(t, label, l, held[t])
  BY <1>1, MovesForms
<1>4. TypeOK' /\ OnlyMoves(t) /\ Book(t)' /\ Owned(t) = held[t] /\ Owned(t)' = held[t]
  BY <1>1, <1>2, <1>3, RealMove DEF TxLabels
<1> QED
  BY <1>4, QuietStep

(* A lock function that has just set the word returns, or goes on to leave  *)
(* the count of the promoted threads.                                      *)
LEMMA TakeStep ==
  ASSUME IInv, NEW t \in Threads, ~InTx(t), pc[t] \notin {"client", "abort"},
         Acquired(t) \/ (PrioAcquired(t) /\ using = "tas_priority_tm"),
         val[lk[t]] = 0, val' = [val EXCEPT ![lk[t]] = 1],
         UNCHANGED <<using, spec_entry, depth, saved>>, OthersTyped
  PROVE  IInv' /\ M!Acquire(t, lk[t])
<1>1. TypeOK /\ WordTypeOK' /\ lk[t] \in Locks /\ held[t] \cup {lk[t]} \in SUBSET Locks
  BY DEF IInv, Book, TypeOK, WordTypeOK, ClientTypeOK
<1>2. spec_entry' = [spec_entry EXCEPT ![t] = Null]
  BY FlagIsNull
<1>3. CASE Moves(t, "client", Null, held[t] \cup {lk[t]})
  <2>1. /\ TypeOK' /\ OnlyMoves(t) /\ Book(t)'
        /\ Owned(t) = held[t] /\ Owned(t)' = held[t] \cup {lk[t]}
    BY <1>1, <1>2, <1>3, RealMove
  <2> QED
    BY <1>1, <2>1, AcquireStep
<1>4. CASE Moves(t, "demote", lk[t], held[t] \cup {lk[t]}) /\ using = "tas_priority_tm"
  <2>1. /\ TypeOK' /\ OnlyMoves(t) /\ Book(t)'
        /\ Owned(t) = held[t] /\ Owned(t)' = held[t] \cup {lk[t]}
    <3>1. "demote" \in Labels[using]
      BY <1>4 DEF Labels, PriorityLabels
    <3>2. using # "tas_hle"
      BY <1>4
    <3>3. Moves(t, "demote", lk[t], held[t] \cup {lk[t]})
      BY <1>4
    <3> QED
      BY ONLY IInv, t \in Threads, ~InTx(t), UNCHANGED <<using, depth, saved>>, OthersTyped,
         <1>1, <1>2, <3>1, <3>2, <3>3, RealMove
  <2> QED
    BY <1>1, <2>1, AcquireStep
<1> QED
  BY <1>1, <1>3, <1>4, MovesForms

(* An unlock that is not elided.                                           *)
LEMMA UnlockStep ==
  ASSUME IInv, NEW t \in Threads, ~InTx(t), NEW l \in Locks, MayUnlock(t, l),
         CallReturning(t, held[t] \ {l}), val' = [val EXCEPT ![l] = 0],
         UNCHANGED <<using, spec_entry, depth, saved>>, OthersTyped
  PROVE  IInv' /\ M!Release(t, l)
<1>1. /\ TypeOK /\ WordTypeOK' /\ held[t] \ {l} \in SUBSET Locks /\ pc[t] = "client"
      /\ l \in held[t] /\ lk[t] \in Locks \cup {Null}
  BY DEF IInv, Book, TypeOK, WordTypeOK, ClientTypeOK, MayUnlock
<1>2. spec_entry' = [spec_entry EXCEPT ![t] = Null]
  BY <1>1, FlagIsNull
<1>3. Moves(t, "client", lk[t], held[t] \ {l})
  BY <1>1, MovesForms
<1>4. TypeOK' /\ OnlyMoves(t) /\ Book(t)' /\ Owned(t) = held[t] /\ Owned(t)' = held[t] \ {l}
  BY <1>1, <1>2, <1>3, RealMove
<1> QED
  BY <1>1, <1>4, ReleaseStep

(* enter_htm comes back after an abort and clears the flag.                *)
LEMMA FailedStep ==
  ASSUME IInv, NEW t \in Threads, NEW label \in Labels[using] \ TxLabels,
         EnterHtmFailed(t, label), UNCHANGED <<using, val>>, OthersTyped
  PROVE  IInv' /\ UNCHANGED Holds
<1>1. /\ pc[t] = "abort" /\ Goto(t, label) /\ UNCHANGED <<depth, saved>>
      /\ spec_entry' = [spec_entry EXCEPT ![t] = Null]
  BY DEF EnterHtmFailed, hardwareVars
<1>2. ~InTx(t) /\ (using = "tas_hle" => \A k \in held[t] : k < lk[t])
  BY <1>1 DEF IInv, Book, FlagBook, ElisionBook
<1>3. TypeOK /\ WordTypeOK' /\ lk[t] \in Locks /\ held[t] \in SUBSET Locks
  BY <1>1 DEF IInv, Book, TypeOK, WordTypeOK, ClientTypeOK
<1>4. Moves(t, label, lk[t], held[t])
  BY <1>1, <1>3, MovesForms
<1>5. TypeOK' /\ OnlyMoves(t) /\ Book(t)' /\ Owned(t) = held[t] /\ Owned(t)' = held[t]
  BY <1>1, <1>2, <1>3, <1>4, RealMove DEF TxLabels
<1> QED
  BY <1>5, QuietStep

(* One attempt at tatas: it moves on, or it takes the lock.                *)
LEMMA TatasStep ==
  ASSUME IInv, NEW t \in Threads, ~InTx(t),
         NEW read \in Labels[using] \ TxLabels, NEW swap \in Labels[using] \ TxLabels,
         NEW busy \in Labels[using] \ TxLabels, "client" \notin {read, swap},
         \/ Tatas(t, read, swap, Acquired(t), Goto(t, busy))
         \/ Tatas(t, read, swap, Acquired(t), Refused(t))
         \/ Tatas(t, read, swap, PrioAcquired(t), Goto(t, busy)) /\ using = "tas_priority_tm",
         UNCHANGED <<using, spec_entry, depth, saved>>, OthersTyped
  PROVE  IInv' /\ [M!Next]_Holds
<1>1. pc[t] \in {read, swap} /\ pc[t] \notin {"client", "abort"}
  BY DEF Tatas, TxLabels
<1>2. lk[t] \in Locks
  BY <1>1 DEF IInv, Book
<1>3. CASE Goto(t, swap) /\ UNCHANGED val
  BY <1>1, <1>3, GotoStep
<1>4. CASE (Goto(t, busy) \/ Refused(t)) /\ UNCHANGED val
  BY <1>1, <1>4, GotoStep
<1>5. CASE /\ Acquired(t) \/ (PrioAcquired(t) /\ using = "tas_priority_tm")
           /\ val[lk[t]] = 0 /\ val' = [val EXCEPT ![lk[t]] = 1]
  BY <1>1, <1>2, <1>5, TakeStep DEF M!Next
<1> QED
  BY <1>3, <1>4, <1>5 DEF Tatas
-----------------------------------------------------------------------------
(***************************************************************************)
(* Speculation: every lock type but tas_hle.                               *)
(***************************************************************************)

(* An elided call changes only what a speculating thread believes.         *)
LEMMA ElidedStep ==
  ASSUME IInv, using # "tas_hle", NEW t \in Threads, NEW locks \in SUBSET Locks,
         pc[t] = "client", Elided(t, locks), UNCHANGED <<using, val, ready>>
  PROVE  IInv' /\ UNCHANGED Holds
<1> USE DEF Elided, CallReturning, htmVars
<1>1. InTx(t)
  BY DEF IInv, Book, FlagBook
<1>2. TypeOK' /\ OnlyMoves(t)
  BY DEF IInv, TypeOK, ClientTypeOK, WordTypeOK, HtmTypeOK, OnlyMoves
<1>3. Book(t)' /\ Owned(t)' = Owned(t)
  BY <1>1 DEF IInv, Book, FlagBook, InTx, Owned
<1> QED
  BY <1>2, <1>3, QuietStep

(* enter_htm begins a transaction: what the thread held so far is what it   *)
(* goes on holding for real.                                               *)
LEMMA SpeculateStep ==
  ASSUME IInv, using \in {"pthread_tm", "tas_tm", "tas_priority_tm"},
         NEW t \in Threads, pc[t] = "enter", EnterHtm(t, lk[t], Acquired(t)),
         "abort" \in Labels[using], UNCHANGED <<using, val, ready>>
  PROVE  IInv' /\ UNCHANGED Holds
<1>1. /\ ~InTx(t) /\ lk[t] \in Locks /\ TypeOK /\ WordTypeOK' /\ held[t] \in SUBSET Locks
      /\ lk[t] # Null
  BY LocksAssumption DEF IInv, Book, FlagBook, TypeOK, ClientTypeOK, WordTypeOK
<1>2. CASE XBegin(t) /\ Acquired(t)
  <2>1. /\ spec_entry' = [spec_entry EXCEPT ![t] = lk[t]] /\ tries' = tries
        /\ pc' = [pc EXCEPT ![t] = "client"] /\ lk' = [lk EXCEPT ![t] = Null]
        /\ held' = [held EXCEPT ![t] = @ \cup {lk[t]}]
        /\ depth' = [depth EXCEPT ![t] = @ + 1]
        /\ saved' = [saved EXCEPT ![t] =
                       [held |-> held[t], lk |-> lk[t], tries |-> tries[t]]]
        /\ watch' = watch /\ doomed' = doomed
    BY <1>1, <1>2 DEF EnterHtm, XBegin, Acquired, Return
  <2>2. TypeOK' /\ OnlyMoves(t)
    BY <1>1, <2>1 DEF TypeOK, ClientTypeOK, HtmTypeOK, OnlyMoves
  <2>3. /\ pc'[t] = "client" /\ spec_entry'[t] = lk[t]
        /\ saved'[t].held = held[t] /\ saved'[t].lk = lk[t] /\ InTx(t)'
    BY <1>1, <2>1 DEF TypeOK, ClientTypeOK, HtmTypeOK, InTx
  <2>4. Book(t)'
    BY <1>1, <2>3 DEF Book, FlagBook
  <2>5. Owned(t)' = Owned(t)
    BY <1>1, <2>3 DEF Owned
  <2> QED
    BY <2>2, <2>4, <2>5, QuietStep
<1>3. CASE Goto(t, "abort") /\ UNCHANGED hardwareVars
  <2>1. Moves(t, "abort", lk[t], held[t])
    BY <1>1, <1>3, MovesForms
  <2>2. UNCHANGED <<depth, saved>> /\ OthersTyped
    BY <1>1, <1>3 DEF EnterHtm, hardwareVars, TypeOK, HtmTypeOK, OthersTyped
  <2>3. spec_entry' = [spec_entry EXCEPT ![t] = lk[t]]
    BY DEF EnterHtm
  <2>4. TypeOK' /\ OnlyMoves(t) /\ Book(t)' /\ Owned(t) = held[t] /\ Owned(t)' = held[t]
    BY <1>1, <2>1, <2>2, <2>3, RealMove
  <2> QED
    BY <2>4, QuietStep
<1> QED
  BY <1>2, <1>3 DEF EnterHtm

(* An abort puts the checkpoint back: the thread believes again what it     *)
(* really held all along.                                                  *)
LEMMA AbortStep ==
  ASSUME IInv, NEW t \in Threads, TxAbort(t)
  PROVE  IInv' /\ UNCHANGED Holds
<1>1. /\ InTx(t) /\ UNCHANGED <<using, val, ready, spec_entry>>
      /\ pc' = [pc EXCEPT ![t] = "abort"]
      /\ held' = [held EXCEPT ![t] = saved[t].held]
      /\ lk' = [lk EXCEPT ![t] = saved[t].lk]
      /\ tries' = [tries EXCEPT ![t] = saved[t].tries]
      /\ depth' = [depth EXCEPT ![t] = 0]
      /\ saved' = [saved EXCEPT ![t] = NoCheckpoint]
      /\ watch' = [watch EXCEPT ![t] = {}]
      /\ doomed' = [doomed EXCEPT ![t] = FALSE]
  BY DEF TxAbort, Abort, LeaveTx
<1>2. /\ TypeOK /\ WordTypeOK' /\ saved[t].lk \in Locks
      /\ using \notin {"pthread", "tas"}
      /\ using # "tas_hle" => spec_entry[t] # Null
      /\ using = "tas_hle" => spec_entry[t] = Null /\ \A k \in saved[t].held : k < saved[t].lk
  BY <1>1 DEF IInv, Book, FlagBook, ElisionBook, TypeOK, WordTypeOK
<1>3. "abort" \in Labels[using]
  BY <1>2 DEF TypeOK, LockTypes, Labels, PthreadTmLabels, TasTmLabels, PriorityLabels,
              HleLabels
<1>4. TypeOK' /\ OnlyMoves(t)
  <2>1. ClientTypeOK(Labels[using])' /\ OnlyMoves(t)
    BY <1>1, <1>2, <1>3 DEF TypeOK, ClientTypeOK, HtmTypeOK, OnlyMoves
  <2>2. HtmTypeOK'
    BY <1>1, <1>2 DEF TypeOK, HtmTypeOK, NoCheckpoint
  <2> QED
    BY <1>1, <1>2, <2>1, <2>2 DEF TypeOK
<1>5. /\ pc'[t] = "abort" /\ lk'[t] = saved[t].lk /\ held'[t] = saved[t].held
      /\ spec_entry'[t] = spec_entry[t] /\ ~InTx(t)'
  BY <1>1, <1>2 DEF TypeOK, ClientTypeOK, HtmTypeOK, InTx
<1>6. Book(t)'
  BY <1>1, <1>2, <1>5 DEF Book, FlagBook, ElisionBook
<1>7. Owned(t)' = Owned(t)
  BY <1>1, <1>5 DEF Owned
<1> QED
  BY <1>1, <1>4, <1>6, <1>7, QuietStep

-----------------------------------------------------------------------------
(***************************************************************************)
(* Elision: tas_hle.                                                       *)
(***************************************************************************)

(* A call inside a transaction enters tas_lock_hle.                        *)
LEMMA NestedCallStep ==
  ASSUME IInv, using = "tas_hle", NEW t \in Threads, InTx(t), NEW l \in Locks,
         MayLock(t, l), Call(t, l, "enter"),
         UNCHANGED <<using, val, spec_entry, depth, saved>>, OthersTyped
  PROVE  IInv' /\ UNCHANGED Holds
<1>1. TypeOK /\ WordTypeOK' /\ ElisionBook(t) /\ pc[t] = "client" /\ \A k \in held[t] : k < l
  BY DEF IInv, Book, TypeOK, WordTypeOK, MayLock
<1>2. "enter" \in Labels[using]
  BY DEF Labels, HleLabels
<1>3. Moves(t, "enter", l, held[t])
  BY <1>1, MovesForms
<1>4. TypeOK' /\ OnlyMoves(t)
  BY <1>1, <1>2, <1>3 DEF Moves, TypeOK, ClientTypeOK, HtmTypeOK, OthersTyped, OnlyMoves
<1>5. /\ pc'[t] = "enter" /\ lk'[t] = l /\ held'[t] = held[t] /\ InTx(t)'
      /\ Owned(t)' = Owned(t) /\ Elides(t)' = Elides(t)
  BY <1>1, <1>3 DEF Moves, TypeOK, ClientTypeOK, InTx, Owned, Elides
<1>6. Book(t)'
  BY <1>1, <1>5 DEF Book, ElisionBook
<1> QED
  BY <1>4, <1>5, <1>6, QuietStep
(* enter_htm(0): the outermost transaction begins and elides no lock yet, or *)
(* one more level begins, or the begin fails.                              *)
LEMMA ElideStep ==
  ASSUME IInv, using = "tas_hle", NEW t \in Threads, Elide(t), UNCHANGED <<using, ready>>
  PROVE  IInv' /\ UNCHANGED Holds
<1>1. /\ TypeOK /\ WordTypeOK' /\ ElisionBook(t) /\ pc[t] = "enter" /\ lk[t] \in Locks
      /\ held[t] \in SUBSET Locks /\ spec_entry' = [spec_entry EXCEPT ![t] = Null]
      /\ tries' = tries /\ val' = val
  BY DEF IInv, Book, TypeOK, ClientTypeOK, WordTypeOK, Elide, EnterHtm
<1>2. {"check", "abort"} \subseteq Labels[using]
  BY DEF Labels, HleLabels
<1>3. CASE XBegin(t) /\ Goto(t, "check")
  <2>1. /\ pc' = [pc EXCEPT ![t] = "check"] /\ lk' = lk /\ held' = held
        /\ depth' = [depth EXCEPT ![t] = @ + 1] /\ watch' = watch /\ doomed' = doomed
        /\ saved' = IF InTx(t) THEN saved
                    ELSE [saved EXCEPT ![t] =
                            [held |-> held[t], lk |-> lk[t], tries |-> tries[t]]]
    BY <1>3 DEF XBegin, Goto
  <2>2. TypeOK' /\ OnlyMoves(t)
    <3>1. CASE InTx(t)
      BY <1>1, <1>2, <2>1, <3>1 DEF TypeOK, ClientTypeOK, HtmTypeOK, OnlyMoves
    <3>2. CASE ~InTx(t)
      BY <1>1, <1>2, <2>1, <3>2 DEF TypeOK, ClientTypeOK, HtmTypeOK, OnlyMoves
    <3> QED
      BY <3>1, <3>2
  <2>3. /\ pc'[t] = "check" /\ lk'[t] = lk[t] /\ held'[t] = held[t] /\ spec_entry'[t] = Null
        /\ depth'[t] = depth[t] + 1 /\ InTx(t)'
    BY <1>1, <2>1 DEF TypeOK, ClientTypeOK, HtmTypeOK, InTx
  <2>4. CASE InTx(t)
    <3>1. saved'[t] = saved[t] /\ Owned(t)' = Owned(t) /\ Elides(t)' = Elides(t)
      BY <2>1, <2>3, <2>4 DEF Owned, Elides
    <3>2. Book(t)'
      <4>1. depth'[t] = Cardinality(Elides(t)) + 1
        <5>1. IsFiniteSet(Elides(t)) /\ depth[t] = Cardinality(Elides(t)) + 0
          BY <1>1, <2>4 DEF ElisionBook
        <5> QED
          BY <2>3, <5>1, FS_CardinalityType
      <4>2. ElisionBook(t)'
        BY <1>1, <2>3, <2>4, <3>1, <4>1 DEF ElisionBook
      <4> QED
        BY <1>1, <2>3, <4>2 DEF Book
    <3> QED
      BY <1>1, <2>2, <3>1, <3>2, QuietStep
  <2>5. CASE ~InTx(t)
    <3>1. saved'[t].held = held[t] /\ saved'[t].lk = lk[t] /\ Owned(t)' = held[t]
      BY <1>1, <2>1, <2>3, <2>5 DEF Owned, TypeOK, HtmTypeOK
    <3>2. Elides(t)' = {}
      BY <2>3, <3>1 DEF Elides
    <3>3. depth'[t] = 1
      BY <1>1, <2>3, <2>5 DEF InTx, TypeOK, HtmTypeOK
    <3>4. Book(t)'
      <4>1. IsFiniteSet(Elides(t)') /\ Cardinality(Elides(t)') = 0
        BY <3>2, FS_EmptySet
      <4>2. ElisionBook(t)'
        BY <1>1, <2>3, <3>1, <3>2, <3>3, <4>1 DEF ElisionBook
      <4> QED
        BY <1>1, <2>3, <4>2 DEF Book
    <3> QED
      BY <1>1, <2>2, <2>5, <3>1, <3>4, QuietStep DEF Owned
  <2> QED
    BY <2>4, <2>5
<1>4. CASE ~InTx(t) /\ Goto(t, "abort") /\ UNCHANGED hardwareVars
  <2>1. Moves(t, "abort", lk[t], held[t])
    BY <1>1, <1>4, MovesForms
  <2>2. UNCHANGED <<depth, saved>> /\ OthersTyped
    BY <1>1, <1>4 DEF hardwareVars, TypeOK, HtmTypeOK, OthersTyped
  <2>3. \A k \in held[t] : k < lk[t]
    BY <1>1 DEF ElisionBook
  <2>4. TypeOK' /\ OnlyMoves(t) /\ Book(t)' /\ Owned(t) = held[t] /\ Owned(t)' = held[t]
    BY <1>1, <1>2, <1>4, <2>1, <2>2, <2>3, RealMove
  <2> QED
    BY <1>1, <2>4, QuietStep
<1> QED
  BY <1>3, <1>4 DEF Elide, EnterHtm

(* The word was read: one more lock is elided, or the thread waits for the  *)
(* transaction to abort.                                                   *)
LEMMA CheckStep ==
  ASSUME IInv, using = "tas_hle", NEW t \in Threads, CheckWord(t), UNCHANGED <<using, ready>>
  PROVE  IInv' /\ UNCHANGED Holds
<1>1. /\ TypeOK /\ WordTypeOK' /\ ElisionBook(t) /\ pc[t] = "check" /\ lk[t] \in Locks
      /\ held[t] \in SUBSET Locks /\ UNCHANGED <<val, spec_entry, tries, depth, saved, doomed>>
      /\ watch' = [watch EXCEPT ![t] = @ \cup {lk[t]}]
  BY DEF IInv, Book, TypeOK, ClientTypeOK, WordTypeOK, CheckWord, Watch
<1>2. /\ InTx(t) /\ InTx(t)' /\ IsFiniteSet(Elides(t)) /\ Owned(t) = saved[t].held
      /\ Owned(t)' = Owned(t) /\ depth[t] = Cardinality(Elides(t)) + 1
  BY <1>1 DEF ElisionBook, InTx, Owned
<1>3. "wait" \in Labels[using] /\ OthersTyped
  BY <1>1 DEF Labels, HleLabels, OthersTyped, TypeOK, HtmTypeOK
<1>4. CASE Moves(t, "client", Null, held[t] \cup {lk[t]})
  <2>1. TypeOK' /\ OnlyMoves(t)
    BY <1>1, <1>3, <1>4 DEF Moves, TypeOK, ClientTypeOK, HtmTypeOK, OthersTyped, OnlyMoves
  <2>2. pc'[t] = "client" /\ held'[t] = held[t] \cup {lk[t]}
    BY <1>1, <1>4 DEF Moves, TypeOK, ClientTypeOK
  <2>3. /\ \A k \in held[t] : k < lk[t]
        /\ saved[t].held \subseteq held[t]
        /\ \A k \in saved[t].held, j \in Elides(t) : k < j
        /\ saved[t].lk \in Locks /\ \A k \in saved[t].held : k < saved[t].lk
    BY <1>1, <1>2 DEF ElisionBook
  <2>4. lk[t] \notin held[t]
    <3>1. lk[t] \in Nat
      BY <1>1, LocksAssumption
    <3>2. ~(lk[t] < lk[t])
      BY <3>1
    <3> QED
      BY <2>3, <3>2
  <2>5. Elides(t)' = Elides(t) \cup {lk[t]} /\ lk[t] \notin Elides(t)
    BY <1>2, <2>2, <2>3, <2>4 DEF Elides
  <2>6. IsFiniteSet(Elides(t)') /\ Cardinality(Elides(t)') = Cardinality(Elides(t)) + 1
    BY <1>2, <2>5, FS_AddElement
  <2>7. depth'[t] = Cardinality(Elides(t)') + 0
    BY <1>1, <1>2, <2>6, FS_CardinalityType
  <2>8. \A k \in saved'[t].held, j \in Elides(t)' : k < j
    BY <1>1, <2>3, <2>5
  <2>9. ElisionBook(t)'
    BY <1>1, <1>2, <2>2, <2>3, <2>6, <2>7, <2>8 DEF ElisionBook
  <2>10. Book(t)'
    BY <2>2, <2>9 DEF Book
  <2> QED
    BY <1>1, <1>2, <2>1, <2>10, QuietStep
<1>5. CASE Moves(t, "wait", lk[t], held[t])
  <2>1. TypeOK' /\ OnlyMoves(t)
    BY <1>1, <1>3, <1>5 DEF Moves, TypeOK, ClientTypeOK, HtmTypeOK, OthersTyped, OnlyMoves
  <2>2. pc'[t] = "wait" /\ held'[t] = held[t] /\ lk'[t] = lk[t]
    BY <1>1, <1>5 DEF Moves, TypeOK, ClientTypeOK
  <2>3. Elides(t)' = Elides(t)
    BY <1>2, <2>2 DEF Elides
  <2>4. Book(t)'
    BY <1>1, <1>2, <2>2, <2>3 DEF Book, ElisionBook
  <2> QED
    BY <1>1, <1>2, <2>1, <2>4, QuietStep
<1> QED
  BY <1>1, <1>4, <1>5, MovesForms DEF CheckWord, WordTested

(* An unlock inside the transaction ends the level of the last lock elided; *)
(* with the last level the thread is back to what it really held.          *)
LEMMA EndElisionStep ==
  ASSUME IInv, using = "tas_hle", NEW t \in Threads, NEW l \in Locks,
         MayUnlock(t, l), \A k \in held[t] : k <= l, EndElision(t),
         CallReturning(t, held[t] \ {l}), UNCHANGED <<using, spec_entry, tries, ready>>
  PROVE  IInv' /\ UNCHANGED Holds
<1>1. /\ TypeOK /\ WordTypeOK' /\ ElisionBook(t) /\ pc[t] = "client" /\ l \in held[t]
      /\ held[t] \in SUBSET Locks /\ val' = val /\ InTx(t) /\ Owned(t) = saved[t].held
      /\ pc' = pc /\ lk' = lk /\ held' = [held EXCEPT ![t] = held[t] \ {l}]
      /\ saved[t].held \in SUBSET Locks
  BY DEF IInv, Book, TypeOK, ClientTypeOK, HtmTypeOK, WordTypeOK, MayUnlock, EndElision,
         CallReturning, Owned
<1>2. /\ IsFiniteSet(Elides(t)) /\ depth[t] = Cardinality(Elides(t)) /\ depth[t] \in Nat
      /\ depth[t] > 0
  BY <1>1, FS_CardinalityType DEF ElisionBook, InTx
<1>3. Elides(t) # {}
  BY <1>2, FS_EmptySet
<1>4. l \in Elides(t)
  <2>1. PICK j \in Elides(t) : TRUE
    BY <1>3
  <2>2. j \in held[t] /\ j <= l /\ j \in Nat /\ l \in Nat
    BY <1>1, <2>1, LocksAssumption DEF Elides
  <2>3. l \notin saved[t].held
    BY <1>1, <2>1, <2>2 DEF ElisionBook
  <2> QED
    BY <1>1, <2>3 DEF Elides
<1>5. held'[t] = held[t] \ {l}
  BY <1>1 DEF TypeOK, ClientTypeOK
<1>6. CASE /\ depth[t] > 1
           /\ depth' = [depth EXCEPT ![t] = @ - 1]
           /\ UNCHANGED <<saved, watch, doomed>>
  <2>1. TypeOK' /\ OnlyMoves(t)
    BY <1>1, <1>2, <1>6 DEF TypeOK, ClientTypeOK, HtmTypeOK, OnlyMoves
  <2>2. InTx(t)' /\ Owned(t)' = Owned(t) /\ depth'[t] = depth[t] - 1
    BY <1>1, <1>2, <1>6 DEF InTx, Owned, TypeOK, HtmTypeOK
  <2>3. Elides(t)' = Elides(t) \ {l}
    BY <1>1, <1>5, <2>2 DEF Elides
  <2>4. IsFiniteSet(Elides(t)') /\ Cardinality(Elides(t)') = depth[t] - 1
    BY <1>2, <1>4, <2>3, FS_RemoveElement
  <2>5. saved'[t].held \subseteq held'[t]
    BY <1>1, <1>4, <1>5, <1>6 DEF Elides, ElisionBook
  <2>6. depth'[t] = Cardinality(Elides(t)') + 0
    BY <1>2, <2>2, <2>4
  <2>7. \A k \in saved'[t].held, j \in Elides(t)' : k < j
    BY <1>1, <1>6, <2>3 DEF ElisionBook
  <2>8. saved'[t].lk \in Locks /\ \A k \in saved'[t].held : k < saved'[t].lk
    BY <1>1, <1>6 DEF ElisionBook
  <2>9. ElisionBook(t)'
    BY <1>1, <2>2, <2>4, <2>5, <2>6, <2>7, <2>8 DEF ElisionBook
  <2>10. Book(t)'
    BY <1>1, <2>9 DEF Book
  <2> QED
    BY <1>1, <2>1, <2>2, <2>10, QuietStep
<1>7. CASE depth[t] = 1 /\ LeaveTx(t)
  <2>1. TypeOK' /\ OnlyMoves(t)
    BY <1>1, <1>7 DEF TypeOK, ClientTypeOK, HtmTypeOK, OnlyMoves, LeaveTx, NoCheckpoint
  <2>2. ~InTx(t)'
    BY <1>1, <1>7 DEF InTx, LeaveTx, TypeOK, HtmTypeOK
  <2>3. Elides(t) = {l}
    <3>1. PICK x : Elides(t) = {x}
      BY <1>2, <1>7, FS_Singleton
    <3> QED
      BY <1>4, <3>1
  <2>4. Owned(t)' = Owned(t)
    BY <1>1, <1>5, <2>2, <2>3 DEF Elides, Owned, ElisionBook
  <2>5. Book(t)'
    BY <1>1, <2>2 DEF Book, ElisionBook
  <2> QED
    BY <1>1, <2>1, <2>4, <2>5, QuietStep
<1> QED
  BY <1>6, <1>7 DEF EndElision, XEnd
-----------------------------------------------------------------------------
(***************************************************************************)
(* The lock types, one after the other.                                    *)
(***************************************************************************)

LEMMA TypedIfUnchanged ==
  ASSUME TypeOK, UNCHANGED <<ready, htmVars>>
  PROVE  OthersTyped /\ UNCHANGED <<spec_entry, depth, saved>>
BY DEF TypeOK, HtmTypeOK, htmVars, OthersTyped

LEMMA TasKeeps ==
  ASSUME IInv, using = "tas", NEW t \in Threads, UNCHANGED <<using, ready, htmVars>>,
         TasStep(t) \/ \E l \in Locks : TasCall(t, l)
  PROVE  IInv' /\ [M!Next]_Holds
<1>1. ~InTx(t) /\ OthersTyped /\ UNCHANGED <<spec_entry, depth, saved>>
  BY TypedIfUnchanged DEF IInv, Book
<1>2. TasLabels \subseteq Labels[using] \ TxLabels
  BY DEF Labels, TasLabels, TxLabels
<1>3. CASE TasSpin(t)
  BY <1>1, <1>2, <1>3, TatasStep DEF TasSpin, TasLabels
<1>4. CASE TasTry(t)
  BY <1>1, <1>2, <1>4, TatasStep DEF TasTry, TasLabels
<1>5. ASSUME NEW l \in Locks, tas_lock(t, l) \/ tas_trylock(t, l)
      PROVE  IInv' /\ [M!Next]_Holds
  BY <1>1, <1>2, <1>5, CallStep DEF tas_lock, tas_trylock, MayLock, MayTrylock, TasLabels
<1>6. ASSUME NEW l \in Locks, tas_unlock(t, l)
      PROVE  IInv' /\ [M!Next]_Holds
  BY <1>1, <1>6, UnlockStep DEF tas_unlock, ReleaseWord, M!Next
<1> QED
  BY <1>3, <1>4, <1>5, <1>6 DEF TasStep, TasCall

LEMMA PthreadKeeps ==
  ASSUME IInv, using = "pthread", NEW t \in Threads, UNCHANGED <<using, ready, htmVars>>,
         PthreadStep(t) \/ \E l \in Locks : PthreadCall(t, l)
  PROVE  IInv' /\ [M!Next]_Holds
<1>1. ~InTx(t) /\ OthersTyped /\ UNCHANGED <<spec_entry, depth, saved>>
  BY TypedIfUnchanged DEF IInv, Book
<1>2. PthreadLabels \subseteq Labels[using] \ TxLabels
  BY DEF Labels, PthreadLabels, TxLabels
<1>3. ASSUME pc[t] \in PthreadLabels, MutexLock(lk[t]), Acquired(t)
      PROVE  IInv' /\ [M!Next]_Holds
  <2>1. lk[t] \in Locks
    BY <1>3 DEF IInv, Book, PthreadLabels
  <2> QED
    BY <1>1, <1>3, <2>1, TakeStep DEF MutexLock, PthreadLabels, M!Next
<1>4. ASSUME pc[t] \in PthreadLabels, MutexBusy(lk[t]), Refused(t)
      PROVE  IInv' /\ [M!Next]_Holds
  BY <1>1, <1>2, <1>4, GotoStep DEF MutexBusy, PthreadLabels
<1>5. ASSUME NEW l \in Locks, pthread_lock(t, l) \/ pthread_trylock(t, l)
      PROVE  IInv' /\ [M!Next]_Holds
  BY <1>1, <1>2, <1>5, CallStep
     DEF pthread_lock, pthread_trylock, MayLock, MayTrylock, PthreadLabels
<1>6. ASSUME NEW l \in Locks, pthread_unlock(t, l)
      PROVE  IInv' /\ [M!Next]_Holds
  BY <1>1, <1>6, UnlockStep DEF pthread_unlock, MutexUnlock, M!Next
<1> QED
  BY <1>3, <1>4, <1>5, <1>6
     DEF PthreadStep, PthreadCall, PthreadSleep, PthreadTry, PthreadLabels

(* The calls of the types that speculate: elided, or entered at a label.    *)
LEMMA CallUnlessElidedKeeps ==
  ASSUME IInv, using # "tas_hle", NEW t \in Threads, NEW l \in Locks, pc[t] = "client",
         NEW label \in Labels[using] \ TxLabels,
         CallUnlessElided(t, l, label), UNCHANGED <<using, val, ready>>
  PROVE  IInv' /\ [M!Next]_Holds
<1>1. CASE Elided(t, held[t] \cup {l})
  BY <1>1, ElidedStep DEF IInv, TypeOK, ClientTypeOK
<1>2. CASE /\ spec_entry[t] = Null
           /\ Call(t, l, label)
           /\ tries' = [tries EXCEPT ![t] = 0]
           /\ UNCHANGED <<spec_entry, hardwareVars>>
  <2>1. ~InTx(t)
    BY <1>2 DEF IInv, Book, FlagBook
  <2>2. OthersTyped /\ UNCHANGED <<spec_entry, depth, saved>>
    BY <1>2 DEF IInv, TypeOK, HtmTypeOK, hardwareVars, OthersTyped
  <2> QED
    BY <1>2, <2>1, <2>2, CallStep
<1> QED
  BY <1>1, <1>2 DEF CallUnlessElided

(* Their unlocks.                                                          *)
LEMMA UnlockUnlessElidedKeeps ==
  ASSUME IInv, using # "tas_hle", NEW t \in Threads, NEW l \in Locks, MayUnlock(t, l),
         \/ Elided(t, held[t] \ {l}) /\ UNCHANGED val
         \/ /\ spec_entry[t] = Null
            /\ val' = [val EXCEPT ![l] = 0]
            /\ CallReturning(t, held[t] \ {l})
            /\ UNCHANGED htmVars,
         UNCHANGED <<using, ready>>
  PROVE  IInv' /\ [M!Next]_Holds
<1>1. pc[t] = "client" /\ held[t] \ {l} \in SUBSET Locks /\ TypeOK
  BY DEF MayUnlock, IInv, TypeOK, ClientTypeOK
<1>2. CASE Elided(t, held[t] \ {l}) /\ UNCHANGED val
  BY <1>1, <1>2, ElidedStep
<1>3. CASE /\ spec_entry[t] = Null
           /\ val' = [val EXCEPT ![l] = 0]
           /\ CallReturning(t, held[t] \ {l})
           /\ UNCHANGED htmVars
  <2>1. ~InTx(t)
    BY <1>3 DEF IInv, Book, FlagBook
  <2>2. OthersTyped /\ UNCHANGED <<spec_entry, depth, saved>>
    BY <1>1, <1>3, TypedIfUnchanged
  <2> QED
    BY <1>3, <2>1, <2>2, UnlockStep DEF M!Next
<1> QED
  BY <1>2, <1>3

(* Inside their functions, a thread that has not aborted is in no           *)
(* transaction.                                                            *)
LEMMA FunctionsAreReal ==
  ASSUME IInv, using # "tas_hle", NEW t \in Threads, pc[t] # "client"
  PROVE  ~InTx(t)
BY DEF IInv, Book, FlagBook

(* enter_htm came back: one more try was used.                             *)
LEMMA FailedAndCountedKeeps ==
  ASSUME IInv, NEW t \in Threads, NEW label \in Labels[using] \ TxLabels,
         EnterHtmFailed(t, label), CountTry(t), UNCHANGED <<using, val, ready>>
  PROVE  IInv' /\ UNCHANGED Holds
<1>1. OthersTyped
  BY DEF EnterHtmFailed, CountTry, hardwareVars, IInv, TypeOK, HtmTypeOK, OthersTyped
<1> QED
  BY <1>1, FailedStep

LEMMA TasTmKeeps ==
  ASSUME IInv, using = "tas_tm", NEW t \in Threads, UNCHANGED <<using, ready>>,
         TasTmStep(t) \/ \E l \in Locks : TasTmCall(t, l)
  PROVE  IInv' /\ [M!Next]_Holds
<1>1. /\ TasTmLabels \ TxLabels \subseteq Labels[using] \ TxLabels
      /\ "abort" \in Labels[using]
  BY DEF Labels, TasTmLabels, TxLabels
<1>2. ASSUME UNCHANGED htmVars, pc[t] # "client",
             \/ Tatas(t, "lock", "lock_swap", Acquired(t), Goto(t, "enter"))
             \/ Tatas(t, "spin", "spin_swap", Acquired(t), Goto(t, "spin"))
             \/ Tatas(t, "try", "try_swap", Acquired(t), Refused(t))
      PROVE  IInv' /\ [M!Next]_Holds
  <2>1. ~InTx(t) /\ OthersTyped /\ UNCHANGED <<spec_entry, depth, saved>>
    BY <1>2, FunctionsAreReal, TypedIfUnchanged DEF IInv
  <2>2. {"lock", "lock_swap", "spin", "spin_swap", "try", "try_swap", "enter"}
          \subseteq Labels[using] \ TxLabels
    BY <1>1 DEF TasTmLabels, TxLabels
  <2> QED
    BY <1>2, <2>1, <2>2, TatasStep
<1>3. CASE TasTmTake(t) \/ TasTmSpin(t) \/ TasTmTry(t)
  BY <1>2, <1>3 DEF TasTmTake, TasTmSpin, TasTmTry, Tatas
<1>4. CASE TasTmSpeculate(t)
  BY <1>1, <1>4, SpeculateStep DEF TasTmSpeculate
<1>5. CASE TasTmFailed(t)
  BY <1>1, <1>5, FailedAndCountedKeeps DEF TasTmFailed, TasTmLabels, TxLabels
<1>6. ASSUME NEW l \in Locks, tas_lock_tm(t, l) \/ tas_trylock_tm(t, l)
      PROVE  IInv' /\ [M!Next]_Holds
  BY <1>1, <1>6, CallUnlessElidedKeeps
     DEF tas_lock_tm, tas_trylock_tm, MayLock, MayTrylock, TasTmLabels, TxLabels
<1>7. ASSUME NEW l \in Locks, tas_unlock_tm(t, l)
      PROVE  IInv' /\ [M!Next]_Holds
  BY <1>7, UnlockUnlessElidedKeeps DEF tas_unlock_tm, ReleaseWord
<1> QED
  BY <1>3, <1>4, <1>5, <1>6, <1>7 DEF TasTmStep, TasTmCall

LEMMA PthreadTmKeeps ==
  ASSUME IInv, using = "pthread_tm", NEW t \in Threads, UNCHANGED <<using, ready>>,
         PthreadTmStep(t) \/ \E l \in Locks : PthreadTmCall(t, l)
  PROVE  IInv' /\ [M!Next]_Holds
<1>1. /\ {"lock", "enter", "sleep", "try"} \subseteq Labels[using] \ TxLabels
      /\ "abort" \in Labels[using]
  BY DEF Labels, PthreadTmLabels, TxLabels
<1>2. ASSUME UNCHANGED htmVars, pc[t] \in {"lock", "sleep", "try"},
             \/ MutexLock(lk[t]) /\ Acquired(t)
             \/ MutexBusy(lk[t]) /\ (Goto(t, "enter") \/ Refused(t))
      PROVE  IInv' /\ [M!Next]_Holds
  <2>1. ~InTx(t) /\ OthersTyped /\ UNCHANGED <<spec_entry, depth, saved>>
    BY <1>2, FunctionsAreReal, TypedIfUnchanged DEF IInv
  <2>2. lk[t] \in Locks
    BY <1>2 DEF IInv, Book
  <2>3. CASE MutexLock(lk[t]) /\ Acquired(t)
    BY <1>2, <2>1, <2>2, <2>3, TakeStep DEF MutexLock, M!Next
  <2>4. CASE MutexBusy(lk[t]) /\ (Goto(t, "enter") \/ Refused(t))
    BY <1>1, <1>2, <2>1, <2>4, GotoStep DEF MutexBusy
  <2> QED
    BY <1>2, <2>3, <2>4
<1>3. CASE PthreadTmTake(t) \/ PthreadTmSleep(t) \/ PthreadTmTry(t)
  BY <1>2, <1>3 DEF PthreadTmTake, PthreadTmSleep, PthreadTmTry
<1>4. CASE PthreadTmSpeculate(t)
  BY <1>1, <1>4, SpeculateStep DEF PthreadTmSpeculate
<1>5. CASE PthreadTmFailed(t)
  BY <1>1, <1>5, FailedAndCountedKeeps DEF PthreadTmFailed
<1>6. ASSUME NEW l \in Locks, pthread_lock_tm(t, l) \/ pthread_trylock_tm(t, l)
      PROVE  IInv' /\ [M!Next]_Holds
  BY <1>1, <1>6, CallUnlessElidedKeeps
     DEF pthread_lock_tm, pthread_trylock_tm, MayLock, MayTrylock
<1>7. ASSUME NEW l \in Locks, pthread_unlock_tm(t, l)
      PROVE  IInv' /\ [M!Next]_Holds
  BY <1>7, UnlockUnlessElidedKeeps DEF pthread_unlock_tm, MutexUnlock
<1> QED
  BY <1>3, <1>4, <1>5, <1>6, <1>7 DEF PthreadTmStep, PthreadTmCall

LEMMA PriorityKeeps ==
  ASSUME IInv, using = "tas_priority_tm", NEW t \in Threads, UNCHANGED using,
         PriorityStep(t) \/ \E l \in Locks : PriorityCall(t, l)
  PROVE  IInv' /\ [M!Next]_Holds
<1>1. /\ {"read", "test", "swap", "enter", "promote", "prio", "prio_swap", "demote", "try",
          "try_test", "try_swap"} \subseteq Labels[using] \ TxLabels
      /\ "abort" \in Labels[using]
  BY DEF Labels, PriorityLabels, TxLabels
<1>2. ASSUME UNCHANGED <<ready, htmVars>>, pc[t] # "client",
             \/ Tatas(t, "test", "swap", Acquired(t), Goto(t, "enter"))
             \/ Tatas(t, "test", "swap", Acquired(t), Goto(t, "read"))
             \/ Tatas(t, "prio", "prio_swap", PrioAcquired(t), Goto(t, "prio"))
             \/ Tatas(t, "try_test", "try_swap", Acquired(t), Refused(t))
      PROVE  IInv' /\ [M!Next]_Holds
  <2>1. ~InTx(t) /\ OthersTyped /\ UNCHANGED <<spec_entry, depth, saved>>
    BY <1>2, FunctionsAreReal, TypedIfUnchanged DEF IInv
  <2> QED
    BY <1>1, <1>2, <2>1, TatasStep
<1>3. CASE PriorityTake(t) \/ PriorityWait(t) \/ PriorityTry(t)
  BY <1>2, <1>3 DEF PriorityTake, PriorityWait, PriorityTry, Tatas
<1>4. ASSUME NEW label \in {"read", "test", "enter", "prio", "try_test"},
             Goto(t, label) \/ Refused(t), pc[t] \notin {"client", "abort"},
             UNCHANGED <<val, htmVars>>, ready' \in [Locks -> Int]
      PROVE  IInv' /\ [M!Next]_Holds
  <2>1. ~InTx(t) /\ OthersTyped /\ UNCHANGED <<spec_entry, depth, saved>>
    BY <1>4, FunctionsAreReal DEF htmVars, OthersTyped, IInv, TypeOK, HtmTypeOK
  <2> QED
    BY <1>1, <1>4, <2>1, GotoStep
<1>5. TypeOK /\ ready \in [Locks -> Int]
  BY DEF IInv, TypeOK
<1>6. CASE PriorityRead(t)
  <2>1. PICK label \in {"read", "test", "enter"} : Goto(t, label)
    BY <1>6 DEF PriorityRead
  <2> QED
    BY <1>4, <1>5, <1>6, <2>1 DEF PriorityRead
<1>7. CASE Promote(t)
  <2>1. pc[t] = "promote" /\ Goto(t, "prio")
    BY <1>7 DEF Promote
  <2>2. lk[t] \in Locks
    BY <2>1 DEF IInv, Book
  <2>3. ready[lk[t]] + 1 \in Int
    BY <1>5, <2>2
  <2>4. ready' \in [Locks -> Int]
    BY <1>5, <1>7, <2>2, <2>3 DEF Promote
  <2> QED
    BY <1>4, <1>7, <2>1, <2>4 DEF Promote
<1>8. CASE Demote(t)
  <2>1. pc[t] = "demote" /\ Refused(t)
    BY <1>8 DEF Demote, Refused
  <2>2. lk[t] \in Locks
    BY <2>1 DEF IInv, Book
  <2>3. ready[lk[t]] - 1 \in Int
    BY <1>5, <2>2
  <2>4. ready' \in [Locks -> Int]
    BY <1>5, <1>8, <2>2, <2>3 DEF Demote
  <2> QED
    BY <1>4, <1>8, <2>1, <2>4 DEF Demote
<1>9. CASE PriorityTryRead(t)
  BY <1>4, <1>5, <1>9 DEF PriorityTryRead
<1>10. CASE PrioritySpeculate(t)
  BY <1>1, <1>10, SpeculateStep DEF PrioritySpeculate
<1>11. CASE PriorityFailed(t)
  <2>1. OthersTyped
    BY <1>11 DEF PriorityFailed, EnterHtmFailed, hardwareVars, IInv, TypeOK, HtmTypeOK,
                 OthersTyped
  <2> QED
    BY <1>1, <1>11, <2>1, FailedStep DEF PriorityFailed
<1>12. ASSUME NEW l \in Locks, tas_priority_lock_tm(t, l) \/ tas_priority_trylock_tm(t, l)
       PROVE  IInv' /\ [M!Next]_Holds
  BY <1>1, <1>12, CallUnlessElidedKeeps
     DEF tas_priority_lock_tm, tas_priority_trylock_tm, MayLock, MayTrylock
<1>13. ASSUME NEW l \in Locks, tas_priority_unlock_tm(t, l)
       PROVE  IInv' /\ [M!Next]_Holds
  BY <1>13, UnlockUnlessElidedKeeps DEF tas_priority_unlock_tm, ReleaseWord
<1> QED
  BY <1>3, <1>6, <1>7, <1>8, <1>9, <1>10, <1>11, <1>12, <1>13 DEF PriorityStep, PriorityCall

LEMMA HleKeeps ==
  ASSUME IInv, using = "tas_hle", NEW t \in Threads, UNCHANGED <<using, ready>>,
         HleStep(t) \/ \E l \in Locks : HleCall(t, l)
  PROVE  IInv' /\ [M!Next]_Holds
<1>1. {"enter", "spin", "spin_swap"} \subseteq Labels[using] \ TxLabels
  BY DEF Labels, HleLabels, TxLabels
<1>2. TypeOK /\ ElisionBook(t) /\ Nested
  BY DEF IInv, Book, NestsIfElided
<1>3. CASE Elide(t)
  BY <1>3, ElideStep
<1>4. CASE CheckWord(t)
  BY <1>4, CheckStep
<1>5. CASE ElisionFailed(t)
  BY <1>1, <1>5, FailedAndCountedKeeps DEF ElisionFailed
<1>6. CASE HleSpin(t)
  <2>1. ~InTx(t)
    BY <1>2, <1>6 DEF ElisionBook, HleSpin, Tatas
  <2>2. UNCHANGED <<spec_entry, depth, saved>> /\ OthersTyped
    BY <1>2, <1>6 DEF HleSpin, Doom, OthersTyped, TypeOK, HtmTypeOK
  <2> QED
    BY <1>1, <1>6, <2>1, <2>2, TatasStep DEF HleSpin
<1>7. ASSUME NEW l \in Locks, tas_lock_hle(t, l)
      PROVE  IInv' /\ [M!Next]_Holds
  <2>1. /\ MayLock(t, l) /\ Call(t, l, "enter") /\ UNCHANGED <<val, spec_entry, depth, saved>>
        /\ pc[t] = "client" /\ \A k \in held[t] : k < l
    BY <1>7 DEF tas_lock_hle, hardwareVars, MayLock
  <2>2. OthersTyped
    BY <1>2, <1>7 DEF tas_lock_hle, hardwareVars, OthersTyped, TypeOK, HtmTypeOK
  <2>3. CASE InTx(t)
    BY <2>1, <2>2, <2>3, NestedCallStep
  <2>4. CASE ~InTx(t)
    BY <1>1, <2>1, <2>2, <2>4, CallStep
  <2> QED
    BY <2>3, <2>4
<1>8. ASSUME NEW l \in Locks, tas_unlock_hle(t, l)
      PROVE  IInv' /\ [M!Next]_Holds
  <2>1. /\ MayUnlock(t, l) /\ \A k \in held[t] : k <= l
        /\ CallReturning(t, held[t] \ {l}) /\ UNCHANGED <<spec_entry, tries>>
    BY <1>2, <1>8 DEF tas_unlock_hle
  <2>2. CASE EndElision(t)
    BY <2>1, <2>2, EndElisionStep
  <2>3. CASE WriteBack(t, l)
    <3>1. ~InTx(t) /\ val' = [val EXCEPT ![l] = 0] /\ UNCHANGED <<depth, saved>> /\ OthersTyped
      BY <1>2, <2>1, <2>3 DEF WriteBack, ReleaseWord, Doom, OthersTyped, TypeOK, HtmTypeOK
    <3> QED
      BY <2>1, <3>1, UnlockStep DEF M!Next
  <2> QED
    BY <1>8, <2>2, <2>3 DEF tas_unlock_hle
<1> QED
  BY <1>3, <1>4, <1>5, <1>6, <1>7, <1>8 DEF HleStep, HleCall

-----------------------------------------------------------------------------
(***************************************************************************)
(* The library.                                                            *)
(***************************************************************************)

LEMMA InitInvariant == Init /\ NestsIfElided => IInv /\ M!Init
<1> SUFFICES ASSUME Init, NestsIfElided PROVE IInv /\ M!Init
  OBVIOUS
<1> USE DEF Init, ClientInit, WordInit, HtmInit, PriorityInit
<1>1. TypeOK
  <2>1. using \in LockTypes
    BY DEF Selected, LockTypes
  <2>2. ClientTypeOK(Labels[using]) /\ WordTypeOK /\ HtmTypeOK /\ ready \in [Locks -> Int]
    BY DEF ClientTypeOK, WordTypeOK, HtmTypeOK, NoCheckpoint
  <2> QED
    BY <2>1, <2>2 DEF TypeOK
<1>2. ASSUME NEW t \in Threads PROVE ~InTx(t)
  <2>1. depth[t] = 0
    OBVIOUS
  <2> QED
    BY <2>1 DEF InTx
<1>3. \A t \in Threads : Owned(t) = {} /\ Book(t)
  BY <1>2 DEF Owned, Book, FlagBook, ElisionBook
<1> QED
  BY <1>1, <1>3 DEF IInv, WordHasOneOwner, M!Init

(* Every step keeps the invariant, and is a step of the abstract mutex or   *)
(* leaves it alone.                                                        *)
LEMMA StepKeepsInvariant ==
  ASSUME IInv, [Next]_vars
  PROVE  IInv' /\ [M!Next]_Holds
<1>1. ASSUME NEW t \in Threads, Step(t) \/ \E l \in Locks : ClientCall(t, l)
      PROVE  IInv' /\ [M!Next]_Holds
  <2>1. /\ UNCHANGED using
        /\ using \in LockTypes
    BY <1>1 DEF Step, ClientCall, IInv, TypeOK
  <2>2. CASE using = "tas"
    BY <1>1, <2>1, <2>2, TasKeeps DEF Step, ClientCall
  <2>3. CASE using = "tas_tm"
    BY <1>1, <2>1, <2>3, TasTmKeeps DEF Step, ClientCall
  <2>4. CASE using = "tas_priority_tm"
    BY <1>1, <2>1, <2>4, PriorityKeeps DEF Step, ClientCall
  <2>5. CASE using = "tas_hle"
    BY <1>1, <2>1, <2>5, HleKeeps DEF Step, ClientCall
  <2>6. CASE using = "pthread"
    BY <1>1, <2>1, <2>6, PthreadKeeps DEF Step, ClientCall
  <2>7. CASE using = "pthread_tm"
    BY <1>1, <2>1, <2>7, PthreadTmKeeps DEF Step, ClientCall
  <2> QED
    BY <2>1, <2>2, <2>3, <2>4, <2>5, <2>6, <2>7 DEF LockTypes
<1>2. CASE UNCHANGED vars
  <2>1. TypeOK' /\ NestsIfElided' /\ WordHasOneOwner' /\ \A t \in Threads : Book(t)'
    BY <1>2 DEF vars, htmVars, IInv, TypeOK, ClientTypeOK, WordTypeOK, HtmTypeOK,
                NestsIfElided, WordHasOneOwner, Book, FlagBook, ElisionBook, Elides, Owned, InTx
  <2>2. UNCHANGED Holds
    BY <1>2 DEF vars, htmVars, Holds, Owned, InTx
  <2> QED
    BY <2>1, <2>2 DEF IInv
<1> QED
  BY <1>1, <1>2, AbortStep DEF Next

-----------------------------------------------------------------------------
(***************************************************************************)
(* What tas_hle watches, and what it commits.                              *)
(***************************************************************************)

(* Only t moves, and a transaction is doomed when a word that it watches     *)
(* changes.                                                                *)
WarnedStep(t) ==
  \A u \in Threads \ {t} :
    /\ held'[u] = held[u] /\ depth'[u] = depth[u] /\ saved'[u] = saved[u]
    /\ watch'[u] = watch[u] /\ (doomed[u] => doomed'[u])
    /\ ~doomed'[u] => \A l \in watch[u] : val'[l] = val[l]

(* What ElisionsAreWatched says of t.                                      *)
Watched(t) == InTx(t) /\ ~doomed[t] => \A l \in Elides(t) : l \in watch[t] /\ val[l] = 0

LEMMA WatchedStep ==
  ASSUME using = "tas_hle", ElisionsAreWatched, NEW t \in Threads, UNCHANGED using,
         WarnedStep(t), Watched(t)'
  PROVE  ElisionsAreWatched'
<1>1. ASSUME NEW u \in Threads \ {t} PROVE Watched(u)'
  <2>1. InTx(u)' = InTx(u) /\ Elides(u)' = Elides(u)
    BY DEF WarnedStep, InTx, Elides, Owned
  <2>2. Watched(u)
    BY DEF ElisionsAreWatched, Watched
  <2>3. /\ watch'[u] = watch[u] /\ (doomed[u] => doomed'[u])
        /\ ~doomed'[u] => \A l \in watch[u] : val'[l] = val[l]
    BY DEF WarnedStep
  <2> QED
    BY <2>1, <2>2, <2>3 DEF Watched
<1> QED
  BY <1>1 DEF ElisionsAreWatched, Watched

(* No word, no set of elided or watched locks changes.                     *)
LEMMA ElisionsStay ==
  ASSUME ElisionsAreWatched,
         UNCHANGED <<using, val, held, depth, saved, watch, doomed>>
  PROVE  ElisionsAreWatched'
BY DEF ElisionsAreWatched, InTx, Elides, Owned

(* A word changes outside transactions, and those that watch it are warned.  *)
LEMMA WordChanges ==
  ASSUME IInv, using = "tas_hle", ElisionsAreWatched, NEW t \in Threads, ~InTx(t),
         NEW locks \in SUBSET Locks, held' = [held EXCEPT ![t] = locks],
         WordTypeOK', Doom(Changed), UNCHANGED using
  PROVE  ElisionsAreWatched'
<1>1. /\ held \in [Threads -> SUBSET Locks] /\ watch \in [Threads -> SUBSET Locks]
      /\ doomed \in [Threads -> BOOLEAN]
      /\ doomed' = [u \in Threads |-> doomed[u] \/ watch[u] \cap Changed # {}]
      /\ UNCHANGED <<depth, saved, watch>>
  BY DEF IInv, TypeOK, ClientTypeOK, HtmTypeOK, Doom
<1>2. ASSUME NEW u \in Threads, ~doomed'[u], NEW l \in watch[u] PROVE val'[l] = val[l]
  BY <1>1, <1>2 DEF Changed
<1>3. WarnedStep(t)
  BY <1>1, <1>2 DEF WarnedStep
<1>4. Watched(t)'
  BY <1>1 DEF Watched, InTx
<1> QED
  BY <1>3, <1>4, WatchedStep

LEMMA ElisionsKeepWatch ==
  ASSUME IInv, ElisionsAreWatched, [Next]_vars
  PROVE  ElisionsAreWatched'
<1>1. CASE using # "tas_hle" \/ UNCHANGED vars
  BY <1>1 DEF Next, Step, TxAbort, ClientCall, ElisionsAreWatched, vars, htmVars, InTx, Elides,
              Owned
<1> SUFFICES ASSUME using = "tas_hle", NEW t \in Threads,
                    \/ HleStep(t) \/ TxAbort(t)
                    \/ \E l \in Locks : HleCall(t, l),
                    UNCHANGED <<using, ready>>
             PROVE  ElisionsAreWatched'
  BY <1>1 DEF Next, Step, TxAbort, ClientCall
<1>2. /\ TypeOK /\ ElisionBook(t) /\ held[t] \in SUBSET Locks /\ WordTypeOK' /\ Watched(t)
      /\ val \in [Locks -> {0, 1}]
  BY StepKeepsInvariant DEF IInv, Book, TypeOK, ClientTypeOK, WordTypeOK, ElisionsAreWatched,
     Watched, Next, Step, TxAbort, ClientCall
<1>3. CASE TxAbort(t)
  <2>1. UNCHANGED val /\ ~InTx(t)' /\ WarnedStep(t)
    BY <1>2, <1>3 DEF TxAbort, Abort, LeaveTx, InTx, WarnedStep, TypeOK, ClientTypeOK, HtmTypeOK
  <2> QED
    BY <2>1, WatchedStep DEF Watched
<1>4. CASE Elide(t)
  <2>1. UNCHANGED <<val, held, watch, doomed>>
    BY <1>4 DEF Elide, EnterHtm, XBegin, Goto, hardwareVars
  <2>2. CASE UNCHANGED <<depth, saved>>
    BY <2>1, <2>2, ElisionsStay
  <2>3. CASE XBegin(t)
    <3>1. WarnedStep(t)
      BY <1>2, <2>1, <2>3 DEF XBegin, WarnedStep, TypeOK, HtmTypeOK
    <3>2. CASE InTx(t)
      <4>1. saved' = saved
        BY <2>3, <3>2 DEF XBegin
      <4>2. Elides(t)' = Elides(t)
        <5>1. InTx(t)'
          BY <1>2, <2>3, <3>2 DEF XBegin, InTx, TypeOK, HtmTypeOK
        <5> QED
          BY <2>1, <3>2, <4>1, <5>1 DEF Elides, Owned
      <4> QED
        BY <1>2, <2>1, <3>1, <3>2, <4>2, WatchedStep DEF Watched
    <3>3. CASE ~InTx(t)
      <4>1. saved'[t].held = held[t] /\ InTx(t)'
        BY <1>2, <2>3, <3>3 DEF XBegin, InTx, TypeOK, HtmTypeOK
      <4>2. Elides(t)' = {}
        BY <2>1, <4>1 DEF Elides, Owned
      <4> QED
        BY <3>1, <4>2, WatchedStep DEF Watched
    <3> QED
      BY <3>2, <3>3
  <2> QED
    BY <1>4, <2>2, <2>3 DEF Elide, EnterHtm, hardwareVars
<1>5. CASE ElisionFailed(t)
  BY <1>5, ElisionsStay DEF ElisionFailed, EnterHtmFailed, hardwareVars, Goto
<1>6. CASE CheckWord(t)
  <2>1. /\ InTx(t) /\ lk[t] \in Locks /\ UNCHANGED <<val, depth, saved, doomed>>
        /\ watch' = [watch EXCEPT ![t] = @ \cup {lk[t]}]
    BY <1>2, <1>6 DEF CheckWord, Watch, ElisionBook, IInv, Book
  <2>2. watch'[t] = watch[t] \cup {lk[t]} /\ InTx(t)' = InTx(t) /\ Owned(t)' = saved[t].held
    BY <1>2, <2>1 DEF TypeOK, HtmTypeOK, InTx, Owned
  <2>3. \/ val[lk[t]] = 0 /\ held' = [held EXCEPT ![t] = @ \cup {lk[t]}]
        \/ held' = held
    BY <1>2, <1>6 DEF CheckWord, WordTested, Acquired, Return, Goto, TypeOK, ClientTypeOK
  <2>4. WarnedStep(t)
    BY <1>2, <2>1, <2>3 DEF WarnedStep, TypeOK, ClientTypeOK, HtmTypeOK
  <2>5. Elides(t)' = Elides(t) \/ (val[lk[t]] = 0 /\ Elides(t)' \subseteq Elides(t) \cup {lk[t]})
    BY <1>2, <2>1, <2>2, <2>3 DEF Elides, Owned, TypeOK, ClientTypeOK
  <2>6. Watched(t)'
    BY <1>2, <2>1, <2>2, <2>5 DEF Watched
  <2> QED
    BY <2>4, <2>6, WatchedStep
<1>7. CASE HleSpin(t)
  <2>1. ~InTx(t) /\ lk[t] \in Locks
    BY <1>2, <1>7 DEF ElisionBook, HleSpin, Tatas, IInv, Book
  <2>2. PICK locks \in SUBSET Locks : held' = [held EXCEPT ![t] = locks]
    BY <1>2, <1>7, <2>1 DEF HleSpin, Tatas, Acquired, Return, Goto, TypeOK, ClientTypeOK
  <2> QED
    BY <1>2, <1>7, <2>1, <2>2, WordChanges DEF HleSpin
<1>8. ASSUME NEW l \in Locks, tas_lock_hle(t, l) PROVE ElisionsAreWatched'
  BY <1>8, ElisionsStay DEF tas_lock_hle, hardwareVars, Call
<1>9. ASSUME NEW l \in Locks, tas_unlock_hle(t, l) PROVE ElisionsAreWatched'
  <2>1. held' = [held EXCEPT ![t] = held[t] \ {l}] /\ held[t] \ {l} \in SUBSET Locks
    BY <1>2, <1>9 DEF tas_unlock_hle, CallReturning
  <2>2. CASE WriteBack(t, l)
    BY <1>2, <2>1, <2>2, WordChanges DEF WriteBack
  <2>3. CASE EndElision(t)
    <3>1. InTx(t) /\ UNCHANGED val
      BY <2>3 DEF EndElision
    <3>2. CASE /\ depth[t] > 1
               /\ depth' = [depth EXCEPT ![t] = @ - 1]
               /\ UNCHANGED <<saved, watch, doomed>>
      <4>1. WarnedStep(t)
        BY <1>2, <2>1, <3>1, <3>2 DEF WarnedStep, TypeOK, ClientTypeOK, HtmTypeOK
      <4>2. Elides(t)' \subseteq Elides(t)
        <5>1. InTx(t)' /\ held'[t] = held[t] \ {l}
          BY <1>2, <2>1, <3>2 DEF InTx, TypeOK, HtmTypeOK, ClientTypeOK
        <5> QED
          BY <3>1, <3>2, <5>1 DEF Elides, Owned
      <4> QED
        BY <1>2, <3>1, <3>2, <4>1, <4>2, WatchedStep DEF Watched
    <3>3. CASE depth[t] = 1 /\ LeaveTx(t)
      <4>1. ~InTx(t)' /\ WarnedStep(t)
        BY <1>2, <2>1, <3>1, <3>3 DEF LeaveTx, InTx, WarnedStep, TypeOK, ClientTypeOK, HtmTypeOK
      <4> QED
        BY <4>1, WatchedStep DEF Watched
    <3> QED
      BY <2>3, <3>2, <3>3 DEF EndElision, XEnd
  <2> QED
    BY <1>9, <2>2, <2>3 DEF tas_unlock_hle
<1> QED
  BY <1>3, <1>4, <1>5, <1>6, <1>7, <1>8, <1>9 DEF HleStep, HleCall

(* A transaction is left by an abort, or by an unlock of tas_hle.            *)
LEMMA WhoLeavesTx ==
  ASSUME TypeOK, [Next]_vars, NEW t \in Threads, InTx(t), ~InTx(t)'
  PROVE  \/ TxAbort(t)
         \/ using = "tas_hle" /\ \E l \in Locks : tas_unlock_hle(t, l) /\ EndElision(t)
<1> DEFINE Keeps(u) == UNCHANGED depth \/ depth' = [depth EXCEPT ![u] = @ + 1]
<1>1. ASSUME NEW u \in Threads, Keeps(u) PROVE FALSE
  BY <1>1 DEF InTx, TypeOK, HtmTypeOK
<1>2. ~UNCHANGED vars
  BY <1>1 DEF vars, htmVars
<1>3. PICK u \in Threads : Step(u) \/ TxAbort(u) \/ \E l \in Locks : ClientCall(u, l)
  BY <1>2 DEF Next
<1>4. ASSUME Step(u) PROVE FALSE
  <2>1. UNCHANGED htmVars => Keeps(u)
    BY DEF htmVars
  <2>2. \A e, Started : EnterHtm(u, e, Started) => Keeps(u)
    BY DEF EnterHtm, XBegin, hardwareVars
  <2>3. \A label : EnterHtmFailed(u, label) => Keeps(u)
    BY DEF EnterHtmFailed, hardwareVars
  <2>4. \A l : Watch(u, l) => Keeps(u)
    BY DEF Watch
  <2>5. Doom(Changed) => Keeps(u)
    BY DEF Doom
  <2> HIDE DEF Keeps
  <2>6. CASE UNCHANGED htmVars
    BY <1>1, <2>1, <2>6
  <2>7. CASE TasTmStep(u)
    BY <1>1, <2>1, <2>2, <2>3, <2>7
    DEF TasTmStep, TasTmTake, TasTmSpeculate, TasTmFailed, TasTmSpin, TasTmTry
  <2>8. CASE PthreadTmStep(u)
    BY <1>1, <2>1, <2>2, <2>3, <2>8
    DEF PthreadTmStep, PthreadTmTake, PthreadTmSpeculate, PthreadTmFailed, PthreadTmSleep,
        PthreadTmTry
  <2>9. CASE PriorityStep(u)
    BY <1>1, <2>1, <2>2, <2>3, <2>9
    DEF PriorityStep, PriorityRead, PriorityTake, PrioritySpeculate, PriorityFailed, Promote,
        PriorityWait, Demote, PriorityTryRead, PriorityTry
  <2>10. CASE HleStep(u)
    BY <1>1, <2>2, <2>3, <2>4, <2>5, <2>10 DEF HleStep, Elide, ElisionFailed, CheckWord, HleSpin
  <2> QED
    BY <1>4, <2>6, <2>7, <2>8, <2>9, <2>10 DEF Step
<1>5. CASE TxAbort(u)
  <2>1. u = t
    BY <1>5 DEF TxAbort, Abort, LeaveTx, InTx, TypeOK, HtmTypeOK
  <2> QED
    BY <1>5, <2>1
<1>6. ASSUME NEW l \in Locks, ClientCall(u, l)
      PROVE  using = "tas_hle" /\ tas_unlock_hle(u, l) /\ EndElision(u) /\ u = t
  <2>1. UNCHANGED depth => FALSE
    BY <1>1
  <2>2. UNCHANGED htmVars => FALSE
    BY <2>1 DEF htmVars
  <2>3. using = "tas_hle" /\ tas_unlock_hle(u, l)
    <3>1. \A label : ~CallUnlessElided(u, l, label)
      BY <2>1, <2>2 DEF CallUnlessElided, Elided, hardwareVars
    <3>2. \A locks : ~Elided(u, locks)
      BY <2>2 DEF Elided
    <3>3. ~TasTmCall(u, l)
      BY <2>2, <3>1, <3>2 DEF TasTmCall, tas_lock_tm, tas_trylock_tm, tas_unlock_tm
    <3>4. ~PthreadTmCall(u, l)
      BY <2>2, <3>1, <3>2 DEF PthreadTmCall, pthread_lock_tm, pthread_trylock_tm, pthread_unlock_tm
    <3>5. ~PriorityCall(u, l)
      BY <2>2, <3>1, <3>2
      DEF PriorityCall, tas_priority_lock_tm, tas_priority_trylock_tm, tas_priority_unlock_tm
    <3>6. ~tas_lock_hle(u, l)
      BY <2>1 DEF tas_lock_hle, hardwareVars
    <3> QED
      BY <1>6, <2>2, <3>3, <3>4, <3>5, <3>6 DEF ClientCall, HleCall
  <2>4. EndElision(u)
    BY <2>1, <2>3 DEF tas_unlock_hle, WriteBack, Doom
  <2>5. u = t
    BY <2>4 DEF EndElision, XEnd, LeaveTx, InTx, TypeOK, HtmTypeOK
  <2> QED
    BY <2>3, <2>4, <2>5
<1> QED
  BY <1>3, <1>4, <1>5, <1>6

(* When the last level of a transaction commits, it elides one lock, which   *)
(* is given back.                                                          *)
LEMMA CommitRestores ==
  ASSUME IInv, [Next]_vars, NEW t \in Threads, InTx(t), ~InTx(t)', pc'[t] # "abort"
  PROVE  held'[t] = saved[t].held
<1>1. TypeOK /\ NestsIfElided /\ Book(t)
  BY DEF IInv
<1>2. CASE TxAbort(t)
  BY <1>1, <1>2 DEF TxAbort, Abort, TypeOK, ClientTypeOK
<1>3. ASSUME using = "tas_hle", NEW l \in Locks, tas_unlock_hle(t, l), EndElision(t)
      PROVE  held'[t] = saved[t].held
  <2>1. /\ ElisionBook(t) /\ pc[t] = "client" /\ l \in held[t] /\ \A k \in held[t] : k <= l
        /\ held[t] \in SUBSET Locks /\ held'[t] = held[t] \ {l}
    BY <1>1, <1>3 DEF Book, NestsIfElided, tas_unlock_hle, MayUnlock, CallReturning, TypeOK,
                      ClientTypeOK
  <2>2. depth[t] = 1 /\ Owned(t) = saved[t].held
    BY <1>1, <1>3 DEF EndElision, XEnd, InTx, TypeOK, HtmTypeOK, Owned
  <2>3. IsFiniteSet(Elides(t)) /\ depth[t] = Cardinality(Elides(t)) + 0
    BY <2>1 DEF ElisionBook
  <2>4. Cardinality(Elides(t)) = 1
    BY <2>2, <2>3, FS_CardinalityType
  <2>5. PICK j : Elides(t) = {j}
    BY <2>3, <2>4, FS_Singleton
  <2>6. j = l
    <3>1. j \in held[t] /\ j <= l /\ j \in Nat /\ l \in Nat
      BY <2>1, <2>5, LocksAssumption DEF Elides
    <3>2. l \notin saved[t].held
      BY <2>1, <2>5, <3>1 DEF ElisionBook
    <3> QED
      BY <2>1, <2>2, <2>5, <3>2 DEF Elides
  <2> QED
    BY <2>1, <2>2, <2>5, <2>6 DEF Elides, ElisionBook
<1> QED
  BY <1>1, <1>2, <1>3, WhoLeavesTx

-----------------------------------------------------------------------------
(***************************************************************************)
(* How tas_priority_tm counts the promoted threads.                        *)
(***************************************************************************)
PromotedLabels == {"prio", "prio_swap", "demote"}

(* Nobody is promoted, and nobody ceases to be.                            *)
LEMMA PromotedStay ==
  ASSUME ReadyCountsPromoted, UNCHANGED <<using, ready>>, NEW t \in Threads,
         \A u \in Threads \ {t} : pc'[u] = pc[u] /\ lk'[u] = lk[u],
         \/ pc[t] \notin PromotedLabels /\ pc'[t] \notin PromotedLabels
         \/ pc[t] \in PromotedLabels /\ pc'[t] \in PromotedLabels /\ lk'[t] = lk[t]
  PROVE  ReadyCountsPromoted'
<1>1. \A l \in Locks : Promoted(l)' = Promoted(l)
  BY DEF Promoted, PromotedLabels
<1> QED
  BY <1>1 DEF ReadyCountsPromoted

LEMMA ReadyKeepsCount ==
  ASSUME IInv, IsFiniteSet(Threads), ReadyCountsPromoted, [Next]_vars
  PROVE  ReadyCountsPromoted'
<1>1. CASE using # "tas_priority_tm" \/ UNCHANGED vars
  BY <1>1 DEF Next, Step, TxAbort, ClientCall, ReadyCountsPromoted, Promoted, vars
<1> SUFFICES ASSUME using = "tas_priority_tm", NEW t \in Threads, UNCHANGED using,
                    \/ PriorityStep(t) \/ TxAbort(t)
                    \/ \E l \in Locks : PriorityCall(t, l)
             PROVE  ReadyCountsPromoted'
  BY <1>1 DEF Next, Step, TxAbort, ClientCall
<1>2. /\ TypeOK /\ Book(t) /\ FlagBook(t) /\ (pc[t] # "client" => lk[t] \in Locks)
      /\ pc \in [Threads -> PriorityLabels \cup {"client"}] /\ lk \in [Threads -> Locks \cup {Null}]
      /\ ready \in [Locks -> Int]
  BY DEF IInv, Book, TypeOK, ClientTypeOK, Labels
<1>3. \A l \in Locks : /\ IsFiniteSet(Promoted(l)) /\ Cardinality(Promoted(l)) \in Nat
                       /\ ready[l] = Cardinality(Promoted(l))
  <2>1. \A l \in Locks : Promoted(l) \in SUBSET Threads
    BY DEF Promoted
  <2> QED
    BY <2>1, FS_Subset, FS_CardinalityType DEF ReadyCountsPromoted
<1>4. ASSUME NEW label, label \notin PromotedLabels, pc[t] \notin PromotedLabels,
             pc' = [pc EXCEPT ![t] = label], NEW l, lk' = [lk EXCEPT ![t] = l], UNCHANGED ready
      PROVE  ReadyCountsPromoted'
  BY <1>2, <1>4, PromotedStay
<1>5. CASE UNCHANGED <<pc, lk, ready>>
  BY <1>5 DEF ReadyCountsPromoted, Promoted
<1>6. CASE TxAbort(t)
  <2>1. pc[t] = "client"
    BY <1>2, <1>6 DEF TxAbort, Abort, FlagBook
  <2>2. pc' = [pc EXCEPT ![t] = "abort"] /\ lk' = [lk EXCEPT ![t] = saved[t].lk] /\ UNCHANGED ready
    BY <1>6 DEF TxAbort, Abort
  <2> QED
    BY <1>4, <2>1, <2>2 DEF PromotedLabels
<1>7. ASSUME NEW l \in Locks, PriorityCall(t, l) PROVE ReadyCountsPromoted'
  <2>1. pc[t] = "client" /\ UNCHANGED ready
    BY <1>7 DEF PriorityCall, tas_priority_lock_tm, tas_priority_trylock_tm,
                tas_priority_unlock_tm, MayLock, MayTrylock, MayUnlock
  <2>2. \/ UNCHANGED <<pc, lk>>
        \/ \E label \in {"read", "try"} :
             pc' = [pc EXCEPT ![t] = label] /\ lk' = [lk EXCEPT ![t] = l]
    BY <1>7 DEF PriorityCall, tas_priority_lock_tm, tas_priority_trylock_tm,
                tas_priority_unlock_tm, CallUnlessElided, Elided, CallReturning, Call
  <2> QED
    BY <1>4, <1>5, <2>1, <2>2 DEF PromotedLabels
<1>8. CASE Promote(t)
  <2>1. PICK l \in Locks : l = lk[t]
    BY <1>2, <1>8 DEF Promote
  <2>2. /\ pc[t] = "promote" /\ pc' = [pc EXCEPT ![t] = "prio"] /\ lk' = lk
        /\ ready' = [ready EXCEPT ![l] = @ + 1]
    BY <1>8, <2>1 DEF Promote, Goto
  <2>3. /\ Promoted(l)' = Promoted(l) \cup {t} /\ t \notin Promoted(l)
        /\ \A k \in Locks \ {l} : Promoted(k)' = Promoted(k)
    BY <1>2, <2>1, <2>2 DEF Promoted
  <2>4. Cardinality(Promoted(l)') = Cardinality(Promoted(l)) + 1
    BY <1>3, <2>3, FS_AddElement
  <2>5. ready'[l] = ready[l] + 1 /\ \A k \in Locks \ {l} : ready'[k] = ready[k]
    BY <1>2, <2>2
  <2> QED
    BY <1>3, <2>3, <2>4, <2>5 DEF ReadyCountsPromoted
<1>9. CASE Demote(t)
  <2>1. PICK l \in Locks : l = lk[t]
    BY <1>2, <1>9 DEF Demote
  <2>2. /\ pc[t] = "demote" /\ pc' = [pc EXCEPT ![t] = "client"] /\ lk' = [lk EXCEPT ![t] = Null]
        /\ ready' = [ready EXCEPT ![l] = @ - 1]
    BY <1>9, <2>1 DEF Demote, Return
  <2>3. /\ Promoted(l)' = Promoted(l) \ {t} /\ t \in Promoted(l)
        /\ \A k \in Locks \ {l} : Promoted(k)' = Promoted(k)
    BY <1>2, <2>1, <2>2 DEF Promoted
  <2>4. Cardinality(Promoted(l)') = Cardinality(Promoted(l)) - 1
    BY <1>3, <2>3, FS_RemoveElement
  <2>5. ready'[l] = ready[l] - 1 /\ \A k \in Locks \ {l} : ready'[k] = ready[k]
    BY <1>2, <2>2
  <2> QED
    BY <1>3, <2>3, <2>4, <2>5 DEF ReadyCountsPromoted
<1>10. CASE PriorityWait(t)
  <2>1. /\ pc[t] \in {"prio", "prio_swap"} /\ lk' = lk /\ UNCHANGED ready
        /\ \E label \in PromotedLabels : pc' = [pc EXCEPT ![t] = label]
    BY <1>10 DEF PriorityWait, Tatas, PrioAcquired, Goto, PromotedLabels
  <2> QED
    BY <1>2, <2>1, PromotedStay DEF PromotedLabels
<1>11. ASSUME pc[t] \notin PromotedLabels, UNCHANGED ready,
              \/ Acquired(t) \/ Refused(t)
              \/ \E label \in {"read", "test", "swap", "enter", "abort", "promote", "try_test",
                               "try_swap"} : Goto(t, label)
       PROVE  ReadyCountsPromoted'
  <2>1. lk = [lk EXCEPT ![t] = lk[t]]
    BY <1>2
  <2> QED
    BY <1>4, <1>11, <2>1 DEF Acquired, Refused, Return, Goto, PromotedLabels
<1>12. CASE PriorityRead(t)
  BY <1>11, <1>12 DEF PriorityRead, PromotedLabels
<1>13. CASE PriorityTake(t)
  BY <1>11, <1>13 DEF PriorityTake, Tatas, PromotedLabels
<1>14. CASE PrioritySpeculate(t)
  BY <1>11, <1>14 DEF PrioritySpeculate, EnterHtm, PromotedLabels
<1>15. CASE PriorityFailed(t)
  BY <1>11, <1>15 DEF PriorityFailed, EnterHtmFailed, PromotedLabels
<1>16. CASE PriorityTryRead(t)
  BY <1>11, <1>16 DEF PriorityTryRead, PromotedLabels
<1>17. CASE PriorityTry(t)
  BY <1>11, <1>17 DEF PriorityTry, Tatas, PromotedLabels
<1> QED
  BY <1>6, <1>7, <1>8, <1>9, <1>10, <1>12, <1>13, <1>14, <1>15, <1>16, <1>17 DEF PriorityStep

-----------------------------------------------------------------------------
(***************************************************************************)
(* The theorems.                                                           *)
(***************************************************************************)

(* The lemmas together: IInv is inductive.                                 *)
THEOREM Invariance == Spec /\ NestsIfElided => []IInv
<1>1. IInv /\ [Next]_vars => IInv'
  BY StepKeepsInvariant
<1> QED
  BY <1>1, InitInvariant, PTL DEF Spec

(* Throughout every run of the library, under every lock type on one word,  *)
(* the variables are of their types.                                       *)
THEOREM TypeCorrect == Spec /\ NestsIfElided => []TypeOK
BY Invariance, PTL DEF IInv

(* Under every lock type on one word, whatever speculates, elides, aborts   *)
(* or falls back, the word of a lock is 1 exactly while one thread really   *)
(* holds the lock; under tas_hle this asks the program to nest its critical *)
(* sections.                                                               *)
THEOREM OneOwner == Spec /\ NestsIfElided => []WordHasOneOwner
BY Invariance, PTL DEF IInv

(* The program's own code runs with spec_entry set exactly while it runs in *)
(* a transaction, so that an elided call is always undone.                 *)
THEOREM FlagIsTrue == Spec /\ NestsIfElided => []FlagMatchesHardware
<1>1. IInv => FlagMatchesHardware
  BY DEF IInv, Book, FlagBook, FlagMatchesHardware
<1> QED
  BY <1>1, Invariance, PTL

(* Every lock type on one word implements the abstract mutex: transactions  *)
(* and elided calls are invisible in who really holds which lock.          *)
THEOREM ImplementsMutex == Spec /\ NestsIfElided => MutexSpec
<1>1. IInv /\ [Next]_vars => [M!Next]_Holds
  BY StepKeepsInvariant
<1> QED
  BY <1>1, InitInvariant, Invariance, PTL DEF Spec, MutexSpec, M!Spec, Holds

(* While a transaction of tas_hle can still commit, the locks that it elides *)
(* are free: the word read at txlock.c:126 stays in its read set, and every *)
(* write of it dooms the transaction.                                      *)
THEOREM ElisionIsSafe == Spec /\ NestsIfElided => []ElidedLocksAreFree
<1>1. Init => ElisionsAreWatched
  <2> SUFFICES ASSUME Init, NEW t \in Threads PROVE ~InTx(t)
    BY DEF ElisionsAreWatched
  <2>1. depth[t] = 0
    BY DEF Init, HtmInit
  <2> QED
    BY <2>1 DEF InTx
<1>2. ElisionsAreWatched => ElidedLocksAreFree
  BY DEF ElisionsAreWatched, ElidedLocksAreFree
<1>3. IInv /\ ElisionsAreWatched /\ [Next]_vars => ElisionsAreWatched'
  BY ElisionsKeepWatch
<1> QED
  BY <1>1, <1>2, <1>3, Invariance, PTL DEF Spec

(* A transaction that commits leaves the thread with what it held when it    *)
(* began: its last level is ended by the unlock of the lock that began it    *)
(* (txlock.c:141-142).                                                     *)
THEOREM CommitIsClean == Spec /\ NestsIfElided => CommitRestoresHeld
<1>1. IInv /\ [Next]_vars =>
        [\A t \in Threads :
           InTx(t) /\ ~InTx(t)' /\ pc'[t] # "abort" => held'[t] = saved[t].held]_vars
  BY CommitRestores
<1> QED
  BY <1>1, Invariance, PTL DEF Spec, CommitRestoresHeld

(* The field ready of tas_priority_tm counts the promoted threads: whoever   *)
(* is counted leaves the count once, with the lock (txlock.c:223-225). A    *)
(* program has finitely many threads.                                      *)
THEOREM ReadyIsCount ==
  ASSUME IsFiniteSet(Threads)
  PROVE  Spec /\ NestsIfElided => []ReadyCountsPromoted
<1>1. Init => ReadyCountsPromoted
  <2> SUFFICES ASSUME Init, NEW l \in Locks PROVE ready[l] = Cardinality(Promoted(l))
    BY DEF ReadyCountsPromoted
  <2>1. Promoted(l) = {} /\ ready[l] = 0
    BY DEF Init, ClientInit, PriorityInit, Promoted
  <2> QED
    BY <2>1, FS_EmptySet
<1>2. IInv /\ ReadyCountsPromoted /\ [Next]_vars => ReadyCountsPromoted'
  BY ReadyKeepsCount
<1> QED
  BY <1>1, <1>2, Invariance, PTL DEF Spec
=============================================================================
