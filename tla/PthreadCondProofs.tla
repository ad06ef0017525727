-------------------------- MODULE PthreadCondProofs --------------------------
(***************************************************************************)
(* The futex condition variable, for any waiters, any wakers, any number of *)
(* tries and waits, and whichever lock type the mutex is.                   *)
(***************************************************************************)
EXTENDS PthreadCond, TLAPS

USE PthreadCondAssumption, NobodyAssumption DEF Empty, Nobody

-----------------------------------------------------------------------------
(***************************************************************************)
(* Types.                                                                  *)
(***************************************************************************)
LEMMA IncrementTyped ==
  ASSUME TypeOK, NEW t \in Threads, NEW label, NEW f \in Fields, f # "lock", NEW next \in Labels,
         Increment(t, label, f, next)
  PROVE  /\ cond' \in [Fields -> Nat] /\ cond'.lock = 0
         /\ pc' \in [Threads -> Labels]
         /\ reg' \in [Threads -> Nat \cup {Empty}]
<1>1. CASE reg[t] = Empty
  BY <1>1 DEF TypeOK, Increment, Load
<1>2. CASE reg[t] # Empty
  <2>1. reg[t] + 1 \in Nat
    BY <1>2 DEF TypeOK
  <2> QED
    BY <1>2, <2>1 DEF TypeOK, Increment, Drop, Goto, Fields
<1> QED
  BY <1>1, <1>2

LEMMA AssignTyped ==
  ASSUME TypeOK, NEW t \in Threads, NEW label, NEW f \in Fields, f # "lock", NEW next \in Labels,
         NEW v \in Nat, Assign(t, label, f, v, next)
  PROVE  /\ cond' \in [Fields -> Nat] /\ cond'.lock = 0
         /\ pc' \in [Threads -> Labels]
BY DEF TypeOK, Assign, Goto, Fields

LEMMA EndLoopTyped ==
  ASSUME TypeOK, NEW t \in Threads, EndLoop(t)
  PROVE  /\ seq' \in [Threads -> Nat] /\ bc_seq' \in [Threads -> Nat]
         /\ futex_val' \in [Threads -> Nat] /\ tries' \in [Threads -> Nat]
         /\ expired' \in [Threads -> BOOLEAN] /\ owed' \subseteq Threads
BY DEF TypeOK, EndLoop

LEMMA InitTyped == Init => TypeOK
BY DEF Init, TypeOK, Fields, Labels
(* Every action, with the names in front of it taken off.                   *)
CallStep(t) == cond_wait(t) \/ cond_wake(t, "signal") \/ cond_wake(t, "broadcast")

StepOf(t) == Step(t) \/ Relock(t) \/ Happens(t) \/ UnlockMutex(t) \/ CallStep(t)

LEMMA WhatSteps ==
  ASSUME [Next]_vars, vars' # vars
  PROVE  \E t \in Threads : StepOf(t)
BY DEF Next, Threads, StepOf, CallStep, pthread_cond_wait, pthread_cond_timedwait,
       pthread_cond_signal, pthread_cond_broadcast, tc_wait, tc_timedwait, tc_signal,
       tc_broadcast, cond_timedwait, cond_signal, cond_broadcast

LEMMA TypeStep ==
  ASSUME TypeOK, \A t \in Threads : RegBook(t), [Next]_vars
  PROVE  TypeOK'
<1>1. CASE vars' = vars
  BY <1>1 DEF TypeOK, vars, loopVars, historyVars
<1>2. ASSUME NEW t \in Threads, CountWaiter(t) PROVE TypeOK'
  BY <1>2, IncrementTyped DEF TypeOK, CountWaiter, loopVars, historyVars, Fields, Labels
<1>3. ASSUME NEW t \in Threads, NoteSeq(t) \/ NoteRound(t) \/ NoteFutex(t) PROVE TypeOK'
  <2>1. cond.wakeup_seq \in Nat /\ cond.broadcast_seq \in Nat /\ cond.futex \in Nat
    BY DEF TypeOK, Fields
  <2> QED
    BY <1>3, <2>1 DEF TypeOK, NoteSeq, NoteRound, NoteFutex, Goto, historyVars, Labels
<1>4. ASSUME NEW t \in Threads, TooLate(t) PROVE TypeOK'
  BY <1>4, EndLoopTyped DEF TypeOK, TooLate, Goto, Labels
<1>5. ASSUME NEW t \in Threads, Speculate(t) \/ Abort(t) PROVE TypeOK'
  <2>1. CASE Speculate(t)
    <3>1. tries[t] + 1 \in Nat
      BY DEF TypeOK
    <3>2. pc' \in [Threads -> Labels]
      BY <2>1 DEF TypeOK, Speculate, Goto, Labels
    <3>3. tries' \in [Threads -> Nat]
      BY <2>1, <3>1 DEF TypeOK, Speculate
    <3>4. spec' \in [Threads -> BOOLEAN]
      BY <2>1 DEF TypeOK, Speculate
    <3> QED
      BY <2>1, <3>2, <3>3, <3>4 DEF TypeOK, Speculate, historyVars
  <2>2. CASE Abort(t)
    BY <2>2 DEF TypeOK, Abort, Goto, historyVars, Labels
  <2> QED
    BY <1>5, <2>1, <2>2
<1>6. ASSUME NEW t \in Threads, FutexWait(t) \/ TimeOut(t) \/ Relock(t) PROVE TypeOK'
  <2>1. CASE FutexWait(t)
    BY <2>1 DEF TypeOK, FutexWait, Goto, historyVars, Labels
  <2>2. CASE TimeOut(t)
    BY <2>2 DEF TypeOK, TimeOut, Goto, historyVars, Labels
  <2>3. CASE Relock(t)
    BY <2>3 DEF TypeOK, Relock, tl_lock, Goto, loopVars, historyVars, Labels
  <2> QED
    BY <1>6, <2>1, <2>2, <2>3
<1>7. ASSUME NEW t \in Threads, CheckRound(t) \/ CheckEligible(t) PROVE TypeOK'
  BY <1>7, EndLoopTyped
  DEF TypeOK, CheckRound, CheckEligible, Goto, Drop, loopVars, Labels
<1>8. ASSUME NEW t \in Threads, LoadVal(t) PROVE TypeOK'
  BY <1>8 DEF TypeOK, LoadVal, Load, Goto, loopVars, historyVars, Labels, Fields
<1>9. ASSUME NEW t \in Threads, CountTimeout(t) \/ CountWoken(t) \/ MarkOne(t) \/ NextRound(t)
      PROVE TypeOK'
  BY <1>9, IncrementTyped
  DEF TypeOK, CountTimeout, CountWoken, MarkOne, NextRound, loopVars, historyVars, Labels, Fields
<1>10. ASSUME NEW t \in Threads, CheckSignal(t) PROVE TypeOK'
  BY <1>10
  DEF TypeOK, CheckSignal, LoadTotal, NobodyWaits, SomebodyWaits, Load, Drop, Goto, loopVars,
      Labels, Fields
<1>11. ASSUME NEW t \in Threads, CheckBroadcast(t) PROVE TypeOK'
  BY <1>11
  DEF TypeOK, CheckBroadcast, LoadTotal, NobodyWaits, SomebodyWaits, Load, Drop, Goto, loopVars,
      Labels, Fields, Asleep
<1>12. ASSUME NEW t \in Threads, WakeOne(t) \/ WakeAll(t) PROVE TypeOK'
  BY <1>12 DEF TypeOK, WakeOne, WakeAll, Goto, Asleep, loopVars, historyVars, Labels
<1>13. ASSUME NEW t \in Threads, MarkAll(t) PROVE TypeOK'
  <2>1. pc[t] \in {"catch_up", "catch_up_woken", "catch_up_futex"}
    BY <1>13 DEF MarkAll, Assign
  <2>2. reg[t] \in Nat /\ 2 * reg[t] \in Nat
    BY <2>1 DEF RegBook, TypeOK
  <2> QED
    BY <1>13, <2>2, AssignTyped
    DEF TypeOK, MarkAll, Drop, loopVars, historyVars, Labels, Fields
<1>14. ASSUME NEW t \in Threads, CallStep(t) PROVE TypeOK'
  <2>1. CASE cond_wait(t)
    <3>1. /\ seq' \in [Threads -> Nat] /\ bc_seq' \in [Threads -> Nat]
          /\ futex_val' \in [Threads -> Nat] /\ tries' \in [Threads -> Nat]
          /\ expired' \in [Threads -> BOOLEAN] /\ owed' \subseteq Threads
      BY <2>1, EndLoopTyped DEF TypeOK, cond_wait, EndLoopIfCommitted, loopVars
    <3>2. owner' \in Threads \cup {Nobody} /\ spec' \in [Threads -> BOOLEAN]
      BY <2>1 DEF TypeOK, cond_wait, tl_unlock
    <3>3. pc' \in [Threads -> Labels] /\ waits' \in Nat /\ UNCHANGED <<cond, reg>>
      BY <2>1 DEF TypeOK, cond_wait, Goto, Labels
    <3> QED
      BY <3>1, <3>2, <3>3 DEF TypeOK
  <2>2. ASSUME NEW label \in {"signal", "broadcast"}, cond_wake(t, label) PROVE TypeOK'
    BY <2>2 DEF TypeOK, cond_wake, Goto, loopVars, historyVars, Labels
  <2> QED
    BY <1>14, <2>1, <2>2 DEF CallStep
<1>15. ASSUME NEW t \in Threads, UnlockMutex(t) PROVE TypeOK'
  BY <1>15, EndLoopTyped DEF TypeOK, UnlockMutex, tl_unlock, EndLoopIfCommitted, loopVars
<1> QED
  BY <1>1, <1>2, <1>3, <1>4, <1>5, <1>6, <1>7, <1>8, <1>9, <1>10, <1>11, <1>12, <1>13, <1>14,
     <1>15, WhatSteps
  DEF StepOf, Step, Happens
-----------------------------------------------------------------------------
(***************************************************************************)
(* What a step of t leaves alone.                                          *)
(***************************************************************************)
WokenBy(u, t) ==
  pc[u] = "asleep" /\ pc'[u] = "awake" /\ pc[t] \in {"wake", "wake_again", "wake_all"}

StaysFor(u) ==
  /\ reg'[u] = reg[u] /\ bc_seq'[u] = bc_seq[u]
  /\ expired'[u] = expired[u] /\ spec'[u] = spec[u]

(* Of another thread it changes nothing but that it wakes it up.             *)
LEMMA OthersStay ==
  ASSUME TypeOK, NEW t \in Threads, StepOf(t), NEW u \in Threads \ {t}
  PROVE  (pc'[u] = pc[u] \/ WokenBy(u, t)) /\ StaysFor(u)
<1>1. CASE WakeOne(t) \/ WakeAll(t)
  <2>1. StaysFor(u)
    BY <1>1 DEF WakeOne, WakeAll, StaysFor, loopVars
  <2>2. CASE WakeOne(t)
    BY <2>1, <2>2 DEF TypeOK, WakeOne, Goto, WokenBy, Asleep
  <2>3. CASE WakeAll(t)
    <3>1. pc'[u] = IF u \in Asleep THEN "awake" ELSE pc[u]
      BY <2>3 DEF WakeAll
    <3> QED
      BY <2>1, <2>3, <3>1 DEF WakeAll, WokenBy, Asleep
  <2> QED
    BY <1>1, <2>2, <2>3
<1>2. CASE CountWaiter(t) \/ CountTimeout(t) \/ CountWoken(t) \/ MarkOne(t) \/ NextRound(t)
  BY <1>2
  DEF TypeOK, CountWaiter, CountTimeout, CountWoken, MarkOne, NextRound, Increment, Load, Drop,
      Goto, StaysFor, loopVars
<1>3. CASE MarkAll(t)
  BY <1>3 DEF TypeOK, MarkAll, Assign, Drop, Goto, StaysFor, loopVars
<1>4. CASE NoteSeq(t) \/ NoteRound(t) \/ NoteFutex(t) \/ LoadVal(t)
  BY <1>4 DEF TypeOK, NoteSeq, NoteRound, NoteFutex, LoadVal, Load, Goto, StaysFor, loopVars
<1>5. CASE TooLate(t) \/ CheckRound(t) \/ CheckEligible(t)
  BY <1>5
  DEF TypeOK, TooLate, CheckRound, CheckEligible, EndLoop, Drop, Goto, StaysFor, loopVars
<1>6. CASE Speculate(t) \/ Abort(t)
  BY <1>6 DEF TypeOK, Speculate, Abort, Goto, StaysFor
<1>7. CASE FutexWait(t) \/ TimeOut(t) \/ Relock(t)
  BY <1>7 DEF TypeOK, FutexWait, TimeOut, Relock, Goto, StaysFor, loopVars
<1>8. CASE CheckSignal(t) \/ CheckBroadcast(t)
  BY <1>8
  DEF TypeOK, CheckSignal, CheckBroadcast, LoadTotal, NobodyWaits, SomebodyWaits, Load, Drop,
      Goto, StaysFor, loopVars
<1>9. CASE CallStep(t) \/ UnlockMutex(t)
  BY <1>9
  DEF TypeOK, CallStep, cond_wait, cond_wake, UnlockMutex, tl_unlock, EndLoopIfCommitted,
      EndLoop, Goto, StaysFor, loopVars
<1> QED
  BY <1>1, <1>2, <1>3, <1>4, <1>5, <1>6, <1>7, <1>8, <1>9 DEF StepOf, Step, Happens

(* It neither takes the mutex from another thread nor gives it to it.        *)
LEMMA OthersKeepMutex ==
  ASSUME TypeOK, NEW t \in Threads, StepOf(t), NEW u \in Threads \ {t}, owner = u
  PROVE  owner' = u
BY DEF TypeOK, StepOf, Step, Happens, CountWaiter, NoteSeq, NoteRound, TooLate, NoteFutex,
   Speculate, FutexWait, CheckRound, LoadVal, CheckEligible, CountTimeout, CountWoken,
   CheckSignal, MarkOne, WakeOne, CheckBroadcast, MarkAll, NextRound, WakeAll, Relock, tl_lock,
   TimeOut, Abort, UnlockMutex, CallStep, cond_wait, cond_wake, MayCall, tl_unlock, Increment,
   LoadTotal

(* The count of the rounds goes up at the end of a broadcast only.           *)
LEMMA RoundsCount ==
  ASSUME TypeOK, NEW t \in Threads, StepOf(t)
  PROVE  \/ cond'.broadcast_seq = cond.broadcast_seq
         \/ NextRound(t) /\ reg[t] # Empty /\ cond'.broadcast_seq = reg[t] + 1
<1>1. CASE CountWaiter(t) \/ CountTimeout(t) \/ CountWoken(t) \/ MarkOne(t)
  BY <1>1
  DEF TypeOK, CountWaiter, CountTimeout, CountWoken, MarkOne, Increment, Load, Fields
<1>2. CASE MarkAll(t)
  BY <1>2 DEF TypeOK, MarkAll, Assign, Fields
<1>3. CASE NextRound(t)
  BY <1>3 DEF TypeOK, NextRound, Increment, Load, Fields
<1>4. CASE \/ NoteSeq(t) \/ NoteRound(t) \/ TooLate(t) \/ NoteFutex(t) \/ Speculate(t)
           \/ FutexWait(t) \/ CheckRound(t) \/ LoadVal(t) \/ CheckEligible(t) \/ CheckSignal(t)
           \/ WakeOne(t) \/ CheckBroadcast(t) \/ WakeAll(t) \/ Relock(t) \/ TimeOut(t)
           \/ Abort(t) \/ UnlockMutex(t) \/ CallStep(t)
  <2>1. UNCHANGED cond
    BY <1>4
    DEF NoteSeq, NoteRound, TooLate, NoteFutex, Speculate, FutexWait, CheckRound, LoadVal,
        CheckEligible, CheckSignal, WakeOne, CheckBroadcast, WakeAll, Relock, TimeOut, Abort,
        UnlockMutex, CallStep, cond_wait, cond_wake
  <2> QED
    BY <2>1
<1> QED
  BY <1>1, <1>2, <1>3, <1>4 DEF StepOf, Step, Happens
-----------------------------------------------------------------------------
(***************************************************************************)
(* The books.                                                              *)
(***************************************************************************)
LEMMA MutexStep ==
  ASSUME TypeOK, \A u \in Threads : MutexBook(u), NEW t \in Threads, StepOf(t)
  PROVE  \A u \in Threads : MutexBook(u)'
<1>1. ASSUME NEW u \in Threads \ {t} PROVE MutexBook(u)'
  <2>1. (pc'[u] = pc[u] \/ WokenBy(u, t)) /\ spec'[u] = spec[u]
    BY <1>1, OthersStay DEF StaysFor
  <2>2. owner = u => owner' = u
    BY OthersKeepMutex
  <2> QED
    BY <2>1, <2>2 DEF MutexBook, WokenBy, WakerLabels
<1>2. MutexBook(t)'
  <2>1. CASE CountWaiter(t) \/ CountTimeout(t) \/ CountWoken(t) \/ MarkOne(t) \/ NextRound(t)
    BY <2>1
    DEF TypeOK, CountWaiter, CountTimeout, CountWoken, MarkOne, NextRound, Increment, Goto,
        MutexBook, WakerLabels
  <2>2. CASE MarkAll(t)
    BY <2>2 DEF TypeOK, MarkAll, Assign, Goto, MutexBook, WakerLabels
  <2>3. CASE NoteSeq(t) \/ NoteRound(t) \/ NoteFutex(t) \/ LoadVal(t)
    BY <2>3
    DEF TypeOK, NoteSeq, NoteRound, NoteFutex, LoadVal, Goto, MutexBook, WakerLabels
  <2>4. CASE TooLate(t) \/ CheckRound(t) \/ CheckEligible(t)
    BY <2>4 DEF TypeOK, TooLate, CheckRound, CheckEligible, Goto, MutexBook, WakerLabels
  <2>5. CASE Speculate(t) \/ Abort(t)
    BY <2>5 DEF TypeOK, Speculate, Abort, Goto, MutexBook, WakerLabels
  <2>6. CASE FutexWait(t) \/ TimeOut(t) \/ Relock(t)
    BY <2>6 DEF TypeOK, FutexWait, TimeOut, Relock, Goto, MutexBook, WakerLabels
  <2>7. CASE CheckSignal(t) \/ CheckBroadcast(t)
    BY <2>7
    DEF TypeOK, CheckSignal, CheckBroadcast, LoadTotal, NobodyWaits, SomebodyWaits, Goto,
        MutexBook, WakerLabels
  <2>8. CASE WakeOne(t) \/ WakeAll(t)
    <3>1. pc'[t] \in {"client", "wake_again"} /\ pc[t] \in WakerLabels /\ UNCHANGED <<owner, spec>>
      BY <2>8 DEF TypeOK, WakeOne, WakeAll, Goto, Asleep, WakerLabels
    <3> QED
      BY <3>1 DEF MutexBook, WakerLabels
  <2>9. CASE CallStep(t)
    BY <2>9
    DEF TypeOK, CallStep, cond_wait, cond_wake, MayCall, tl_unlock, Goto, MutexBook, WakerLabels
  <2>10. CASE UnlockMutex(t)
    BY <2>10 DEF TypeOK, UnlockMutex, tl_unlock, MutexBook, WakerLabels
  <2> QED
    BY <2>1, <2>2, <2>3, <2>4, <2>5, <2>6, <2>7, <2>8, <2>9, <2>10 DEF StepOf, Step, Happens
<1> QED
  BY <1>1, <1>2

(* At most one thread signals or broadcasts.                               *)
LEMMA OneWaker ==
  ASSUME NEW t \in Threads, NEW u \in Threads, MutexBook(t), MutexBook(u),
         pc[t] \in WakerLabels, pc[u] \in WakerLabels
  PROVE  t = u
BY DEF MutexBook

LEMMA RegStep ==
  ASSUME TypeOK, TypeOK', \A u \in Threads : MutexBook(u) /\ RegBook(u),
         NEW t \in Threads, StepOf(t)
  PROVE  \A u \in Threads : RegBook(u)'
<1>1. ASSUME NEW u \in Threads \ {t} PROVE RegBook(u)'
  <2>1. (pc'[u] = pc[u] \/ WokenBy(u, t)) /\ reg'[u] = reg[u]
    BY <1>1, OthersStay DEF StaysFor
  <2>2. ASSUME pc[u] = "round" PROVE cond'.broadcast_seq = cond.broadcast_seq
    <3>1. ~NextRound(t)
      BY <2>2, OneWaker DEF NextRound, Increment, WakerLabels
    <3> QED
      BY <3>1, RoundsCount
  <2> QED
    BY <2>1, <2>2 DEF RegBook, WokenBy
<1>2. RegBook(t)'
  <2>1. CASE CountWaiter(t) \/ CountTimeout(t) \/ CountWoken(t) \/ MarkOne(t)
    BY <2>1
    DEF TypeOK, CountWaiter, CountTimeout, CountWoken, MarkOne, Increment, Goto, RegBook
  <2>2. CASE MarkAll(t)
    BY <2>2 DEF TypeOK, MarkAll, Assign, Drop, Goto, RegBook
  <2>3. CASE LoadVal(t)
    <3>1. reg'[t] = cond.wakeup_seq /\ cond.wakeup_seq \in Nat /\ pc'[t] = "eligible"
      BY <2>3 DEF TypeOK, LoadVal, Load, Goto, Fields
    <3> QED
      BY <3>1 DEF RegBook
  <2>4. CASE NextRound(t)
    <3>1. CASE reg[t] = Empty
      BY <2>4, <3>1 DEF TypeOK, NextRound, Increment, Load, RegBook
    <3>2. CASE reg[t] # Empty
      BY <2>4, <3>2 DEF TypeOK, NextRound, Increment, Goto, RegBook
    <3> QED
      BY <3>1, <3>2
  <2>5. CASE CheckBroadcast(t)
    BY <2>5
    DEF TypeOK, CheckBroadcast, LoadTotal, NobodyWaits, SomebodyWaits, Goto, RegBook
  <2>6. CASE \/ NoteSeq(t) \/ NoteRound(t) \/ NoteFutex(t) \/ TooLate(t) \/ CheckRound(t)
             \/ CheckEligible(t) \/ Speculate(t) \/ Abort(t) \/ FutexWait(t) \/ TimeOut(t)
             \/ Relock(t) \/ CheckSignal(t) \/ WakeOne(t) \/ WakeAll(t) \/ CallStep(t)
             \/ UnlockMutex(t)
    <3>1. pc'[t] \notin {"eligible", "catch_up", "catch_up_woken", "catch_up_futex", "round"}
      BY <2>6
      DEF TypeOK, NoteSeq, NoteRound, NoteFutex, TooLate, CheckRound, CheckEligible, Speculate,
          Abort, FutexWait, TimeOut, Relock, CheckSignal, LoadTotal, NobodyWaits, SomebodyWaits,
          WakeOne, WakeAll, CallStep, cond_wait, cond_wake, UnlockMutex, Goto, Asleep
    <3> QED
      BY <3>1 DEF RegBook
  <2> QED
    BY <2>1, <2>2, <2>3, <2>4, <2>5, <2>6 DEF StepOf, Step, Happens
<1> QED
  BY <1>1, <1>2
LEMMA RoundStep ==
  ASSUME TypeOK, TypeOK', \A u \in Threads : MutexBook(u) /\ RegBook(u) /\ RoundBook(u),
         NEW t \in Threads, StepOf(t)
  PROVE  /\ cond'.broadcast_seq >= cond.broadcast_seq
         /\ NextRound(t) /\ reg[t] # Empty => cond'.broadcast_seq = cond.broadcast_seq + 1
         /\ \A u \in Threads : RoundBook(u)'
<1>1. cond.broadcast_seq \in Nat /\ cond'.broadcast_seq \in Nat
  BY DEF TypeOK, Fields
<1>2. NextRound(t) /\ reg[t] # Empty => reg[t] = cond.broadcast_seq
  BY DEF NextRound, Increment, RegBook
<1>3. /\ cond'.broadcast_seq >= cond.broadcast_seq
      /\ NextRound(t) /\ reg[t] # Empty => cond'.broadcast_seq = cond.broadcast_seq + 1
  <2>1. NextRound(t) /\ reg[t] # Empty => cond'.broadcast_seq = reg[t] + 1
    BY DEF TypeOK, NextRound, Increment, Fields
  <2> QED
    BY <1>1, <1>2, <2>1, RoundsCount
<1>4. ASSUME NEW u \in Threads, bc_seq'[u] = bc_seq[u] PROVE RoundBook(u)'
  <2>1. bc_seq[u] \in Nat /\ bc_seq[u] <= cond.broadcast_seq
    BY DEF TypeOK, RoundBook
  <2> QED
    BY <1>1, <1>3, <1>4, <2>1 DEF RoundBook
<1>5. ASSUME EndLoop(t) PROVE RoundBook(t)'
  BY <1>1, <1>5 DEF TypeOK, EndLoop, RoundBook
<1>6. RoundBook(t)'
  <2>1. CASE NoteRound(t)
    BY <1>1, <2>1 DEF TypeOK, NoteRound, RoundBook
  <2>2. CASE UNCHANGED bc_seq
    BY <1>4, <2>2
  <2>3. CASE TooLate(t) \/ CheckRound(t) \/ CheckEligible(t) \/ CallStep(t) \/ UnlockMutex(t)
    <3>1. EndLoop(t) \/ UNCHANGED bc_seq
      BY <2>3
      DEF TooLate, CheckRound, CheckEligible, CallStep, cond_wait, cond_wake, UnlockMutex,
          EndLoopIfCommitted, loopVars
    <3> QED
      BY <1>5, <2>2, <3>1
  <2>4. CASE \/ CountWaiter(t) \/ NoteSeq(t) \/ NoteFutex(t) \/ Speculate(t) \/ FutexWait(t)
             \/ LoadVal(t) \/ CountTimeout(t) \/ CountWoken(t) \/ CheckSignal(t) \/ MarkOne(t)
             \/ WakeOne(t) \/ CheckBroadcast(t) \/ MarkAll(t) \/ NextRound(t) \/ WakeAll(t)
             \/ Relock(t) \/ TimeOut(t) \/ Abort(t)
    <3>1. UNCHANGED bc_seq
      BY <2>4
      DEF CountWaiter, NoteSeq, NoteFutex, Speculate, FutexWait, LoadVal, CountTimeout, CountWoken,
          CheckSignal, MarkOne, WakeOne, CheckBroadcast, MarkAll, NextRound, WakeAll, Relock,
          TimeOut, Abort, loopVars
    <3> QED
      BY <2>2, <3>1
  <2> QED
    BY <2>1, <2>3, <2>4 DEF StepOf, Step, Happens
<1>7. ASSUME NEW u \in Threads \ {t} PROVE RoundBook(u)'
  BY <1>4, OthersStay DEF StaysFor
<1> QED
  BY <1>3, <1>6, <1>7

-----------------------------------------------------------------------------
(***************************************************************************)
(* The sleepers that a broadcast has found.                                *)
(***************************************************************************)
CatchUpLabels == {"catch_up", "catch_up_woken", "catch_up_futex", "round", "wake_all"}

(* Only a broadcast that finds a waiter adds to them.                       *)
LEMMA WhoIsOwed ==
  ASSUME NEW t \in Threads, StepOf(t), NEW u \in owed', u \notin owed
  PROVE  CheckBroadcast(t) /\ SomebodyWaits(t, "broadcast") /\ pc[u] = "asleep" /\ u \in Threads
BY DEF StepOf, Step, Happens, CountWaiter, NoteSeq, NoteRound, TooLate, NoteFutex,
   Speculate, FutexWait, CheckRound, LoadVal, CheckEligible, CountTimeout, CountWoken,
   CheckSignal, MarkOne, WakeOne, CheckBroadcast, LoadTotal, NobodyWaits, MarkAll, NextRound,
   WakeAll, Relock, TimeOut, Abort, UnlockMutex, CallStep, cond_wait, cond_wake, EndLoop,
   EndLoopIfCommitted, loopVars, historyVars, Asleep

(* A broadcast is under way until it wakes everybody.                       *)
LEMMA BroadcastGoesOn ==
  ASSUME TypeOK, \A u \in Threads : MutexBook(u), NEW t \in Threads, StepOf(t),
         BroadcastUnderWay, ~WakeAll(t)
  PROVE  BroadcastUnderWay'
<1>1. PICK v \in Threads : pc[v] \in CatchUpLabels
  BY DEF BroadcastUnderWay, CatchUpLabels
<1>2. CASE v # t
  BY <1>1, <1>2, OthersStay DEF WokenBy, CatchUpLabels, BroadcastUnderWay
<1>3. CASE v = t
  <2>1. MarkAll(t) \/ NextRound(t)
    BY <1>1, <1>3
    DEF MutexBook, WakerLabels, Abort, CatchUpLabels,
        StepOf, Step, Happens, CountWaiter, NoteSeq, NoteRound, TooLate, NoteFutex,
        Speculate, FutexWait, CheckRound, LoadVal, CheckEligible, CountTimeout, CountWoken,
        CheckSignal, MarkOne, WakeOne, CheckBroadcast, LoadTotal, NobodyWaits, SomebodyWaits,
        WakeAll, Relock, TimeOut, UnlockMutex, CallStep, cond_wait, cond_wake, MayCall, Increment
  <2> QED
    BY <1>1, <1>3, <2>1
    DEF TypeOK, MarkAll, NextRound, Assign, Increment, Goto, CatchUpLabels, BroadcastUnderWay
<1> QED
  BY <1>2, <1>3
(* What t does when t itself is owed.                                      *)
LEMMA OwedActs ==
  ASSUME IInv, NEW t \in Threads, StepOf(t), t \in owed, t \in owed'
  PROVE  OwedBook(t)'
<1>1. pc[t] \in {"asleep", "awake", "val", "eligible", "value"} /\ OwedBook(t)
  BY DEF IInv, OwedBook
<1>2. \/ NoteFutex(t) \/ CheckRound(t) \/ LoadVal(t) \/ CheckEligible(t) \/ TimeOut(t)
      \/ TooLate(t)
  <2>1. ~spec[t]
    BY <1>1 DEF IInv, MutexBook
  <2> QED
    BY <1>1, <2>1
    DEF StepOf, Step, Happens, CountWaiter, NoteSeq, NoteRound, Speculate, FutexWait,
        CountTimeout, CountWoken, CheckSignal, MarkOne, WakeOne, CheckBroadcast, LoadTotal,
        NobodyWaits, SomebodyWaits, MarkAll, NextRound, WakeAll, Relock, Abort, UnlockMutex,
        CallStep, cond_wait, cond_wake, MayCall, Increment, Assign
<1>3. ~NoteFutex(t)
  BY <1>1 DEF NoteFutex, OwedBook
<1>4. ~TooLate(t)
  BY DEF TooLate, EndLoop
<1>5. CASE CheckRound(t)
  <2>1. bc_seq[t] = cond.broadcast_seq /\ pc'[t] = "val" /\ UNCHANGED expired
    BY <1>5 DEF IInv, TypeOK, CheckRound, EndLoop, Goto, loopVars
  <2>2. bc_seq[t] \in Nat /\ ~LateForRound(t)
    BY <2>1 DEF IInv, TypeOK, LateForRound
  <2> QED
    BY <1>1, <1>5, <2>1, <2>2 DEF CheckRound, OwedBook
<1>6. CASE LoadVal(t)
  BY <1>1, <1>6 DEF IInv, TypeOK, LoadVal, Goto, loopVars, OwedBook
<1>7. CASE CheckEligible(t)
  <2>1. pc'[t] = "value" /\ UNCHANGED expired
    BY <1>7 DEF IInv, TypeOK, CheckEligible, EndLoop, Goto, loopVars
  <2> QED
    BY <1>1, <1>7, <2>1 DEF CheckEligible, OwedBook
<1>8. CASE TimeOut(t)
  BY <1>8 DEF IInv, TypeOK, TimeOut, Goto, OwedBook
<1> QED
  BY <1>2, <1>3, <1>4, <1>5, <1>6, <1>7, <1>8

(* What a step of t does to another thread that was owed before.            *)
LEMMA OwedStays ==
  ASSUME IInv, TypeOK', NEW t \in Threads, StepOf(t), NEW u \in owed, u # t
  PROVE  OwedBook(u)'
<1>1. u \in Threads /\ OwedBook(u) /\ RoundBook(u) /\ \A v \in Threads : MutexBook(v) /\ RegBook(v)
  BY DEF IInv, TypeOK
<1>2. (pc'[u] = pc[u] \/ WokenBy(u, t)) /\ bc_seq'[u] = bc_seq[u] /\ expired'[u] = expired[u]
  BY <1>1, OthersStay DEF IInv, StaysFor
<1>3. /\ cond.broadcast_seq \in Nat /\ cond'.broadcast_seq \in Nat /\ bc_seq[u] \in Nat
      /\ cond'.broadcast_seq >= cond.broadcast_seq
      /\ NextRound(t) /\ reg[t] # Empty => cond'.broadcast_seq = cond.broadcast_seq + 1
  BY <1>1, RoundStep DEF IInv, TypeOK, Fields
<1>4. LateForRound(u) => LateForRound(u)'
  BY <1>2, <1>3 DEF LateForRound
<1>5. CASE WokenBy(u, t)
  <2>1. PICK v \in Threads : pc[v] \in CatchUpLabels
    BY <1>1, <1>5 DEF WokenBy, OwedBook, BroadcastUnderWay, CatchUpLabels
  <2>2. t = v
    BY <1>1, <1>5, <2>1, OneWaker DEF WokenBy, WakerLabels, CatchUpLabels
  <2>3. pc[t] = "wake_all"
    BY <1>5, <2>1, <2>2 DEF WokenBy, CatchUpLabels
  <2> QED
    BY <1>1, <1>4, <1>5, <2>3 DEF WokenBy, OwedBook
<1>6. CASE pc'[u] = pc[u] /\ pc[u] # "asleep"
  BY <1>1, <1>2, <1>4, <1>6 DEF OwedBook
<1>7. CASE pc'[u] = pc[u] /\ pc[u] = "asleep"
  <2>1. BroadcastUnderWay /\ ((\E v \in Threads : pc[v] = "wake_all") => LateForRound(u))
    BY <1>1, <1>7 DEF OwedBook
  <2>2. ~WakeAll(t)
    <3>1. WakeAll(t) => pc'[u] = "awake"
      BY <1>1, <1>7 DEF WakeAll, Asleep
    <3> QED
      BY <1>7, <3>1
  <2>3. BroadcastUnderWay'
    BY <1>1, <2>1, <2>2, BroadcastGoesOn DEF IInv
  <2>4. ASSUME NEW v \in Threads, pc'[v] = "wake_all" PROVE LateForRound(u)'
    <3>1. CASE pc[v] = "wake_all"
      BY <1>4, <2>1, <3>1
    <3>2. CASE pc[v] # "wake_all"
      <4>1. v = t
        BY <2>4, <3>2, OthersStay DEF IInv, WokenBy
      <4>2. NextRound(t) /\ reg[t] # Empty
        BY <2>4, <3>2, <4>1
        DEF IInv, TypeOK, StepOf, Step, Happens, CountWaiter, NoteSeq, NoteRound, TooLate,
            NoteFutex, Speculate, FutexWait, CheckRound, LoadVal, CheckEligible, CountTimeout,
            CountWoken, CheckSignal, MarkOne, WakeOne, CheckBroadcast, LoadTotal, NobodyWaits,
            SomebodyWaits, MarkAll, NextRound, WakeAll, Relock, TimeOut, Abort, UnlockMutex,
            CallStep, cond_wait, cond_wake, Increment, Assign, Goto, Asleep
      <4> QED
        BY <1>1, <1>2, <1>3, <4>2 DEF RoundBook, LateForRound
    <3> QED
      BY <3>1, <3>2
  <2>5. (\E v \in Threads : pc[v] = "wake_all")' => LateForRound(u)'
    BY <2>4
  <2> QED
    BY <1>7, <2>3, <2>5 DEF OwedBook
<1> QED
  BY <1>2, <1>5, <1>6, <1>7

(* A sleeper that the step itself finds.                                   *)
LEMMA OwedBegins ==
  ASSUME IInv, NEW t \in Threads, StepOf(t), NEW u \in owed', u \notin owed
  PROVE  OwedBook(u)'
<1>1. /\ CheckBroadcast(t) /\ SomebodyWaits(t, "broadcast")
      /\ pc[u] = "asleep" /\ u \in Threads
  BY WhoIsOwed
<1>2. pc[t] = "broadcast" /\ reg[t] # Empty
  BY <1>1 DEF SomebodyWaits
<1>3. pc' = [pc EXCEPT ![t] = "catch_up"]
  BY <1>1, <1>2 DEF IInv, TypeOK, CheckBroadcast, LoadTotal, NobodyWaits, SomebodyWaits, Goto
<1>4. pc'[u] = "asleep" /\ BroadcastUnderWay'
  BY <1>1, <1>2, <1>3 DEF IInv, TypeOK, BroadcastUnderWay
<1>5. ASSUME NEW v \in Threads PROVE pc'[v] # "wake_all"
  <2>1. v # t => pc[v] # "wake_all"
    BY <1>2, OneWaker DEF IInv, WakerLabels
  <2> QED
    BY <1>3, <2>1 DEF IInv, TypeOK
<1> QED
  BY <1>4, <1>5 DEF OwedBook
-----------------------------------------------------------------------------
(***************************************************************************)
(* The theorems.                                                           *)
(***************************************************************************)
LEMMA InitIInv == Init => IInv
<1> SUFFICES ASSUME Init PROVE IInv
  OBVIOUS
<1>1. TypeOK
  BY DEF Init, TypeOK, Fields, Labels
<1>2. \A t \in Threads : MutexBook(t) /\ RegBook(t) /\ RoundBook(t)
  BY DEF Init, MutexBook, RegBook, RoundBook, WakerLabels
<1>3. owed = {}
  BY DEF Init
<1> QED
  BY <1>1, <1>2, <1>3 DEF IInv

LEMMA StepIInv == IInv /\ [Next]_vars => IInv'
<1> SUFFICES ASSUME IInv, [Next]_vars PROVE IInv'
  OBVIOUS
<1>1. CASE vars' = vars
  BY <1>1
  DEF IInv, TypeOK, MutexBook, RegBook, RoundBook, OwedBook, LateForRound, BroadcastUnderWay,
      vars, loopVars, historyVars
<1>2. CASE vars' # vars
  <2>1. PICK t \in Threads : StepOf(t)
    BY <1>2, WhatSteps
  <2>2. TypeOK'
    BY TypeStep DEF IInv
  <2>3. \A u \in Threads : MutexBook(u)' /\ RegBook(u)' /\ RoundBook(u)'
    BY <2>1, <2>2, MutexStep, RegStep, RoundStep DEF IInv
  <2>4. ASSUME NEW u \in owed' PROVE OwedBook(u)'
    BY <2>1, <2>2, OwedActs, OwedStays, OwedBegins DEF IInv, TypeOK
  <2> QED
    BY <2>2, <2>3, <2>4 DEF IInv
<1> QED
  BY <1>1, <1>2

(* IInv holds throughout: what each thread has loaded, counted and noted, and *)
(* how far a broadcast has come, are in step (pthread_cond.c:689-727,         *)
(* 796-814, 855-866).                                                       *)
THEOREM Invariance == Spec => []IInv
BY InitIInv, StepIInv, PTL DEF Spec

(* Every variable is of its type, and the word of the internal lock, which  *)
(* never locks anything, stays 0 (pthread_cond.c:324-352).                  *)
THEOREM TypeCorrect == Spec => []TypeOK
<1>1. IInv => TypeOK
  BY DEF IInv
<1> QED
  BY <1>1, Invariance, PTL

(* Whoever sleeps when a broadcast finds that somebody waits is on its way   *)
(* out of the wait when the broadcast ends (pthread_cond.c:855-866), however *)
(* many waiters and wakers there are and whatever they do to the counters   *)
(* at the same time.                                                       *)
THEOREM BroadcastFrees == Spec => []BroadcastFreesSleepers
<1>1. IInv => BroadcastFreesSleepers
  <2> SUFFICES ASSUME IInv, ~BroadcastUnderWay, NEW t \in owed
               PROVE  pc[t] # "asleep" /\ (expired[t] \/ bc_seq[t] # cond.broadcast_seq)
    BY DEF BroadcastFreesSleepers
  <2>1. OwedBook(t) /\ bc_seq[t] \in Nat /\ cond.broadcast_seq \in Nat
    BY DEF IInv, TypeOK, Fields
  <2> QED
    BY <2>1 DEF OwedBook, LateForRound
<1> QED
  BY <1>1, Invariance, PTL
=============================================================================
