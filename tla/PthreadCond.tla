----------------------------- MODULE PthreadCond -----------------------------
(***************************************************************************)
(* One futex condition variable (pthread_cond.c), the mutex that goes with  *)
(* it, and the threads that wait, signal and broadcast.                     *)
(*                                                                         *)
(* A waiter counts itself in total_seq, notes the counters, and sleeps in   *)
(* the kernel while futex has the value that it noted.  A signal adds one   *)
(* to wakeup_seq and wakes a sleeper, a broadcast catches up with total_seq *)
(* and wakes them all.  Who wakes up leaves if the counters have moved on,  *)
(* and adds one to woken_seq.                                              *)
(*                                                                         *)
(* The comments of the code say that an internal lock keeps the threads     *)
(* apart.  It does not (lll_lock below), so each access to a counter is a   *)
(* step of its own here, and ++ is two.                                    *)
(*                                                                         *)
(* The mutex is one that keeps the promise of module Mutex.  Threads signal *)
(* and broadcast with the mutex held, so that those calls are one at a      *)
(* time.  (POSIX does not ask for that: two broadcasts without the mutex     *)
(* could undo each other's ++ of broadcast_seq, pthread_cond.c:864.)       *)
(* The branches that nothing reaches are left out: pthread_cond_init        *)
(* and destroy leave total_seq below -1, the cleanup handlers are macros    *)
(* that expand to nothing, and no attribute makes the variable shared.     *)
(***************************************************************************)
EXTENDS Integers, FiniteSets

CONSTANTS Waiters,       \* the threads that may wait without a deadline
          TimedWaiters,  \* the threads that may wait with a deadline
          Wakers,        \* the threads that may signal and broadcast
          Hle,           \* the mutex is a tas_hle lock: its unlock may commit
          NumTries,      \* TK_NUM_TRIES
          MaxWaits       \* bound of the model: how many waits are begun

ASSUME PthreadCondAssumption ==
  /\ Waiters \cap TimedWaiters = {}
  /\ Hle \in BOOLEAN
  /\ NumTries \in Nat /\ MaxWaits \in Nat

VARIABLES cond,       \* the memory of the condition variable
          owner,      \* the thread that holds the mutex, or Nobody
          pc,         \* pc[t]: label of the code that t runs next
          reg,        \* reg[t]: a counter that t has loaded, or Empty
          seq,        \* seq[t]: the variable seq of t's wait
          bc_seq,     \* bc_seq[t]: the field bc_seq of t's wait
          futex_val,  \* futex_val[t]: the variable futex_val of t's wait
          tries,      \* tries[t]: aborted speculations of t's wait
          expired,    \* expired[t]: the kernel has seen the deadline of t pass
          spec,       \* spec[t]: t runs in a transaction that its wait began
          waits,      \* counts the waits begun, for the bound
          owed        \* history variable: the sleepers that a broadcast has found

loopVars == <<seq, bc_seq, futex_val, tries, expired>>
historyVars == <<waits, owed>>
vars == <<cond, owner, pc, reg, loopVars, spec, historyVars>>

Threads == Waiters \cup TimedWaiters \cup Wakers

Nobody == "nobody"

(* The mutex that nobody holds is no thread's.                             *)
ASSUME NobodyAssumption == Nobody \notin Threads

(* No counter loaded: never the value of a counter.                        *)
Empty == -1

Init ==
  /\ cond = [lock |-> 0, futex |-> 0, total_seq |-> 0, wakeup_seq |-> 0,
             woken_seq |-> 0, broadcast_seq |-> 0]
  /\ owner = Nobody
  /\ pc = [t \in Threads |-> "client"]
  /\ reg = [t \in Threads |-> Empty]
  /\ seq = [t \in Threads |-> 0]
  /\ bc_seq = [t \in Threads |-> 0]
  /\ futex_val = [t \in Threads |-> 0]
  /\ tries = [t \in Threads |-> 0]
  /\ expired = [t \in Threads |-> FALSE]
  /\ spec = [t \in Threads |-> FALSE]
  /\ waits = 0
  /\ owed = {}

Goto(t, label) == pc' = [pc EXCEPT ![t] = label]

Asleep == {t \in Threads : pc[t] = "asleep"}

-----------------------------------------------------------------------------
(***************************************************************************)
(* The internal lock.  Its word is 1 when bit 31 is set, 0 otherwise.  Both *)
(* macros repeat a compare-and-swap while it SUCCEEDS, and expect the new   *)
(* value where they mean to put it: on a word that is 0 the swap fails, so  *)
(* nothing is written and the lock counts as taken; nobody waits.          *)
(***************************************************************************)
Swaps(word, expected) == word = expected

(* Expected: the old value with bit 31 set.                                *)
atomic_bit_test_set(word) == ~Swaps(word, 1)

(* Expected: the old value plus 2^31, which turns bit 31 over.             *)
atomic_exchange_and_add(word) == ~Swaps(word, 1 - word)

(* Enabled when the loop ends; the word is not changed.                    *)
lll_lock == atomic_bit_test_set(cond.lock)

(* Also wakes a thread that sleeps on the word: there is none.             *)
lll_unlock == atomic_exchange_and_add(cond.lock)

-----------------------------------------------------------------------------
(***************************************************************************)
(* Counters: ++ on a plain field, a load and a store.                       *)
(***************************************************************************)
Load(t, field) == reg' = [reg EXCEPT ![t] = cond[field]]

Drop(t) == reg' = [reg EXCEPT ![t] = Empty]

Increment(t, label, field, next) ==
  /\ pc[t] = label
  /\ \/ /\ reg[t] = Empty
        /\ Load(t, field)
        /\ UNCHANGED <<cond, pc>>
     \/ /\ reg[t] # Empty
        /\ cond' = [cond EXCEPT ![field] = reg[t] + 1]
        /\ Drop(t)
        /\ Goto(t, next)

Assign(t, label, field, value, next) ==
  /\ pc[t] = label
  /\ cond' = [cond EXCEPT ![field] = value]
  /\ Goto(t, next)

-----------------------------------------------------------------------------
(***************************************************************************)
(* The program and its mutex.                                              *)
(***************************************************************************)
tl_lock(t) == owner = Nobody /\ owner' = t

(* In a transaction the unlock of tas_hle commits it; that of every other   *)
(* lock type is undone with the rest, and so never seen.                   *)
tl_unlock(t) ==
  \/ ~spec[t] /\ owner' = Nobody /\ UNCHANGED spec
  \/ spec[t] /\ Hle /\ spec' = [spec EXCEPT ![t] = FALSE] /\ UNCHANGED owner

(* The program takes the mutex for a call, unless it has it already.       *)
MayCall(t) == pc[t] = "client" /\ (spec[t] \/ owner \in {t, Nobody})

(* The loop of a wait is over, whatever ends it.                           *)
EndLoop(t) ==
  /\ seq' = [seq EXCEPT ![t] = 0]
  /\ bc_seq' = [bc_seq EXCEPT ![t] = 0]
  /\ futex_val' = [futex_val EXCEPT ![t] = 0]
  /\ tries' = [tries EXCEPT ![t] = 0]
  /\ expired' = [expired EXCEPT ![t] = FALSE]
  /\ owed' = owed \ {t}

(* A commit is the end of the wait that began the transaction.             *)
EndLoopIfCommitted(t) == IF spec[t] THEN EndLoop(t) ELSE UNCHANGED <<loopVars, owed>>

UnlockMutex(t) ==
  /\ pc[t] = "client" /\ (spec[t] \/ owner = t)
  /\ tl_unlock(t)
  /\ EndLoopIfCommitted(t)
  /\ UNCHANGED <<cond, pc, reg, waits>>

-----------------------------------------------------------------------------
(***************************************************************************)
(* __pthread_cond_wait and __pthread_cond_timedwait.                        *)
(***************************************************************************)
cond_wait(t) ==
  /\ MayCall(t)
  /\ waits < MaxWaits
  /\ waits' = waits + 1
  /\ lll_lock
  /\ tl_unlock(t)
  /\ EndLoopIfCommitted(t)
  /\ Goto(t, "total")
  /\ UNCHANGED <<cond, reg>>

(* The deadline is not looked at before the loop.                          *)
cond_timedwait(t) == cond_wait(t)

(* One new user of the condition variable.                                 *)
CountWaiter(t) ==
  /\ \/ Increment(t, "total", "total_seq", "count")
     \/ Increment(t, "count", "futex", "seq")
  /\ UNCHANGED <<owner, loopVars, spec, historyVars>>

NoteSeq(t) ==
  /\ pc[t] = "seq"
  /\ seq' = [seq EXCEPT ![t] = cond.wakeup_seq]
  /\ Goto(t, "round_seq")
  /\ UNCHANGED <<cond, owner, reg, bc_seq, futex_val, tries, expired, spec, historyVars>>

NoteRound(t) ==
  /\ pc[t] = "round_seq"
  /\ bc_seq' = [bc_seq EXCEPT ![t] = cond.broadcast_seq]
  /\ Goto(t, "value")
  /\ UNCHANGED <<cond, owner, reg, seq, futex_val, tries, expired, spec, historyVars>>

(* The top of the loop.  A timed wait looks at the time first, and may find *)
(* its deadline passed at any time.                                        *)
TooLate(t) ==
  /\ pc[t] = "value" /\ t \in TimedWaiters
  /\ Goto(t, IF bc_seq[t] # cond.broadcast_seq THEN "relock" ELSE "late")
  /\ EndLoop(t)
  /\ UNCHANGED <<cond, owner, reg, spec, waits>>

(* In time; the deadline has passed for good if the kernel saw it pass.     *)
(* Only an untimed wait speculates, while it has tries left.               *)
NoteFutex(t) ==
  /\ pc[t] = "value" /\ ~expired[t]
  /\ lll_unlock
  /\ futex_val' = [futex_val EXCEPT ![t] = cond.futex]
  /\ Goto(t, IF t \notin TimedWaiters /\ tries[t] < NumTries THEN "speculate" ELSE "sleep")
  /\ UNCHANGED <<cond, owner, reg, seq, bc_seq, tries, expired, spec, historyVars>>

(* enter_htm: 0, and the wait returns inside the transaction, without the   *)
(* mutex; or it fails at once.                                             *)
Speculate(t) ==
  /\ pc[t] = "speculate"
  /\ \/ /\ cond.futex = futex_val[t]
        /\ \/ Goto(t, "client") /\ spec' = [spec EXCEPT ![t] = TRUE] /\ UNCHANGED tries
           \/ Goto(t, "sleep") /\ tries' = [tries EXCEPT ![t] = @ + 1] /\ UNCHANGED spec
     \/ /\ cond.futex # futex_val[t]
        /\ Goto(t, "sleep")
        /\ UNCHANGED <<tries, spec>>
  /\ UNCHANGED <<cond, owner, reg, seq, bc_seq, futex_val, expired, historyVars>>

(* The transaction is undone, and enter_htm returns 1 to the wait.         *)
Abort(t) ==
  /\ spec[t]
  /\ spec' = [spec EXCEPT ![t] = FALSE]
  /\ tries' = [tries EXCEPT ![t] = @ + 1]
  /\ Goto(t, "sleep")
  /\ UNCHANGED <<cond, owner, reg, seq, bc_seq, futex_val, expired, historyVars>>

(* FUTEX_WAIT compares and sleeps in one step.                             *)
FutexWait(t) ==
  /\ pc[t] = "sleep"
  /\ Goto(t, IF cond.futex = futex_val[t] THEN "asleep" ELSE "awake")
  /\ futex_val' = [futex_val EXCEPT ![t] = 0]
  /\ UNCHANGED <<cond, owner, reg, seq, bc_seq, tries, expired, spec, historyVars>>

(* The kernel gives up; syscall then returns -1, never -ETIMEDOUT, so that  *)
(* the wait learns of it only when it looks at the time again.             *)
TimeOut(t) ==
  /\ pc[t] = "asleep" /\ t \in TimedWaiters
  /\ Goto(t, "awake")
  /\ expired' = [expired EXCEPT ![t] = TRUE]
  /\ UNCHANGED <<cond, owner, reg, seq, bc_seq, futex_val, tries, spec, historyVars>>

CheckRound(t) ==
  /\ pc[t] = "awake"
  /\ lll_lock
  /\ IF bc_seq[t] # cond.broadcast_seq
       THEN Goto(t, "relock") /\ EndLoop(t)
       ELSE Goto(t, "val") /\ UNCHANGED <<loopVars, owed>>
  /\ UNCHANGED <<cond, owner, reg, spec, waits>>

(* val = wakeup_seq.                                                       *)
LoadVal(t) ==
  /\ pc[t] = "val"
  /\ Load(t, "wakeup_seq")
  /\ Goto(t, "eligible")
  /\ UNCHANGED <<cond, owner, loopVars, spec, historyVars>>

(* The condition of the loop.                                              *)
CheckEligible(t) ==
  /\ pc[t] = "eligible"
  /\ IF reg[t] = seq[t] \/ cond.woken_seq = reg[t]
       THEN Goto(t, "value") /\ UNCHANGED <<loopVars, owed>>
       ELSE Goto(t, "leave") /\ EndLoop(t)
  /\ Drop(t)
  /\ UNCHANGED <<cond, owner, spec, waits>>

(* A wait that is too late takes part in the counts as if signalled.       *)
CountTimeout(t) ==
  /\ \/ Increment(t, "late", "wakeup_seq", "late_change")
     \/ Increment(t, "late_change", "futex", "leave")
  /\ UNCHANGED <<owner, loopVars, spec, historyVars>>

CountWoken(t) ==
  /\ Increment(t, "leave", "woken_seq", "relock")
  /\ UNCHANGED <<owner, loopVars, spec, historyVars>>

Relock(t) ==
  /\ pc[t] = "relock"
  /\ lll_unlock
  /\ tl_lock(t)
  /\ Goto(t, "client")
  /\ UNCHANGED <<cond, reg, loopVars, spec, historyVars>>

-----------------------------------------------------------------------------
(***************************************************************************)
(* __pthread_cond_signal and __pthread_cond_broadcast.                      *)
(***************************************************************************)
cond_wake(t, label) ==
  /\ MayCall(t) /\ ~spec[t]
  /\ owner' = t
  /\ lll_lock
  /\ Goto(t, label)
  /\ UNCHANGED <<cond, reg, loopVars, spec, historyVars>>

cond_signal(t) == cond_wake(t, "signal")

cond_broadcast(t) == cond_wake(t, "broadcast")

(* Are there any waiters to be woken?  total_seq is loaded, then compared.  *)
LoadTotal(t, label) ==
  /\ pc[t] = label /\ reg[t] = Empty
  /\ Load(t, "total_seq")
  /\ UNCHANGED <<pc, owed>>

NobodyWaits(t, label) ==
  /\ pc[t] = label /\ reg[t] # Empty
  /\ reg[t] <= cond.wakeup_seq
  /\ lll_unlock
  /\ Drop(t)
  /\ Goto(t, "client")
  /\ UNCHANGED owed

SomebodyWaits(t, label) ==
  /\ pc[t] = label /\ reg[t] # Empty
  /\ reg[t] > cond.wakeup_seq

CheckSignal(t) ==
  /\ \/ LoadTotal(t, "signal")
     \/ NobodyWaits(t, "signal")
     \/ /\ SomebodyWaits(t, "signal")
        /\ Drop(t)
        /\ Goto(t, "mark")
        /\ UNCHANGED owed
  /\ UNCHANGED <<cond, owner, loopVars, spec, waits>>

MarkOne(t) ==
  /\ \/ Increment(t, "mark", "wakeup_seq", "change")
     \/ Increment(t, "change", "futex", "wake")
  /\ UNCHANGED <<owner, loopVars, spec, historyVars>>

(* FUTEX_WAKE_OP returns how many it has woken, and the code takes anything *)
(* but 0 for a failure: it then wakes once more.                           *)
WakeOne(t) ==
  /\ pc[t] \in {"wake", "wake_again"}
  /\ \/ /\ Asleep = {}
        /\ Goto(t, "client")
     \/ \E u \in Asleep :
          pc' = [pc EXCEPT ![u] = "awake",
                           ![t] = IF pc[t] = "wake" THEN "wake_again" ELSE "client"]
  /\ UNCHANGED <<cond, owner, reg, loopVars, spec, historyVars>>

CheckBroadcast(t) ==
  /\ \/ LoadTotal(t, "broadcast")
     \/ NobodyWaits(t, "broadcast")
     \/ /\ SomebodyWaits(t, "broadcast")
        /\ Goto(t, "catch_up")
        /\ owed' = owed \cup Asleep
        /\ UNCHANGED reg
  /\ UNCHANGED <<cond, owner, loopVars, spec, waits>>

(* Mutant of MarkAll: the value is used once after it was given up.        *)
MarkAllDropping(t) ==
  /\ \/ Assign(t, "catch_up", "wakeup_seq", reg[t], "catch_up_woken") /\ UNCHANGED reg
     \/ Assign(t, "catch_up_woken", "woken_seq", reg[t], "catch_up_futex") /\ Drop(t)
     \/ Assign(t, "catch_up_futex", "futex", 2 * reg[t], "round") /\ UNCHANGED reg
  /\ UNCHANGED <<owner, loopVars, spec, historyVars>>

(* Mark them all as woken: three fields from the one value of total_seq.    *)
MarkAll(t) ==
  /\ \/ Assign(t, "catch_up", "wakeup_seq", reg[t], "catch_up_woken") /\ UNCHANGED reg
     \/ Assign(t, "catch_up_woken", "woken_seq", reg[t], "catch_up_futex") /\ UNCHANGED reg
     \/ Assign(t, "catch_up_futex", "futex", 2 * reg[t], "round") /\ Drop(t)
  /\ UNCHANGED <<owner, loopVars, spec, historyVars>>

(* Mutant of NextRound: the round is not counted.                          *)
NextRoundUncounted(t) ==
  /\ Assign(t, "round", "broadcast_seq", cond.broadcast_seq, "wake_all")
  /\ UNCHANGED <<owner, reg, loopVars, spec, historyVars>>

NextRound(t) ==
  /\ Increment(t, "round", "broadcast_seq", "wake_all")
  /\ UNCHANGED <<owner, loopVars, spec, historyVars>>

WakeAll(t) ==
  /\ pc[t] = "wake_all"
  /\ lll_unlock
  /\ pc' = [u \in Threads |-> CASE u = t -> "client"
                                [] u \in Asleep -> "awake"
                                [] OTHER -> pc[u]]
  /\ UNCHANGED <<cond, owner, reg, loopVars, spec, historyVars>>

-----------------------------------------------------------------------------
(***************************************************************************)
(* The dispatch of txlock.c, and the names of the C library in front of it. *)
(***************************************************************************)

(* Set in the code: the other choice is module TxCond.                     *)
USE_PTHREAD_COND_VARS == TRUE

tc_wait(t) == USE_PTHREAD_COND_VARS /\ cond_wait(t)

tc_timedwait(t) == USE_PTHREAD_COND_VARS /\ cond_timedwait(t)

tc_signal(t) == USE_PTHREAD_COND_VARS /\ cond_signal(t)

tc_broadcast(t) == USE_PTHREAD_COND_VARS /\ cond_broadcast(t)

pthread_cond_wait(t) == tc_wait(t)

pthread_cond_timedwait(t) == tc_timedwait(t)

pthread_cond_signal(t) == tc_signal(t)

pthread_cond_broadcast(t) == tc_broadcast(t)

Step(t) ==
  \/ CountWaiter(t)
  \/ NoteSeq(t)
  \/ NoteRound(t)
  \/ TooLate(t)
  \/ NoteFutex(t)
  \/ Speculate(t)
  \/ FutexWait(t)
  \/ CheckRound(t)
  \/ LoadVal(t)
  \/ CheckEligible(t)
  \/ CountTimeout(t)
  \/ CountWoken(t)
  \/ CheckSignal(t)
  \/ MarkOne(t)
  \/ WakeOne(t)
  \/ CheckBroadcast(t)
  \/ MarkAll(t)
  \/ NextRound(t)
  \/ WakeAll(t)

(* What the kernel and the hardware do to t.                               *)
Happens(t) == TimeOut(t) \/ Abort(t)

Next ==
  \/ \E t \in Threads : Step(t) \/ Relock(t) \/ Happens(t) \/ UnlockMutex(t)
  \/ \E t \in Waiters : pthread_cond_wait(t)
  \/ \E t \in TimedWaiters : pthread_cond_timedwait(t)
  \/ \E t \in Wakers : pthread_cond_signal(t) \/ pthread_cond_broadcast(t)

Spec == Init /\ [][Next]_vars
-----------------------------------------------------------------------------
Fields == {"lock", "futex", "total_seq", "wakeup_seq", "woken_seq", "broadcast_seq"}

Labels ==
  {"client", "total", "count", "seq", "round_seq", "value", "speculate", "sleep", "asleep",
   "awake", "val", "eligible", "late", "late_change", "leave", "relock",
   "signal", "mark", "change", "wake", "wake_again",
   "broadcast", "catch_up", "catch_up_woken", "catch_up_futex", "round", "wake_all"}

(* Every variable is of its type; the word of the internal lock stays 0.    *)
TypeOK ==
  /\ cond \in [Fields -> Nat] /\ cond.lock = 0
  /\ owner \in Threads \cup {Nobody}
  /\ pc \in [Threads -> Labels]
  /\ reg \in [Threads -> Nat \cup {Empty}]
  /\ seq \in [Threads -> Nat] /\ bc_seq \in [Threads -> Nat] /\ futex_val \in [Threads -> Nat]
  /\ tries \in [Threads -> Nat]
  /\ expired \in [Threads -> BOOLEAN]
  /\ spec \in [Threads -> BOOLEAN]
  /\ owed \subseteq Threads /\ waits \in Nat

BroadcastUnderWay ==
  \E t \in Threads : pc[t] \in {"catch_up", "catch_up_woken", "catch_up_futex", "round", "wake_all"}

(* "Wake up all threads waiting" (pthread.h:995): whoever sleeps when a      *)
(* broadcast finds that somebody waits is on its way out of the wait when    *)
(* the broadcast ends, although new waits and timeouts change the counters   *)
(* at the same time (pthread_cond.c:856-866, 727).                          *)
BroadcastFreesSleepers ==
  ~BroadcastUnderWay =>
    \A t \in owed : pc[t] # "asleep" /\ (expired[t] \/ bc_seq[t] # cond.broadcast_seq)

(* "Are there any waiters to be woken?" (pthread_cond.c:799): while a       *)
(* thread sleeps, nobody is on the way out of a wait, and no signal or      *)
(* broadcast is under way, the next one finds a waiter.                    *)
SleepersAreSeen ==
  /\ Asleep # {}
  /\ \A t \in Threads : pc[t] \in {"asleep", "client", "relock"} /\ ~spec[t]
  => cond.total_seq > cond.wakeup_seq
-----------------------------------------------------------------------------
(***************************************************************************)
(* The inductive invariant behind TypeOK and BroadcastFreesSleepers.         *)
(***************************************************************************)
WakerLabels ==
  {"signal", "mark", "change", "wake", "wake_again",
   "broadcast", "catch_up", "catch_up_woken", "catch_up_futex", "round", "wake_all"}

(* Who signals or broadcasts has the mutex, and so is the only one; who     *)
(* speculates has left the wait and has not called anything since.         *)
MutexBook(t) ==
  /\ pc[t] \in WakerLabels => owner = t /\ ~spec[t]
  /\ spec[t] => pc[t] = "client"

(* A counter is loaded where it is used, and the count of the rounds has     *)
(* not changed since the one broadcaster loaded it.                        *)
RegBook(t) ==
  /\ pc[t] \in {"eligible", "catch_up", "catch_up_woken", "catch_up_futex"} => reg[t] # Empty
  /\ pc[t] = "round" => reg[t] \in {Empty, cond.broadcast_seq}

(* The rounds only count up, so a round that was noted and is not the        *)
(* current one stays an old one.                                           *)
RoundBook(t) == bc_seq[t] <= cond.broadcast_seq

LateForRound(t) == bc_seq[t] < cond.broadcast_seq

(* A sleeper that a broadcast has found sleeps until the broadcast is over,  *)
(* and its round is an old one before it is woken; if the kernel wakes it   *)
(* earlier, its deadline has passed, and it goes round the loop once more   *)
(* but never back to sleep.                                                *)
OwedBook(t) ==
  \/ /\ pc[t] = "asleep" /\ BroadcastUnderWay
     /\ (\E u \in Threads : pc[u] = "wake_all") => LateForRound(t)
  \/ pc[t] = "awake" /\ (expired[t] \/ LateForRound(t))
  \/ pc[t] \in {"val", "eligible", "value"} /\ expired[t]

IInv ==
  /\ TypeOK
  /\ \A t \in Threads : MutexBook(t) /\ RegBook(t) /\ RoundBook(t)
  /\ \A t \in owed : OwedBook(t)
=============================================================================
