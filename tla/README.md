# txlock in TLA+

txlock is a C library of locks and condition variables that use hardware transactional memory (HTM)
to *prefetch*: a thread that would have to wait for a lock runs its critical section anyway, inside a
transaction that is going to be undone, so that its data are in the cache when its turn comes. A
program links the library directly (`src/txlock.h`), or has its pthread functions replaced by it
(`src/tl-pthread.c`). This directory holds TLA+ models of its locks and condition variables, TLC
configurations that check them on small instances, and proofs for instances of any size.

To run: `tlc -config MCWordLocks.cfg MCWordLocks` and so on for the other `.cfg` files (the module is
the `MC` module whose name the file starts with); `tlapm WordLocksProofs.tla` for the proofs.
`PROJECT.json` maps every definition to the lines of source that it stands for.

## 1. Inventory of the system

| component | source | state | operations | interacts with |
|---|---|---|---|---|
| dispatch, initialisation | `txlock.c` 30-58, 674-790 | `using_lock_type`, three function pointers | `tl_lock`, `tl_trylock`, `tl_unlock`, `init_lib_txlock` | every lock type |
| `tas` | `txlock.c` 60-103 | a word per lock | lock, try-lock, unlock | |
| `tas_hle` | 109-148 | the same word | lock, unlock (the try-lock is `assert(0)`) | HTM |
| `tas_tm` | 154-193 | the same word | lock, try-lock, unlock | HTM, speculation flag |
| `tas_priority_tm` | 198-282 | the word, a count `ready` of promoted threads | lock, try-lock, unlock | HTM, speculation flag |
| `ticket`, `ticket_tm` | 287-374 | 32-bit counters `next` and `now` | lock, try-lock, unlock | HTM, speculation flag |
| `pthread`, `pthread_tm` | 380-446 | a mutex of libpthread | lock, try-lock, unlock | libpthread, HTM |
| `mcs`, `mcs_tm` | 450-671 | `tail`, `now_serving`, queue nodes, two lists of nodes per thread | lock, try-lock, unlock | HTM, speculation flag |
| HTM entry | `txutil.h` 127-150 | `spec_entry`, one per thread | `enter_htm` | the hardware |
| speculation queries | `txlock.c` 809-815 | none | `tl_in_spec`, `tl_stop_spec` | the hardware |
| utility lock | `txutil.h` 104-124 | a word | `ul_lock`, `ul_unlock` | `txcond` |
| condition variable dispatch | `txlock.c` 889-906 | a constant of `txutil.c` | `tc_wait`, `tc_timedwait`, `tc_signal`, `tc_broadcast` | both condition variables |
| `txcond` | `txcond.c` | a list of nodes with semaphores | wait, timed wait, signal, broadcast | the lock in use, the utility lock, malloc |
| futex condition variable | `pthread_cond.c` | sequence counters, a futex word, an internal lock | wait, timed wait, signal, broadcast | the lock in use, the kernel, HTM |
| statistics, thread creation | `txlock.c` 793-887 | a lock-free list of counters | `tl_thread_enter`, `_tl_pthread_create`, exit | |
| signal handlers | `txlock.c` 733-747 | the old handlers | end the process | statistics |
| interposition | `tl-pthread.c` | none | one-line wrappers | `tl_*`, `tc_*` |

Threads interact only through shared memory: there are no messages, and nothing outlives the process.
What is hard about this code:

* **Elision.** With `spec_entry` set, lock calls return at once and do nothing. That is correct only
  inside a transaction; a flag that stays set after an abort makes every later lock a no-op.
* **Aborts** at any instruction of the program's critical section, nested calls included, take the
  thread back to the lock call that began the transaction, which retries or falls back.
* **Conflicts.** A transaction that read a lock word is doomed when another thread writes it: this is
  the only thing that keeps an elided critical section apart from a real one (`tas_hle`), and that
  stops a waiter whose turn has come from speculating on while everybody waits for it (`ticket_tm`,
  `mcs_tm`).
* **Stale copies** of a word, a counter or a queue node, used after somebody else changed it.
* **Wrap-around** of the ticket counters.
* **Ownership of queue nodes**: reused while others still read them (`mcs_tm`), freed by whichever of
  waiter and waker comes second (`txcond`).
* **Locks that do not lock**: the internal lock of the futex condition variable keeps nobody out, so
  that its six counters are changed by several threads at once.
* **Lock-free lists**: threads push their statistics while the exiting process walks them.
* **Starvation**, lost wake-ups, and timeouts that race with signals.

Correctness, per component: the lock types exclude, their queues are first come first served and
starve nobody, and speculation is invisible; the condition variables lose no wake-up, wake nobody
twice, and neither leak nor use freed nodes; the statistics reported at the end count every thread
once and are true. `PROJECT.json` lists the hazards line by line with the
properties that answer each of them.

## 2. The modules

```
Mutex, FifoMutex                      what a lock promises
  FifoMutexProofs                     the second implements the first, and the first excludes
ListLemmas                            lemmas about lists without repetitions
LockClient                            the program: who may call what; pc, lk, held
  Htm                                 hardware transactions, spec_entry, enter_htm, elided calls
  LockWord > TasWord, PthreadMutex    the word of a lock: tatas; the mutex of libpthread
  TasLock TasTmLock TasPriorityLock HleLock PthreadLock PthreadTmLock
    WordLocks                         six lock types on one word, one of them in use
      MCWordLocks, WordLocksProofs
  TicketWord > TicketLock TicketTmLock
    TicketLocks                       the two ticket locks
      MCTicketLocks, TicketLocksProofs
  McsLock > McsLocks                  the two queue locks
      MCMcsLocks, McsLocksProofs
TxCond                                the txcond condition variable
  MCTxCond, TxCondProofs
PthreadCond                           the futex condition variable, and the dispatch between the two
  MCPthreadCond, PthreadCondProofs
Registry                              what the list of statistics promises
Statistics                            threads, their statistics, and the end of the process
  MCStatistics, StatisticsProofs
```

**LockClient.** `pc[t]` is the label that thread `t` runs next, `"client"` being the program's own code;
`lk[t]` is the argument of the lock call in progress; `held[t]` is the set of locks the *program* takes
itself to hold, elided ones included. The program never locks what it holds or unlocks what it does
not hold, and its blocking calls go up the order of `Locks`, so that a deadlock found by TLC is the
library's own. Try-locks go in any order.

**Htm.** `depth`, `saved`, `watch`, `doomed` are the hardware: nesting level, checkpoint, the locks whose
words the transaction has read, and whether one of them was overwritten. `Abort` may happen in any
state of a transaction (conflict, capacity, interrupt, `tl_stop_spec`); it restores `held` and resumes
at label `"abort"`, where `EnterHtmFailed` clears `spec_entry` as `enter_htm` does. `XEnd` commits only
what is not doomed. `spec_entry` is a thread-local variable that the program keeps; it is *not* taken
back by an abort in the model, because `enter_htm` writes it before the transaction begins.
`Owned(t)` is what `t` really holds: `saved[t].held` in a transaction, `held[t]` outside. All exclusion
properties are about `Owned`. A critical section has no data in the model: a prefetching transaction
is always undone, so what it reads and writes cannot matter to others.

**The lock modules** have one action per shared access. A call is an action named after the C function
(`tas_lock_tm`), which ends at once when elided and otherwise moves `pc` to the function's first label;
the loop's steps follow (`TasTmTake`, `TasTmSpeculate`, `TasTmFailed`, `TasTmSpin`). Test and
test-and-set is two steps, since others move between them. An unlock that is one store is one action.

**McsLock.** A node is named by its owner and its place in the owner's pool. `ptr[t]` stands for `pred` in
a lock and `current` in an unlock, `num[t]` for `cnt` and `dist`. `line` is a history variable: who waits
for a lock in order of the swap of `tail`; only properties read it. The two lists of a thread are
modelled with their links (`my_free_nodes`, `my_used_nodes`, `list_next`, `list_prev`), which
`alloc_more_nodes`, `UseNode` and `dealloc_node` update as the code does; an unlock takes its node out of
whichever place it has in the used list. `free` and `used` are history variables, the order of each
list; the unlock's search (`UsedNode`) goes through `used`, along which the links lead
(`NodesMatchLocks`). A node is taken off the free list only after the swap, as in the code, so a failed
try-lock leaves the lists alone.

**TxCond.** The mutex is one that keeps the promise of `Mutex`; the lists of nodes are modelled with
their links, because the code changes four pointers per operation and a broadcast walks a detached
list without a lock. The body of a section under the utility lock is one step with its unlock. Which
end of the list a signal takes depends on a linear congruential generator in the condition variable;
the model takes either. `queue` and `chain` are history variables.

**PthreadCond.** `cond` is the memory of the condition variable, field by field. The internal lock is
modelled by what its macros do (`pthread_cond.c:50-84`): both repeat a compare-and-swap *while it
succeeds*, and pass the new value as the expected one, so on a free word nothing is written and the
lock counts as taken. Since it excludes nobody, each access to a field is a step, and `++` is a load
and a store (`reg[t]` is the loaded value in between). A broadcast uses the one value of `total_seq`
that it loaded for its comparison in all three assignments (859-861), as the compiled code does. A
wait in an untimed loop may return in a transaction (`spec[t]`), without the mutex; what the program
does then is undone by `Abort`, except that with `Hle` the next unlock commits it. `Hle = TRUE` has
all behaviours of `Hle = FALSE` and that commit. A timed wait looks at its deadline at the top of the
loop (`TooLate` or `NoteFutex`) and may find it passed at any time; `expired` says that the kernel has
seen it pass, after which it stays passed. The threads of the model signal and broadcast with the mutex held, which
POSIX does not ask for; without it two wakers would also run into each other, and a stale store of the
`++` on `broadcast_seq` (864) could take back a round that a sleeper depends on. `FUTEX_WAIT` ends by a wake-up,
a changed word or a timeout; interruption by a signal handler is left out. `owed` is a history
variable: the threads that slept when a broadcast found that somebody waits. `tc_*` of `txlock.c` and
`pthread_cond_*` of `tl-pthread.c` are one-line definitions in front of the calls, as in the code.

**Statistics.** A record of counters is named by its thread, one counter stands for all (they are
used alike). Creation, introduction (`tl_thread_enter`), the two steps of a push, counting, the end of a
thread with and without `pthread_exit`, and the walk at exit, one record per step, while the other
threads go on. A push retries from the load of the head, as the loop does. `exit` may come from the
program or from either signal handler, at any label of the interrupted thread; one exit is not
interrupted by a second signal. `order` and `start` are history variables: the order of the pushes, and
the list as the walk began. **Registry** is the abstract specification: threads join one at a time and
stay, and the end counts from the newest on, each time going to the one that had joined just before
(`turn`). In the refinement `turn` is the record at which the walk along the pointers stands, so a push
that lost a record would lead the walk past a member and break `RegistrySpec`.

## 3. The runs

| run | instance | what it shows |
|---|---|---|
| `word_locks` | 3 threads on one lock, or 2 of them nest 2 locks; 2 tries, window 2 | each of the six lock types implements `Mutex` (`MutexSpec`); the word matches the owner; calls are elided only in transactions; `tas_hle` commits only when the locks it elides are free, and a commit leaves `held` as it was; `ready` counts the promoted threads; a call that no real holder blocks gets through (`CallGetsThrough`) |
| `hle_any_order` (violated) | 2 threads, 2 locks | `tas_hle` with unlocks in any order leaves a word taken for ever |
| `ticket_locks` | 3 threads, 2 locks, 4 tickets | exclusion (`MutualExclusionUnlessMisled`), tickets and waiting threads match, while the counters wrap around; a speculating waiter whose turn comes is doomed |
| `ticket_locks_live` | 3 threads, 1 lock | both implement `FifoMutex`; who takes a ticket is served |
| `ticket_tm_trylock` (violated) | 2 threads, 1 lock | the try-lock of `ticket_tm` reports success for a taken lock |
| `mcs_locks` | `mcs` and `mcs_tm`: 3 threads, 1 lock; `mcs`: 2 threads, 2 locks, one of the threads nests them; pools of 1 node | both implement `FifoMutex`; the queue is linked from holder to tail; only the head is told to go on; a waiter told to go on is not left speculating; no node is lost or on two lists, and the links of both lists stay whole (`NodesMatchLocks`); with `mcs`, who swaps into the queue is served |
| `mcs_tm_count` (violated) | 2 threads, 2 locks, `mcs_tm` | a waiter takes its number from a node that was reused, and the assertion of `txlock.c:565` fails |
| `txcond` | 2 waiters, 2 wakers (3 threads), 2 nodes | no wake-up is lost; no node is leaked or used after it was freed; each wait ends as what it was, woken or timed out (`OutcomeIsTrue`); whatever is taken from the list is freed, so every waiter taken is woken; no waiter is passed over for ever |
| `txcond_signal` (violated) | the same | a signal can be spent on a wait that has timed out while another thread sleeps |
| `pthread_cond` | a waiter, a timed waiter, a waker, 2 waits | a broadcast that finds somebody waiting frees every thread that sleeps at that time, however the accesses of waits and timeouts to the counters interleave with those of a waker that holds the mutex (`BroadcastFreesSleepers`) |
| `pthread_cond_signal` (violated) | the same | a signal that comes between the counting of a waiter and its note of the counters leaves it asleep, unseen by later signals and broadcasts |
| `statistics` | 3 threads, each counts once | concurrent pushes keep one list of all records; the walk reports the records that were there and a sum between those of its beginning and its end (`ReportIsTrue`); the list that the pointers make implements `Registry`, so that the walk meets every member, from the newest to the oldest (`RegistrySpec`); pushes and the exit end |

**Bounds.** Three threads are a holder and two competitors, which is what ordering, passing over and
the race of a newcomer with a waiter need; two locks are what nesting, elided inner calls and
out-of-order unlocks need. Three threads that all nest two locks are too many states for the runs
with liveness. `SmallProgram` in `MCWordLocks` and `MCMcsLocks` therefore restricts the *program*: in
one run, either all threads compete for one lock, or some nest two while one rests. Only a call of the
program can break it, never a step of the library, so no obligation of fairness is cut off. What
these runs check, liveness excepted, is proved without any such bound (section 4).

`TicketRange = 4` with three threads is the tightest range the assumption
allows, so every run wraps around many times; in the code it is 2^32. `NumTries` of 1 or 2 has a first
and a last try. `MinDistance` and `MaxDistance` make windows that some waiters are in and some
are not. `NumNodes = 1` in the queue locks forces every call of a thread that waits for nothing else to
reuse the node of its last call. `MaxServed` bounds `now_serving`, which only grows: a
lock that has served so many gets no new caller. With 2, a thread can come back
to a lock while others still wait for it. `NumNodes = 2` in `txcond` bounds the nodes allocated
at one time; a thread waits only when one is free, and since a timed-out node stays in the list, the
full pool is reached. `MaxWaits = 2` in `pthread_cond` lets a second wait, of the same or of the other thread, run
into a broadcast or signal of the first; how often the waker calls is not bounded. `MaxCount = 1` lets a record grow
before, behind and under the walk. Symmetry among threads is used in `ticket_locks` only.
`ticket_locks` stops at states where the try-lock of `ticket_tm` has misled its caller
(`CONSTRAINT NotMisled`): what follows is the finding of `ticket_tm_trylock`, and the other properties
are about the rest.

**Deadlock** is checked in all runs but `mcs_locks` and `mcs_tm_count`, where the bound `MaxServed` and
a real deadlock of `mcs_tm` (below) stop the system, and `statistics`, whose process ends.

**Fairness.** Weak fairness of each thread's steps inside a library function: the scheduler runs every
thread. Weak fairness of aborts: a transaction in which nobody ever commits ends at a timer interrupt
at the latest. For the ticket and queue locks, strong fairness of the unlock of a lock really held: the
program ends its critical sections even if it makes other calls in them. For `txcond`, strong fairness
of taking the head of the list: the generator's cycle of values includes 0, which chooses the head, so
of infinitely many signals that find a waiter infinitely many take the oldest. No fairness is assumed
of spin locks: `tas` and its kin may starve a thread, and no property says they do not;
`CallGetsThrough` speaks only of calls that no real holder blocks. `EveryCallerServed` of `McsLocks` is
about `mcs`: a thread of `mcs_tm` may wait for ever, by the third finding. `PushEnds` needs no more than a
thread that runs: a compare-and-swap of a push fails only when another thread's push succeeded, which
happens once per thread.

**Findings.** Each is a run that TLC must find violated.

1. `tas_unlock_hle` ends a level of the transaction without looking at the lock: after really taking
   lock 1 and eliding lock 2, unlocking 1 first commits the elision and never clears word 1.
2. `ticket_trylock_tm` drops the result of `ticket_trylock`.
3. `mcs_tm`: a waiter links itself and only then reads its predecessor's `cnt`; the predecessor may
   have unlocked and reused its node for another acquisition. The number is then wrong and the
   assertion fails; or, when the node is reused for the same lock, predecessor and waiter wait for each
   other's number for ever.
4. `txcond`: a timed-out wait leaves its node in the list, where it can absorb a signal. A wait whose
   semaphore has been posted, but which changes the status before its waker does, ends as a timeout too,
   and the signal is spent.
5. Futex condition variable: a waiter is counted in `total_seq`, then notes `wakeup_seq` and, later,
   `futex`. A signal in between adds to `wakeup_seq` what the waiter then takes as its start, and changes
   `futex` before the waiter notes it. The waiter sleeps with `total_seq = wakeup_seq`, and the tests at
   `pthread_cond.c:800` and 856 find nobody waiting. The internal lock was to exclude this.

Beside these, and seen while modelling, without a run of their own:

* A timed-out `txcond` wait returns without the mutex (`txcond.c:120`), so the model's program does not
  unlock it. A wait of `pthread_cond.c` that speculates returns without it too (715), in spite of the
  comment "Get the mutex before returning" (760); with `tas_hle` the caller's unlock commits that
  transaction (`txlock.c:141`), and what is committed ran without the mutex.
* `FUTEX_WAKE_OP` answers with the number of threads woken; the code takes that for a failure and wakes
  a second thread. `err == -ETIMEDOUT` (`pthread_cond.c:1079`) never holds, because `syscall` returns -1.
* `sig_term_handler` tests and calls `old_int_handler`, not `old_term_handler` (`txlock.c:745`). Both
  handlers call `exit`, which is not safe in a signal handler.
* The `spawn_struct` of a thread is not freed when `libpthread_create` fails or the thread ends by
  `pthread_exit`. A thread that never was introduced counts through a null `my_tm_stats`. The counters
  have 32 bits and no check.
* `tc_*` return no value. The README names the variable `LIBTXLOCK` where the code reads
  `LIBTXLOCK_LOCK` (`txlock.c:759`), and says that other pthread functions are not affected, while
  `pthread_create` is replaced as well.

## 4. The proofs

Each `...Proofs` module proves its theorems for any sets of threads and locks, and for any values of the
bounds and parameters that the runs fix; only `ReadyIsCount` and the module `Statistics`
(`StatisticsAssumption`) ask for finitely many threads. Assumptions
on constants are those in the modules' `ASSUME`s: locks are numbered from 1 (the order in which a
program nests them), `Null` and `Nobody` are no thread, there are more tickets than threads
(`TicketWord`; 2^32 in the code), the thread `Main` exists, and under the queue locks the program has
finitely many locks (`McsLock`, whose bound on the pools counts them) and a pool gets at least one
node at a time.

| module | theorem | statement |
|---|---|---|
| `WordLocksProofs` | `TypeCorrect` | `TypeOK` |
| | `OneOwner` | `WordHasOneOwner`: the word is 1 exactly while one thread really holds the lock |
| | `FlagIsTrue` | `FlagMatchesHardware`: the program runs with `spec_entry` set exactly in transactions |
| | `ImplementsMutex` | `MutexSpec`: step refinement of `Mutex` under `holds = Owned` |
| | `ElisionIsSafe` | `ElidedLocksAreFree`: a transaction of `tas_hle` that can commit elides only free locks |
| | `CommitIsClean` | `CommitRestoresHeld`: a commit leaves `held` as it was before the transaction |
| | `ReadyIsCount` | `ReadyCountsPromoted`: `ready` is the number of promoted threads |
| `TicketLocksProofs` | `TypeCorrect` | `TypeOK` |
| | `ExclusionUnlessMisled` | `MutualExclusionUnlessMisled` |
| | `TicketsAreAccounted` | `TicketsAccountForThreads` |
| | `TurnIsNoticed` | `TurnEndsSpeculation` |
| | `FlagIsTrue` | `FlagMatchesHardware` |
| | `ImplementsFifo` | `FifoSpec`, for every program that uses ticket, and every one that uses ticket_tm without `tl_trylock`; `ImplementsFifoUnlessMisled`: for any run in which no try-lock has lied |
| | `ExclusionWithoutTmTrylock` | `MutualExclusion` itself, without the reservation, for the same programs |
| `McsLocksProofs` | `TypeCorrect` | `TypeOK`; in particular no pool outgrows its bound |
| | `NodesStayMatched` | `NodesMatchLocks`: one used node per lock held or waited for, no node lost, both lists linked |
| | `QueueStaysLinked` | `QueueIsLinked`: the queue is whole from the holder's node to the tail |
| | `HeadGoesFirst` | `OnlyHeadGoesOn` |
| | `TurnIsNoticed` | `TurnEndsSpeculation` |
| | `FlagIsTrue` | `FlagMatchesHardware` |
| | `ImplementsFifo` | `FifoSpec`: step refinement of `FifoMutex`, try-locks included |
| `FifoMutexProofs` | `MutexExcludes` | what implements `Mutex` never lets two threads hold one lock |
| | `FifoIsMutex` | `FifoMutex` implements `Mutex`, so the ticket and queue locks exclude too |
| `StatisticsProofs` | `TypeCorrect` | `TypeOK` |
| | `ListIsComplete` | `ListIsOrder`: the list holds each record that was pushed, once |
| | `ReportIsCorrect` | `ReportIsTrue`: what the exit reports was true |
| | `ImplementsRegistry` | `RegistrySpec`: step refinement of `Registry` |
| `PthreadCondProofs` | `TypeCorrect` | `TypeOK` |
| | `BroadcastFrees` | `BroadcastFreesSleepers` |
| `TxCondProofs` | `TypeCorrect` | `TypeOK`; in particular no semaphore is posted twice |
| | `ListStaysLinked` | `ListIsLinked` |
| | `NodesOutliveTheirUse` | `NoUseAfterFree` |
| | `NodesAreNotLeaked` | `NoNodeLost` |
| | `WaitersAreNotOverlooked` | `NoWakeupLost` |
| | `OutcomesAreTrue` | `OutcomeIsTrue`: a wait ends as a wake-up only after a post, and as a timeout only while a waker is left to see it |

Each module of a component has an `Invariance` theorem for an inductive invariant `IInv`, which the
component's module defines (for the queue locks it is `IInv /\ LinksInv`, both in `McsLocksProofs`), and from which the others
follow. TLC agrees with each `IInv` on the instance of the component's run (`PthreadCond`: 2.3 million
states; `TxCond`: also with 3 nodes, 8.8 million). Lemmas say what a step of each *kind* keeps (a step
that only goes on to another label, one that begins a transaction, one that moves a node); the actions
are then sorted into those kinds, and the theorems combine them. What the invariants add to the
properties, and why:

**WordLocks.** `WordHasOneOwner` is not inductive: nothing in it says that the abort of a transaction, which
restores `held`, or an elided unlock leaves `Owned` alone. `IInv` adds a "book" per thread. For the
prefetching types (`FlagBook`): a transaction runs only the program's code with the flag set, and the flag is
set only in a transaction or at the landing label of an abort; so in a transaction no call reaches a
word. For `tas_hle` (`ElisionBook`): the depth of the transaction is the number of elided locks (plus one
between begin and return), and elided locks come after the really held ones in the order of nesting; so
a last-in-first-out unlock in a transaction is always that of an elided lock, and the outermost commit
leaves exactly what was held before. `ElidedLocksAreFree` needs, on top of `IInv`, that a transaction that is
not doomed still watches the words of what it elides (`ElisionsAreWatched`). The theorems have
the form `Spec /\ NestsIfElided => ...`, where `NestsIfElided` says: if the type in
use is `tas_hle`, then the program gives locks back in reverse order. Run `hle_any_order` shows that it
cannot be dropped; for the other five types it is vacuous.

**TicketLocks.** `TicketBook`: the places from `now` to `next`, counted with wrap-around, are
taken by one thread each, the first one by the holder if there is one and the others by the waiters; this is
what `Serve` and `TakeTicket` keep, and exclusion and the first-come-first-served order (`Queue`, defined from
`Before`: the place in the line) follow. `SpeculationBook`: a transaction keeps its place in the
queue and watches `now` from the moment it has found that it is not its turn. `TicketBook` is
claimed only while no try-lock has lied (`misled`), which is finding 2.

**McsLocks.** `QueueIsLinked` is about pointers, and no pointer property is inductive without knowing
whose node it points to. `PoolBook`: the two lists of a thread hold the nodes that it has allocated,
each once, and the used ones are one for each lock that it really holds or waits for (`NodeLocks`), so
that an unlock's search finds its node and only that. `LineBook`: who is in line is who waits, nobody
waits twice, and a thread that has been told to go on, or has found the queue empty, is the head of the
line of a lock that nobody holds. `TailBook` and `LinkBook`: the tail is the node of the last in line or
else of the holder, with nothing linked behind it; each one's node is linked to the next one's, or the
next one is just about to write that link and has the node in `ptr`. `CallBook` ties the registers of a
call in progress (`mine`, `ptr`) to these. `SpecBook` is as above, with the reads of `speculate` and
`wait` in a transaction for the watched word. Nodes are reused, so a step of one thread must be shown to
leave the nodes of the others alone but for `next` of the node it stands behind, `wait` of the node it
lets go, and `speculate`, on which nothing here depends: `OthersKeep` is that lemma. Nothing is said of
the numbers of `mcs_tm`, which are read from nodes that may have been reused: finding 3. `LinksInv` says
that the links of a thread lead through its two lists, and back through the used one. It stands beside
`IInv` because few steps touch the links and nothing else reads them but the choice of a free node. The
proof has a lemma for each link that `UseNode` and `dealloc_node` write, and covers the removal from the
middle of a list, which takes three nested locks and is beyond the run.

**FifoMutex.** Both abstract specifications are about who *really* holds; with the two theorems, the
refinements above give mutual exclusion for all ten lock types, under the conditions of their own
theorems: `tas_hle` with nested sections, `ticket_tm` without its try-lock.

**Statistics.** `ListShape` (the links follow `order`), `RecordBook` (a record is in the list exactly when
its push is over), `WalkBook` (the walk stands as deep as records are left) and `SumBook` (counted plus
to be counted lies between the sums of the beginning and of now). `ImplementsRegistry` maps `turn` to the
record of the walk, and `ListShape` says that the next pointer from it leads to the member before. The sums are a recursive function over
the places in the list; that it is defined, and what an increment of one record does to it, is proved
by induction on the places. The library's induction theorem takes an operator and cannot be used here;
`NatSetInduction` states induction for a set of numbers and is proved from well-foundedness.

**PthreadCond.** Since the internal lock keeps nobody out, the proof cannot use it. What holds instead:
only who has the mutex signals or broadcasts (`MutexBook`), so the count of rounds does not change between a
broadcaster's load and store of it (`RegBook`); a thread's noted round is never ahead of the current one
(`RoundBook`); and `OwedBook` follows a sleeper that a broadcast has found through the broadcast:
asleep until it ends, with an old round before it is woken, or, if its deadline has passed,
round the loop once more but never back to sleep.

**TxCond.** Two parties use a node: the thread that waits with it (`mine`) and the thread that took it from
the list (`chain`, `prev`). `NodeBook` reads off the status who is left: `WAITING`, both; `TIMEOUT`, only the
list or a waker; `AWOKEN`, exactly one of the two. With `PlacesBook` (no node in two places) each race on the
status has exactly one loser, who frees the node and is its last user, whence `NoUseAfterFree` and
`NoNodeLost`. `WaiterBook` keeps a sleeper's node unposted or its semaphore posted,
and says that a thread that has left its semaphore was posted, which gives `OutcomesAreTrue`; `WakerBook` says what a waker
has in hand at each label. The pointers are proved to follow `queue` and `chain` through every insertion and
removal at either end (`ListIsLinked`, itself a part of `IInv`).

Model-checked only: liveness (`CallGetsThrough`, `EveryCallerServed`, `TakenNodesAreFreed`,
`EventualFifo`, `PushEnds`, `ExitEnds`), which this prover cannot do under fairness. Every invariant and
every step refinement that a passing run checks is also a theorem.

To check the proofs: `tlapm M.tla` for each module `M` of the table.

## 5. Not modelled

* Build files, and the declarations of the headers.
* `dlopen`/`dlsym` and `setup_pthread_funcs`, messages, printed averages, parsing of the numeric
  environment variables (the distances are assumed to be the right way round).
* `spin_wait`, cycle counters, memory barriers: the models are sequentially consistent. The shared
  words are accessed by atomic operations or are volatile and, on x86, single aligned accesses.
* Failures of `malloc` and `sem_init`, and `tas_trylock_hle`, which end the process.
* In `pthread_cond.c`, what nothing reaches: cleanup handlers (macros that expand to nothing), the
  destruction of a variable in use, requeueing, shared and clock attributes, the `EINVAL` of a
  malformed deadline; and the results of the calls, which `tc_*` do not return.
* Liveness of the futex condition variable: no property says that a signal wakes somebody in the end
  (finding 5), and the rest is more states than a run can check for liveness.
* Signals and broadcasts on the futex condition variable without the mutex, which POSIX allows:
  `BroadcastFreesSleepers` is not claimed for them (section 2).
* The program's own signal handlers, and a second signal during the exit.

## 6. Plan

The modelling is complete up to what section 5 leaves out, and so are the proofs of safety: every
invariant and step refinement of a passing run has its theorem. What could still be proved:

* the order of `FifoMutex` for `mcs_tm` in terms of its numbers, for a program in which no node is reused
  while a successor still has to read its number (what finding 3 is about): then `NumberIsNext` holds;
* of `tas_hle`, that the strict nesting `NestsIfElided` is needed only of threads that elide;
* of `PthreadCond`, which signals are not lost: those given while nobody is between being counted and
  its note of the counters (finding 5).
