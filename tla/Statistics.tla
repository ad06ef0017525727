----------------------------- MODULE Statistics -----------------------------
(***************************************************************************)
(* The threads of a process that uses txlock, from their creation to the     *)
(* end of the process, and the statistics that they keep: each thread pushes *)
(* a record of counters on a list without locks, goes on counting in it, and *)
(* the thread that ends the process adds up the records that it finds.      *)
(*                                                                         *)
(* A record is named by its thread.  Of its counters, which are all used     *)
(* alike, one is modelled, without the limit of 32 bits.  One thread at most *)
(* calls exit, directly or in a signal handler, and it is not interrupted by *)
(* a second signal; what the handlers of the program do is not modelled.    *)
(***************************************************************************)
EXTENDS Integers, Sequences, FiniteSets

CONSTANTS Threads,   \* all threads that the process may have
          Main,      \* the one that runs main
          MaxCount   \* bound of the model: what a thread counts at most

(* The C null pointer: no thread has its record there.                     *)
Null == "null"

ASSUME StatisticsAssumption ==
  IsFiniteSet(Threads) /\ Main \in Threads /\ MaxCount \in Nat /\ Null \notin Threads

VARIABLES pc,             \* pc[t]: label of the code that t runs next
          tm_stats_head,  \* the newest record, by its thread
          my_tm_stats,    \* my_tm_stats[t]: t has a record
          next,           \* next[t]: the field next of t's record
          count,          \* count[t]: the counter of t's record
          spawned,        \* the threads whose spawn_struct is allocated
          curr,           \* the record that the walk looks at next
          tm_stats,       \* the sums of the walk: threads and count
          order,          \* history variable: the records in the order of their pushes
          start           \* history variable: the list and its sum as the walk began

listVars == <<tm_stats_head, my_tm_stats, next, order>>
walkVars == <<curr, tm_stats, start>>
vars == <<pc, listVars, count, spawned, walkVars>>

(* After the constructor of the library.                                   *)
Init ==
  /\ pc = [t \in Threads |-> IF t = Main THEN "run" ELSE "unborn"]
  /\ tm_stats_head = Main
  /\ my_tm_stats = [t \in Threads |-> t = Main]
  /\ next = [t \in Threads |-> Null]
  /\ count = [t \in Threads |-> 0]
  /\ spawned = {}
  /\ curr = Null
  /\ tm_stats = [threads |-> 0, count |-> 0]
  /\ order = <<Main>>
  /\ start = [records |-> 0, count |-> 0]

Goto(t, label) == pc' = [pc EXCEPT ![t] = label]

(* The process exists, and t is one of its threads.                        *)
Alive(t) == pc[t] \notin {"unborn", "gone"} /\ \A u \in Threads : pc[u] # "over"

Exiting == \E t \in Threads : pc[t] \in {"walk", "over"}

-----------------------------------------------------------------------------
(***************************************************************************)
(* Threads come and go.                                                    *)
(***************************************************************************)

(* t, in its own code, creates u through the library.  libpthread may       *)
(* refuse, and the spawn_struct is then never freed.                       *)
_tl_pthread_create(t, u) ==
  /\ Alive(t) /\ pc[t] = "run" /\ pc[u] = "unborn"
  /\ spawned' = spawned \cup {u}
  /\ Goto(u, "enter") \/ Goto(u, "gone")
  /\ UNCHANGED <<listVars, count, walkVars>>

pthread_create(t, u) == _tl_pthread_create(t, u)

(* A thread that was not created through the library introduces itself.    *)
libpthread_create(t, u) ==
  /\ Alive(t) /\ pc[t] = "run" /\ pc[u] = "unborn"
  /\ Goto(u, "enter")
  /\ UNCHANGED <<listVars, count, spawned, walkVars>>

(* A cleared record, unless t has one: the program may call this again.     *)
tl_thread_enter(t) ==
  /\ Alive(t) /\ pc[t] \in {"enter", "run"}
  /\ IF my_tm_stats[t]
       THEN Goto(t, "run") /\ UNCHANGED <<my_tm_stats, count>>
       ELSE /\ Goto(t, "link")
            /\ my_tm_stats' = [my_tm_stats EXCEPT ![t] = TRUE]
            /\ count' = [count EXCEPT ![t] = 0]
  /\ UNCHANGED <<tm_stats_head, next, order, spawned, walkVars>>

LinkStats(t) ==
  /\ Alive(t) /\ pc[t] = "link"
  /\ next' = [next EXCEPT ![t] = tm_stats_head]
  /\ Goto(t, "push")
  /\ UNCHANGED <<tm_stats_head, my_tm_stats, order, count, spawned, walkVars>>

Pushed(t) ==
  /\ tm_stats_head' = t
  /\ order' = Append(order, t)
  /\ Goto(t, "run")

(* Mutant of PushStats: a store instead of the compare-and-swap.           *)
PushStatsStore(t) ==
  /\ Alive(t) /\ pc[t] = "push"
  /\ Pushed(t)
  /\ UNCHANGED <<my_tm_stats, next, count, spawned, walkVars>>

(* Mutant of PushStats: it tries again without a new look at the head.     *)
PushStatsAgain(t) ==
  /\ Alive(t) /\ pc[t] = "push"
  /\ tm_stats_head = next[t] /\ Pushed(t)
  /\ UNCHANGED <<my_tm_stats, next, count, spawned, walkVars>>

(* The compare-and-swap fails if somebody was faster.                      *)
PushStats(t) ==
  /\ Alive(t) /\ pc[t] = "push"
  /\ IF tm_stats_head = next[t] THEN Pushed(t)
     ELSE Goto(t, "link") /\ UNCHANGED <<tm_stats_head, order>>
  /\ UNCHANGED <<my_tm_stats, next, count, spawned, walkVars>>

(* Mutant of TM_STATS_ADD: the macro next to it.                           *)
TM_STATS_SUB(t) ==
  /\ Alive(t) /\ pc[t] = "run"
  /\ count' = [count EXCEPT ![t] = @ - 1]
  /\ UNCHANGED <<pc, listVars, spawned, walkVars>>

(* A lock function adds 1 to a counter of its thread.                      *)
TM_STATS_ADD(t) ==
  /\ Alive(t) /\ pc[t] = "run"
  /\ count[t] < MaxCount
  /\ count' = [count EXCEPT ![t] = @ + 1]
  /\ UNCHANGED <<pc, listVars, spawned, walkVars>>

(* The start routine returns.                                              *)
_tl_dummy_thread_main(t) ==
  /\ Alive(t) /\ pc[t] = "run" /\ t \in spawned
  /\ spawned' = spawned \ {t}
  /\ Goto(t, "gone")
  /\ UNCHANGED <<listVars, count, walkVars>>

(* The thread ends without a return of its start routine.                  *)
pthread_exit(t) ==
  /\ Alive(t) /\ pc[t] = "run"
  /\ Goto(t, "gone")
  /\ UNCHANGED <<listVars, count, spawned, walkVars>>

-----------------------------------------------------------------------------
(***************************************************************************)
(* The end of the process.                                                 *)
(***************************************************************************)
(* The sums of the first 0, 1, ..., n elements of c.                       *)
Sums(c, n) ==
  LET s[i \in 0 .. n] == IF i = 0 THEN 0 ELSE s[i - 1] + c[i] IN s

(* The sums of the counters in the list, from its end.                     *)
Counted == Sums([i \in 1 .. Len(order) |-> count[order[i]]], Len(order))

ListedCount == Counted[Len(order)]

exit(t) ==
  /\ Alive(t) /\ ~Exiting
  /\ curr' = tm_stats_head
  /\ start' = [records |-> Len(order), count |-> ListedCount]
  /\ Goto(t, "walk")
  /\ UNCHANGED <<listVars, count, spawned, tm_stats>>

(* main returns, or a thread calls exit.                                   *)
ProgramExit(t) == pc[t] = "run" /\ exit(t)

(* Both handlers end the process, whatever t was about to do, if the old     *)
(* handler for SIGINT, which both of them call, comes back.                *)
sig_int_handler(t) == exit(t)

sig_term_handler(t) == exit(t)

(* Mutant of AddRecord: the walk forgets the record that has no next one.    *)
AddRecordBut(t) ==
  /\ Alive(t) /\ pc[t] = "walk" /\ curr # Null
  /\ tm_stats' = IF next[curr] = Null THEN tm_stats
                 ELSE [threads |-> tm_stats.threads + 1, count |-> tm_stats.count + count[curr]]
  /\ curr' = next[curr]
  /\ UNCHANGED <<pc, listVars, count, spawned, start>>

(* Mutant of AddRecord: a record without counts is not counted.            *)
AddRecordUnlessZero(t) ==
  /\ Alive(t) /\ pc[t] = "walk" /\ curr # Null /\ count[curr] > 0
  /\ tm_stats' = [threads |-> tm_stats.threads + 1, count |-> tm_stats.count + count[curr]]
  /\ curr' = next[curr]
  /\ UNCHANGED <<pc, listVars, count, spawned, start>>

AddRecord(t) ==
  /\ Alive(t) /\ pc[t] = "walk" /\ curr # Null
  /\ tm_stats' = [threads |-> tm_stats.threads + 1, count |-> tm_stats.count + count[curr]]
  /\ curr' = next[curr]
  /\ UNCHANGED <<pc, listVars, count, spawned, start>>

(* The sums are printed; the process is over.                              *)
Report(t) ==
  /\ Alive(t) /\ pc[t] = "walk" /\ curr = Null
  /\ Goto(t, "over")
  /\ UNCHANGED <<listVars, count, spawned, walkVars>>

(* What a thread does inside the library.                                  *)
Step(t) ==
  \/ tl_thread_enter(t)
  \/ LinkStats(t)
  \/ PushStats(t)
  \/ AddRecord(t)
  \/ Report(t)

Next ==
  \E t \in Threads :
    \/ Step(t)
    \/ TM_STATS_ADD(t)
    \/ _tl_dummy_thread_main(t)
    \/ pthread_exit(t)
    \/ ProgramExit(t)
    \/ sig_int_handler(t)
    \/ sig_term_handler(t)
    \/ \E u \in Threads : pthread_create(t, u) \/ libpthread_create(t, u)

Spec == Init /\ [][Next]_vars

(* A thread inside the library keeps running.                              *)
FairSpec == Spec /\ \A t \in Threads : WF_vars(Step(t))
-----------------------------------------------------------------------------
(* Every variable is of its type.                                          *)
TypeOK ==
  /\ pc \in [Threads -> {"unborn", "enter", "link", "push", "run", "walk", "over", "gone"}]
  /\ tm_stats_head \in Threads
  /\ my_tm_stats \in [Threads -> BOOLEAN]
  /\ next \in [Threads -> Threads \cup {Null}]
  /\ count \in [Threads -> Nat]
  /\ spawned \subseteq Threads
  /\ curr \in Threads \cup {Null}
  /\ tm_stats \in [threads : Nat, count : Nat]
  /\ start \in [records : Nat, count : Nat]
  /\ order \in Seq(Threads)

(* Pushes that run into each other lose no record and close no cycle: from   *)
(* the head, the list goes through all records, from the last push to the    *)
(* first, and every thread that counts has one in it (txlock.c:803-805).    *)
ListIsOrder ==
  /\ tm_stats_head = order[Len(order)]
  /\ next[order[1]] = Null
  /\ \A i \in 2 .. Len(order) : next[order[i]] = order[i - 1]
  /\ \A i, j \in 1 .. Len(order) : order[i] = order[j] => i = j
  /\ \A t \in Threads :
       pc[t] = "run" => my_tm_stats[t] /\ \E i \in 1 .. Len(order) : order[i] = t

(* What is reported at the end was true: all records that were there when    *)
(* the walk began are counted, none twice, none that came later; and the sum *)
(* lies between that of the beginning and that of the end, although the      *)
(* threads go on counting (txlock.c:848-860).                               *)
ReportIsTrue ==
  (\E t \in Threads : pc[t] = "over") =>
    /\ tm_stats.threads = start.records
    /\ start.count <= tm_stats.count /\ tm_stats.count <= ListedCount

(* s is the list that the pointers make, from its last record to its first.  *)
FromHead(s) ==
  /\ s[Len(s)] = tm_stats_head
  /\ \A i \in 2 .. Len(s) : next[s[i]] = s[i - 1]
  /\ next[s[1]] = Null

Records ==
  CHOOSE s \in UNION {[1 .. n -> Threads] : n \in 1 .. Cardinality(Threads)} : FromHead(s)

(* The list and the walk implement a registry: whoever follows the pointers  *)
(* from the head finds one more record after each push, and loses none       *)
(* (txlock.c:803-805); the walk passes them all, from the newest that it      *)
(* found, one by one (848-860).                                            *)
R == INSTANCE Registry WITH
       members <- Records,
       Nobody <- Null,
       begun <- Exiting,
       turn <- curr,
       counted <- tm_stats.threads

RegistrySpec == R!Spec

(* A thread that is pushing its record gets to its start routine, unless the *)
(* process ends: the compare-and-swap does not fail for ever.              *)
PushEnds ==
  \A t \in Threads : pc[t] = "enter" ~> pc[t] \notin {"enter", "link", "push"} \/ Exiting

(* A process that begins to exit does end, whoever goes on pushing records. *)
ExitEnds == \A t \in Threads : pc[t] = "walk" ~> pc[t] = "over"
-----------------------------------------------------------------------------
(***************************************************************************)
(* The inductive invariant: what makes the list and the walk survive a step. *)
(***************************************************************************)
Listed(t) == \E i \in 1 .. Len(order) : order[i] = t

(* The list of ListIsOrder, which is never empty.                          *)
ListShape ==
  /\ Len(order) > 0
  /\ tm_stats_head = order[Len(order)]
  /\ next[order[1]] = Null
  /\ \A i \in 2 .. Len(order) : next[order[i]] = order[i - 1]
  /\ \A i, j \in 1 .. Len(order) : order[i] = order[j] => i = j

(* A thread has its record from tl_thread_enter on, and the record is in the *)
(* list when its push is over, not before.                                 *)
RecordBook(t) ==
  /\ pc[t] \in {"unborn", "enter"} => ~my_tm_stats[t]
  /\ pc[t] \in {"link", "push", "run"} => my_tm_stats[t]
  /\ pc[t] \in {"unborn", "enter", "link", "push"} => ~Listed(t)
  /\ pc[t] = "run" => Listed(t)

(* How many records the walk has still to count.                           *)
ToCount == start.records - tm_stats.threads

(* One thread walks, and it stands as deep in the list as records are left.  *)
WalkBook ==
  /\ ~Exiting => start.records = 0 /\ tm_stats.threads = 0
  /\ Exiting =>
       /\ start.records \in 1 .. Len(order) /\ ToCount \in 0 .. Len(order)
       /\ curr = IF ToCount = 0 THEN Null ELSE order[ToCount]
  /\ \A t, u \in Threads : pc[t] \in {"walk", "over"} /\ pc[u] \in {"walk", "over"} => t = u
  /\ \A t \in Threads : pc[t] = "over" => curr = Null

(* What was counted, and what is still to be counted, is not less than there *)
(* was as the walk began, and not more than there is.                      *)
SumBook ==
  /\ ~Exiting => tm_stats.count = 0
  /\ Exiting =>
       /\ start.count <= tm_stats.count + Counted[ToCount]
       /\ tm_stats.count + Counted[ToCount] <= ListedCount

IInv ==
  /\ TypeOK
  /\ ListShape
  /\ \A t \in Threads : RecordBook(t)
  /\ WalkBook
  /\ SumBook
=============================================================================
