------------------------------- MODULE TxCond -------------------------------
(***************************************************************************)
(* One condition variable of txcond.c, the mutex that goes with it, and the *)
(* threads that wait, signal and broadcast.                                *)
(*                                                                         *)
(* A waiter allocates a node, puts it at the tail of a doubly linked list,  *)
(* gives back the mutex and sleeps on the node's semaphore.  A signal takes *)
(* the node at one end of the list, a broadcast the whole list; each posts  *)
(* the semaphores of what it took.  Waiter and waker then race to change    *)
(* status: the loser is the last to use the node, and frees it.            *)
(*                                                                         *)
(* The mutex is one that keeps the promise of module Mutex.  The threads    *)
(* are not speculating: a semaphore that has to sleep ends a transaction.   *)
(***************************************************************************)
EXTENDS Naturals, SequencesExt

CONSTANTS Waiters,   \* the threads that may wait
          Wakers,    \* the threads that may signal and broadcast
          NumNodes   \* bound of the model: nodes allocated at one time

ASSUME TxCondAssumption == NumNodes \in Nat

VARIABLES pc,      \* pc[t]: label of the code that t runs next
          timed,   \* timed[t]: t's call to wait has a timeout
          mine,    \* mine[t]: node of t's call to wait, or Null
          taken,   \* taken[t]: in a signal or broadcast, the variable node
          prev,    \* prev[t]: in a broadcast, the variable prev_node
          node,    \* node[n]: the memory of node n; live while allocated
          head,    \* first node of the list, or Null
          tail,    \* last node of the list, or Null
          ul,      \* the utility lock of the condition variable is taken
          owner,   \* the thread that holds the mutex, or Null
          queue,   \* history variable: the nodes in the list, oldest first
          chain    \* history variable: chain[t], the nodes that t still has to wake

wakerVars == <<taken, prev, chain>>
listVars == <<head, tail, queue>>
vars == <<pc, timed, mine, wakerVars, node, listVars, ul, owner>>

Threads == Waiters \cup Wakers

(* The C null pointer, and no thread.                                      *)
Null == 0

(* A mutex that nobody holds is no thread's.                               *)
ASSUME NullAssumption == Null \notin Threads

Nodes == 1 .. NumNodes

Blank(live) == [next |-> Null, prev |-> Null, sem |-> 0, status |-> "WAITING", live |-> live]

Init ==
  /\ pc = [t \in Threads |-> "client"]
  /\ timed = [t \in Threads |-> FALSE]
  /\ mine = [t \in Threads |-> Null]
  /\ taken = [t \in Threads |-> Null]
  /\ prev = [t \in Threads |-> Null]
  /\ node = [n \in Nodes |-> Blank(FALSE)]
  /\ head = Null /\ tail = Null
  /\ ul = FALSE
  /\ owner = Null
  /\ queue = <<>>
  /\ chain = [t \in Threads |-> <<>>]

Goto(t, label) == pc' = [pc EXCEPT ![t] = label]

Free(n) == [node EXCEPT ![n].live = FALSE]

-----------------------------------------------------------------------------
(***************************************************************************)
(* The mutex and the utility lock.                                         *)
(***************************************************************************)
tl_lock(t) == owner = Null /\ owner' = t

tl_unlock(t) == owner' = Null

(* The program takes and gives back the mutex outside of the calls below.  *)
LockMutex(t) ==
  /\ pc[t] = "client" /\ tl_lock(t)
  /\ UNCHANGED <<pc, timed, mine, wakerVars, node, listVars, ul>>

UnlockMutex(t) ==
  /\ pc[t] = "client" /\ owner = t /\ tl_unlock(t)
  /\ UNCHANGED <<pc, timed, mine, wakerVars, node, listVars, ul>>

(* A failed test-and-set changes nothing: the loop is left when it works.   *)
ul_lock(t) ==
  /\ pc[t] \in {"wait", "signal", "broadcast"}
  /\ ~ul
  /\ ul' = TRUE
  /\ Goto(t, CASE pc[t] = "wait" -> "enqueue"
               [] pc[t] = "signal" -> "take"
               [] pc[t] = "broadcast" -> "detach")
  /\ UNCHANGED <<timed, mine, wakerVars, node, listVars, owner>>

ul_unlock == ul' = FALSE

-----------------------------------------------------------------------------
(***************************************************************************)
(* _txcond_waitcommon.                                                     *)
(***************************************************************************)

FreeNodes == {n \in Nodes : ~node[n].live}

(* malloc gives out one of these: which one does not matter.               *)
NewNode == CHOOSE n \in FreeNodes : TRUE

(* Mutant of WaitCall: the mutex is given back before the node is queued.   *)
WaitCallReleasing(t, withTimeout) ==
  /\ pc[t] = "client" /\ owner = t
  /\ FreeNodes # {}
  /\ mine' = [mine EXCEPT ![t] = NewNode]
  /\ node' = [node EXCEPT ![NewNode] = Blank(TRUE)]
  /\ timed' = [timed EXCEPT ![t] = withTimeout]
  /\ Goto(t, "wait")
  /\ tl_unlock(t)
  /\ UNCHANGED <<wakerVars, listVars, ul>>

(* The call: a node is allocated and made ready.                           *)
WaitCall(t, withTimeout) ==
  /\ pc[t] = "client" /\ owner = t
  /\ FreeNodes # {}
  /\ mine' = [mine EXCEPT ![t] = NewNode]
  /\ node' = [node EXCEPT ![NewNode] = Blank(TRUE)]
  /\ timed' = [timed EXCEPT ![t] = withTimeout]
  /\ Goto(t, "wait")
  /\ UNCHANGED <<wakerVars, listVars, ul, owner>>

(* In the list, behind the tail, and the utility lock given back.          *)
Enqueue(t) ==
  /\ pc[t] = "enqueue"
  /\ \/ /\ tail # Null
        /\ node' = [node EXCEPT ![mine[t]].prev = tail, ![tail].next = mine[t]]
        /\ UNCHANGED head
     \/ /\ tail = Null
        /\ head' = mine[t]
        /\ UNCHANGED node
  /\ tail' = mine[t]
  /\ queue' = Append(queue, mine[t])
  /\ ul_unlock
  /\ Goto(t, "release")
  /\ UNCHANGED <<timed, mine, wakerVars, owner>>

Release(t) ==
  /\ pc[t] = "release"
  /\ tl_unlock(t)
  /\ Goto(t, "sem")
  /\ UNCHANGED <<timed, mine, wakerVars, node, listVars, ul>>

(* sem_wait or sem_timedwait returns 0; an interrupted wait is repeated.    *)
SemWait(t) ==
  /\ pc[t] = "sem"
  /\ node[mine[t]].sem > 0
  /\ node' = [node EXCEPT ![mine[t]].sem = @ - 1]
  /\ Goto(t, "woken")
  /\ UNCHANGED <<timed, mine, wakerVars, listVars, ul, owner>>

(* sem_timedwait returns ETIMEDOUT: the semaphore was not posted in time.   *)
TimeOut(t) ==
  /\ pc[t] = "sem" /\ timed[t]
  /\ node[mine[t]].sem = 0
  /\ Goto(t, "expired")
  /\ UNCHANGED <<timed, mine, wakerVars, node, listVars, ul, owner>>

(* The wait has ended, and the thread does not use the node any more.      *)
DropNode(t, label) ==
  /\ mine' = [mine EXCEPT ![t] = Null]
  /\ timed' = [timed EXCEPT ![t] = FALSE]
  /\ Goto(t, label)
  /\ UNCHANGED <<wakerVars, listVars, ul, owner>>

(* Mutant of Expired: the wait has timed out whoever was first.             *)
ExpiredAnyway(t) ==
  /\ pc[t] = "expired"
  /\ node' = IF node[mine[t]].status = "WAITING"
               THEN [node EXCEPT ![mine[t]].status = "TIMEOUT"]
               ELSE Free(mine[t])
  /\ DropNode(t, "client")

(* After a timeout: first to change status, it returns, without the mutex,  *)
(* and leaves the node where it is; second, it was woken after all.        *)
Expired(t) ==
  /\ pc[t] = "expired"
  /\ \/ /\ node[mine[t]].status = "WAITING"
        /\ node' = [node EXCEPT ![mine[t]].status = "TIMEOUT"]
        /\ DropNode(t, "client")
     \/ /\ node[mine[t]].status # "WAITING"
        /\ node' = Free(mine[t])
        /\ DropNode(t, "relock")

(* Mutant of Woken: the waiter frees its node whoever was first.           *)
WokenFreeing(t) ==
  /\ pc[t] = "woken"
  /\ node' = Free(mine[t])
  /\ DropNode(t, "relock")

(* After a post: the second of waiter and waker frees the node.            *)
Woken(t) ==
  /\ pc[t] = "woken"
  /\ node' = IF node[mine[t]].status = "WAITING"
               THEN [node EXCEPT ![mine[t]].status = "AWOKEN"]
               ELSE Free(mine[t])
  /\ DropNode(t, "relock")

Relock(t) ==
  /\ pc[t] = "relock"
  /\ tl_lock(t)
  /\ Goto(t, "client")
  /\ UNCHANGED <<timed, mine, wakerVars, node, listVars, ul>>

-----------------------------------------------------------------------------
(***************************************************************************)
(* txcond_signal.                                                          *)
(***************************************************************************)
txcond_signal(t) ==
  /\ pc[t] = "client"
  /\ Goto(t, "signal")
  /\ UNCHANGED <<timed, mine, wakerVars, node, listVars, ul, owner>>

(* The list is empty: nothing to signal or broadcast.                      *)
NobodyWaits(t) ==
  /\ pc[t] \in {"take", "detach"}
  /\ head = Null
  /\ ul_unlock
  /\ Goto(t, "client")
  /\ UNCHANGED <<timed, mine, wakerVars, node, listVars, owner>>

(* Node n has been taken out of the list, and the rest has stayed: n is     *)
(* next to be woken.                                                       *)
Took(t, n, rest) ==
  /\ taken' = [taken EXCEPT ![t] = n]
  /\ chain' = [chain EXCEPT ![t] = <<n>>]
  /\ queue' = rest
  /\ ul_unlock
  /\ Goto(t, "post")
  /\ UNCHANGED <<timed, mine, prev, owner>>

TakeTail(t) ==
  /\ pc[t] = "take"
  /\ tail # Null
  /\ tail' = node[tail].prev
  /\ IF tail' = Null
       THEN head' = Null /\ UNCHANGED node
       ELSE node' = [node EXCEPT ![tail'].next = Null] /\ UNCHANGED head
  /\ Took(t, tail, Front(queue))

(* Mutant of TakeHead: every signal takes the tail.                        *)
TakeHeadLast(t) == TakeTail(t)

(* Which end is taken depends on a generator kept in the condition variable. *)
TakeHead(t) ==
  /\ pc[t] = "take"
  /\ head # Null
  /\ head' = node[head].next
  /\ IF head' = Null
       THEN tail' = Null /\ UNCHANGED node
       ELSE node' = [node EXCEPT ![head'].prev = Null] /\ UNCHANGED tail
  /\ Took(t, head, Tail(queue))

(* sem_post                                                                *)
Post(t) ==
  /\ pc[t] \in {"post", "post_all"}
  /\ node' = [node EXCEPT ![taken[t]].sem = @ + 1]
  /\ Goto(t, IF pc[t] = "post" THEN "collect" ELSE "advance")
  /\ UNCHANGED <<timed, mine, wakerVars, listVars, ul, owner>>

(* The fields after waker's race on the status of n.                       *)
Raced(n) ==
  IF node[n].status = "WAITING" THEN [node EXCEPT ![n].status = "AWOKEN"] ELSE Free(n)

(* Mutant of Collect: a signal leaves the node to the waiter.              *)
CollectNothing(t) ==
  /\ pc[t] = "collect"
  /\ taken' = [taken EXCEPT ![t] = Null]
  /\ chain' = [chain EXCEPT ![t] = <<>>]
  /\ Goto(t, "client")
  /\ UNCHANGED <<timed, mine, prev, node, listVars, ul, owner>>

Collect(t) ==
  /\ pc[t] = "collect"
  /\ node' = Raced(taken[t])
  /\ taken' = [taken EXCEPT ![t] = Null]
  /\ chain' = [chain EXCEPT ![t] = <<>>]
  /\ Goto(t, "client")
  /\ UNCHANGED <<timed, mine, prev, listVars, ul, owner>>

-----------------------------------------------------------------------------
(***************************************************************************)
(* txcond_broadcast.                                                       *)
(***************************************************************************)
txcond_broadcast(t) ==
  /\ pc[t] = "client"
  /\ Goto(t, "broadcast")
  /\ UNCHANGED <<timed, mine, wakerVars, node, listVars, ul, owner>>

(* Mutant of Detach: the tail stays.                                       *)
DetachHead(t) ==
  /\ pc[t] = "detach"
  /\ head # Null
  /\ taken' = [taken EXCEPT ![t] = head]
  /\ chain' = [chain EXCEPT ![t] = queue]
  /\ head' = Null /\ queue' = <<>>
  /\ ul_unlock
  /\ Goto(t, "post_all")
  /\ UNCHANGED <<timed, mine, prev, node, tail, owner>>

(* The list is emptied: all its nodes are to be woken.                     *)
Detach(t) ==
  /\ pc[t] = "detach"
  /\ head # Null
  /\ taken' = [taken EXCEPT ![t] = head]
  /\ chain' = [chain EXCEPT ![t] = queue]
  /\ head' = Null /\ tail' = Null /\ queue' = <<>>
  /\ ul_unlock
  /\ Goto(t, "post_all")
  /\ UNCHANGED <<timed, mine, prev, node, owner>>

(* prev_node = node; node = node->next                                     *)
Advance(t) ==
  /\ pc[t] = "advance"
  /\ prev' = [prev EXCEPT ![t] = taken[t]]
  /\ taken' = [taken EXCEPT ![t] = node[taken[t]].next]
  /\ chain' = [chain EXCEPT ![t] = Tail(@)]
  /\ Goto(t, "collect_all")
  /\ UNCHANGED <<timed, mine, node, listVars, ul, owner>>

(* Mutant of CollectAll: the loop ends at the first node it has to free.    *)
CollectUntilFreed(t) ==
  /\ pc[t] = "collect_all"
  /\ node' = Raced(prev[t])
  /\ prev' = [prev EXCEPT ![t] = Null]
  /\ Goto(t, IF taken[t] = Null \/ node[prev[t]].status # "WAITING" THEN "client"
             ELSE "post_all")
  /\ UNCHANGED <<timed, mine, taken, chain, listVars, ul, owner>>

CollectAll(t) ==
  /\ pc[t] = "collect_all"
  /\ node' = Raced(prev[t])
  /\ prev' = [prev EXCEPT ![t] = Null]
  /\ Goto(t, IF taken[t] = Null THEN "client" ELSE "post_all")
  /\ UNCHANGED <<timed, mine, taken, chain, listVars, ul, owner>>

-----------------------------------------------------------------------------
(* What the program may start at any time.                                 *)
ClientCall(t) ==
  \/ LockMutex(t)
  \/ UnlockMutex(t)
  \/ t \in Waiters /\ \E withTimeout \in BOOLEAN : WaitCall(t, withTimeout)
  \/ t \in Wakers /\ (txcond_signal(t) \/ txcond_broadcast(t))

(* What a thread does inside a call without anybody's help.                *)
Step(t) ==
  \/ ul_lock(t)
  \/ Enqueue(t)
  \/ Release(t)
  \/ SemWait(t)
  \/ Expired(t)
  \/ Woken(t)
  \/ Relock(t)
  \/ NobodyWaits(t)
  \/ TakeHead(t)
  \/ TakeTail(t)
  \/ Post(t)
  \/ Collect(t)
  \/ Detach(t)
  \/ Advance(t)
  \/ CollectAll(t)

Next == \E t \in Threads : ClientCall(t) \/ Step(t) \/ TimeOut(t)

Spec == Init /\ [][Next]_vars

(* A thread inside a call keeps running.  The generator that chooses the    *)
(* end of the list goes through a cycle that has both choices, so the head  *)
(* is not passed over for ever.                                            *)
FairSpec ==
  /\ Spec
  /\ \A t \in Threads : WF_vars(Step(t))
  /\ SF_vars(\E t \in Threads : TakeHead(t))
-----------------------------------------------------------------------------
(* Every variable is of its type; a semaphore is posted at most once.      *)
TypeOK ==
  /\ pc \in [Threads -> {"client", "wait", "enqueue", "release", "sem", "expired", "woken",
                         "relock", "signal", "take", "post", "collect", "broadcast",
                         "detach", "post_all", "advance", "collect_all"}]
  /\ timed \in [Threads -> BOOLEAN]
  /\ mine \in [Threads -> Nodes \cup {Null}]
  /\ taken \in [Threads -> Nodes \cup {Null}]
  /\ prev \in [Threads -> Nodes \cup {Null}]
  /\ node \in [Nodes -> [next : Nodes \cup {Null}, prev : Nodes \cup {Null}, sem : 0 .. 1,
                         status : {"WAITING", "TIMEOUT", "AWOKEN"}, live : BOOLEAN]]
  /\ head \in Nodes \cup {Null}
  /\ tail \in Nodes \cup {Null}
  /\ ul \in BOOLEAN
  /\ owner \in Threads \cup {Null}
  /\ queue \in Seq(Nodes)
  /\ chain \in [Threads -> Seq(Nodes)]

(* The nodes of s are linked forward in the order of s.                    *)
Linked(s) ==
  \A i \in 1 .. Len(s) :
    node[s[i]].next = IF i = Len(s) THEN Null ELSE s[i + 1]

(* The list between head and tail is linked in both directions and holds    *)
(* exactly the nodes that were queued and not yet taken, and a broadcast     *)
(* can still walk the list that it detached (txcond.c:92, 173-185, 221).    *)
ListIsLinked ==
  /\ head = (IF queue = <<>> THEN Null ELSE Head(queue))
  /\ tail = (IF queue = <<>> THEN Null ELSE Last(queue))
  /\ Linked(queue)
  /\ \A i \in 1 .. Len(queue) :
       node[queue[i]].prev = IF i = 1 THEN Null ELSE queue[i - 1]
  /\ \A t \in Threads :
       pc[t] \in {"post_all", "advance", "collect_all"} =>
         /\ taken[t] = (IF chain[t] = <<>> THEN Null ELSE Head(chain[t]))
         /\ Linked(chain[t])

(* The nodes that t has a pointer to and will still use.                   *)
InUseBy(t) == ({mine[t], prev[t]} \cup Range(chain[t])) \ {Null}

InUse == Range(queue) \cup UNION {InUseBy(t) : t \in Threads}

(* Nothing that is still going to be used has been freed: not the nodes in   *)
(* the list, timed out or not, and not those of waiters and wakers in the   *)
(* middle of their race over status (txcond.c:126, 136, 194, 226).          *)
NoUseAfterFree == \A n \in InUse : node[n].live

(* Conversely no node is leaked: a node that is still allocated has         *)
(* somebody left who will race on its status.                              *)
NoNodeLost == \A n \in Nodes : node[n].live => n \in InUse

(* A thread in a wait that has given back the mutex cannot be overlooked:    *)
(* its node is in the list, or about to be posted, or was posted             *)
(* (txcond.c:91-104).                                                      *)
NoWakeupLost ==
  \A t \in Threads :
    pc[t] \in {"wait", "enqueue", "release", "sem"} =>
      \/ owner = t
      \/ mine[t] \in Range(queue)
      \/ \E u \in Threads : mine[t] \in Range(chain[u])
      \/ node[mine[t]].sem = 1

(* The nodes that waker t has taken and not raced for yet.                  *)
Carried(t) == Range(chain[t]) \cup ({prev[t]} \ {Null})

(* The node is in the list, or a waker has it.                             *)
Reached(n) == n \in Range(queue) \/ \E t \in Threads : n \in Carried(t)

(* Of these, the ones that t has not posted yet.                           *)
ToPost(t) == IF pc[t] \in {"collect", "advance"} THEN Tail(chain[t]) ELSE chain[t]

Unposted(n) == n \in Range(queue) \/ \E t \in Threads : n \in Range(ToPost(t))

(* A wait ends as a wake-up only if a waker has posted its node, and as a    *)
(* timeout only if no waker is through with the node, so that one is left to *)
(* free it.  A wait whose deadline passes while a waker posts it counts as    *)
(* woken if the waker was the first to change status (txcond.c:116-138).    *)
OutcomeIsTrue ==
  [][\A t \in Threads :
       mine[t] # Null /\ mine'[t] = Null =>
         IF pc'[t] = "relock" THEN ~Unposted(mine[t]) ELSE Reached(mine[t])]_vars

(* Whatever a signal or a broadcast has taken from the list is freed in the  *)
(* end: broadcasts reach the last node, every waiter that is woken goes on,   *)
(* and one of waiter and waker frees the node (txcond.c:190-194, 221-226).  *)
TakenNodesAreFreed ==
  \A n \in Nodes : (\E t \in Threads : n \in Range(chain[t])) ~> ~node[n].live

(* txcond.c:165: "tend towards LIFO, but throw in eventual FIFO": as long as *)
(* signals keep finding somebody, no node stays in the list for ever.       *)
EventualFifo ==
  []<><<\E t \in Threads : TakeHead(t) \/ TakeTail(t)>>_vars =>
    \A n \in Nodes : n \in Range(queue) ~> n \notin Range(queue)

(* pthread.h:991: "Wake up one thread waiting for condition variable": a     *)
(* signal that is sent while a thread waits takes the node of a thread that  *)
(* is still waiting.                                                       *)
SignalReachesAWaiter ==
  [][\A t \in Threads :
       /\ pc[t] = "take" /\ pc'[t] = "post"
       /\ \E u \in Threads : mine[u] \in Range(queue)
       => \E u \in Threads : mine[u] = taken'[t]]_vars
-----------------------------------------------------------------------------
(***************************************************************************)
(* The inductive invariant behind the five invariants above.  Two parties   *)
(* use a node: the thread that waits with it, and the thread that will post *)
(* it, once it has taken it from the list.                                  *)
(***************************************************************************)

(* A thread waits with the node.                                           *)
Awaited(n) == \E t \in Threads : mine[t] = n

(* The node has not been put in the list yet.                              *)
Fresh(n) == \E t \in Threads : mine[t] = n /\ pc[t] \in {"wait", "enqueue"}

(* A wait has a node of its own from the call to the return, and the mutex   *)
(* until its node is in the list; it then sleeps on a semaphore that was    *)
(* posted or will be, and when it has left the semaphore, it was.           *)
WaiterBook(t) ==
  /\ mine[t] # Null <=> pc[t] \in {"wait", "enqueue", "release", "sem", "expired", "woken"}
  /\ \A u \in Threads : mine[t] # Null /\ mine[u] = mine[t] => u = t
  /\ pc[t] \in {"wait", "enqueue", "release"} => owner = t
  /\ \A n \in Nodes :
       mine[t] = n =>
         /\ pc[t] \in {"release", "sem"} => Unposted(n) \/ node[n].sem = 1
         /\ pc[t] = "woken" => ~Unposted(n)

(* What a waker has in hand at each label.                                 *)
WakerBook(t) ==
  /\ pc[t] \notin {"post", "collect", "post_all", "advance", "collect_all"} => chain[t] = <<>>
  /\ pc[t] \in {"post", "collect"} => Len(chain[t]) = 1
  /\ pc[t] \in {"post_all", "advance"} => chain[t] # <<>>
  /\ pc[t] = "collect_all" <=> prev[t] # Null
  /\ pc[t] \in {"post", "collect"} => taken[t] = Head(chain[t])

(* No node is in two places.                                               *)
PlacesBook ==
  /\ IsInjective(queue)
  /\ \A t \in Threads :
       /\ IsInjective(chain[t])
       /\ prev[t] \notin Range(chain[t])
       /\ Carried(t) \cap Range(queue) = {}
       /\ \A u \in Threads : t # u => Carried(t) \cap Carried(u) = {}

(* The status of a node tells who is still to race for it.                  *)
NodeBook(n) ==
  /\ ~node[n].live => ~Reached(n) /\ ~Awaited(n)
  /\ Fresh(n) => /\ node[n] = Blank(TRUE)
                 /\ ~Reached(n)
  /\ Unposted(n) => node[n].sem = 0
  /\ node[n].live =>
       /\ node[n].status = "WAITING" => Awaited(n) /\ (Reached(n) \/ Fresh(n))
       /\ node[n].status = "TIMEOUT" => Reached(n) /\ ~Awaited(n)
       /\ node[n].status = "AWOKEN"  => (Reached(n) <=> ~Awaited(n))

IInv ==
  /\ TypeOK
  /\ \A t \in Threads : WaiterBook(t) /\ WakerBook(t)
  /\ PlacesBook
  /\ \A n \in Nodes : NodeBook(n)
  /\ ListIsLinked
=============================================================================
