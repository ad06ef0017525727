---------------------------- MODULE TxCondProofs ----------------------------
(***************************************************************************)
(* The condition variable of txcond.c, for any waiters, any wakers and any   *)
(* number of nodes.  Each action does one of a few things to the places of  *)
(* the nodes: nothing, or one node gets a waiter, goes into the list, goes   *)
(* from the list to a waker, is posted, or loses its waiter or its waker.    *)
(***************************************************************************)
EXTENDS TxCond, ListLemmas

USE TxCondAssumption, NullAssumption DEF Null

-----------------------------------------------------------------------------
(***************************************************************************)
(* What the invariant says of one thread and one node.                      *)
(***************************************************************************)
BroadcastLabels == {"post_all", "advance", "collect_all"}

LEMMA ChainType ==
  ASSUME TypeOK, NEW t \in Threads
  PROVE  chain[t] \in Seq(Nodes) /\ Range(chain[t]) \subseteq Nodes /\ Carried(t) \subseteq Nodes
<1>1. chain[t] \in Seq(Nodes) /\ prev[t] \in Nodes \cup {Null}
  BY DEF TypeOK
<1> QED
  BY <1>1, RangeOf DEF Carried

LEMMA NullIsNoNode == Null \notin Nodes
BY DEF Nodes

(* Whoever waits with a node, or has to race for it, finds it allocated.     *)
LEMMA PartiesLive ==
  ASSUME IInv, NEW n \in Nodes, Reached(n) \/ Awaited(n)
  PROVE  node[n].live
BY DEF IInv, NodeBook

LEMMA OneWaiter ==
  ASSUME IInv, NEW t \in Threads, NEW u \in Threads, mine[t] # Null, mine[u] = mine[t]
  PROVE  u = t
BY DEF IInv, WaiterBook

-----------------------------------------------------------------------------
(***************************************************************************)
(* What is kept by a step that leaves the variables alone.                  *)
(***************************************************************************)
LEMMA ReachedKept ==
  ASSUME UNCHANGED <<queue, chain, prev>>
  PROVE  /\ \A n : Reached(n)' <=> Reached(n)
         /\ \A t : Carried(t)' = Carried(t)
         /\ PlacesBook' <=> PlacesBook
BY DEF Reached, Carried, PlacesBook

LEMMA UnpostedKept ==
  ASSUME UNCHANGED <<queue, chain>>,
         \A t \in Threads : pc'[t] \in {"collect", "advance"} <=> pc[t] \in {"collect", "advance"}
  PROVE  \A n : Unposted(n)' <=> Unposted(n)
<1> SUFFICES ASSUME NEW n PROVE Unposted(n)' <=> Unposted(n)
  OBVIOUS
<1>1. \A t \in Threads : ToPost(t)' = ToPost(t)
  BY DEF ToPost
<1> QED
  BY <1>1 DEF Unposted

LEMMA AwaitedKept ==
  ASSUME UNCHANGED mine
  PROVE  \A n : Awaited(n)' <=> Awaited(n)
BY DEF Awaited

LEMMA FreshKept ==
  ASSUME UNCHANGED mine,
         \A t \in Threads : pc'[t] \in {"wait", "enqueue"} <=> pc[t] \in {"wait", "enqueue"}
  PROVE  \A n : Fresh(n)' <=> Fresh(n)
BY DEF Fresh

(* Nothing that a node's book is about has changed.                         *)
LEMMA NodeKept ==
  ASSUME NEW n \in Nodes, NodeBook(n), node'[n] = node[n], Reached(n)' <=> Reached(n),
         Awaited(n)' <=> Awaited(n), Fresh(n)' <=> Fresh(n), Unposted(n)' <=> Unposted(n)
  PROVE  NodeBook(n)'
BY DEF NodeBook, Blank

LinksKept(n) == node'[n].next = node[n].next /\ node'[n].prev = node[n].prev

(* Only the links of the nodes in the list and in the chains matter.         *)
LEMMA ListKept ==
  ASSUME TypeOK, ListIsLinked, UNCHANGED <<head, tail, queue>>,
         \A n \in Nodes : Reached(n) => LinksKept(n),
         \A t \in Threads : pc'[t] \in BroadcastLabels =>
           pc[t] \in BroadcastLabels /\ taken'[t] = taken[t] /\ chain'[t] = chain[t]
  PROVE  ListIsLinked'
<1>1. queue \in Seq(Nodes) /\ \A t \in Threads : chain[t] \in Seq(Nodes)
  BY ChainType DEF TypeOK
<1>2. ASSUME NEW s \in Seq(Nodes), Linked(s), \A n \in Range(s) : Reached(n) PROVE Linked(s)'
  <2>1. \A i \in 1 .. Len(s) : s[i] \in Nodes /\ Reached(s[i])
    BY <1>2, RangeOf
  <2> QED
    BY <1>2, <2>1 DEF Linked, LinksKept
<1>3. Linked(queue)' /\ \A i \in 1 .. Len(queue') :
        node'[queue'[i]].prev = IF i = 1 THEN Null ELSE queue'[i - 1]
  <2>1. Linked(queue)'
    BY <1>1, <1>2 DEF ListIsLinked, Linked, Reached
  <2>2. \A i \in 1 .. Len(queue) : queue[i] \in Nodes /\ Reached(queue[i])
    BY <1>1, RangeOf DEF Reached
  <2> QED
    BY <2>1, <2>2 DEF ListIsLinked, LinksKept
<1>4. ASSUME NEW t \in Threads, pc'[t] \in BroadcastLabels
      PROVE  taken'[t] = (IF chain'[t] = <<>> THEN Null ELSE Head(chain'[t])) /\ Linked(chain[t])'
  <2>1. PICK s \in Seq(Nodes) : s = chain[t]
    BY <1>1
  <2>2. chain'[t] = s /\ taken'[t] = taken[t] /\ pc[t] \in BroadcastLabels
    BY <1>4, <2>1
  <2>3. \A n \in Range(s) : Reached(n)
    BY <2>1, NullIsNoNode DEF Reached, Carried
  <2>4. Linked(s)' /\ taken[t] = (IF s = <<>> THEN Null ELSE Head(s))
    BY <1>2, <2>1, <2>2, <2>3 DEF ListIsLinked, BroadcastLabels
  <2> QED
    BY <2>2, <2>4 DEF Linked
<1> QED
  BY <1>3, <1>4 DEF ListIsLinked, BroadcastLabels
-----------------------------------------------------------------------------
(***************************************************************************)
(* Every action, sorted by what it does to the nodes.                       *)
(***************************************************************************)

(* Nothing: the step is about the locks, or begins or ends a call.          *)
CalmAction(t) ==
  \/ LockMutex(t) \/ UnlockMutex(t) \/ Relock(t) \/ Release(t) \/ TimeOut(t)
  \/ ul_lock(t) \/ NobodyWaits(t) \/ txcond_signal(t) \/ txcond_broadcast(t)

(* A waiter begins, joins the list, is woken by its semaphore, or leaves.    *)
WaiterAction(t) ==
  \/ (\E withTimeout \in BOOLEAN : WaitCall(t, withTimeout)) \/ Enqueue(t)
  \/ SemWait(t) \/ Expired(t) \/ Woken(t)

(* A waker takes nodes, posts one, or races for one.                        *)
WakerAction(t) ==
  \/ TakeHead(t) \/ TakeTail(t) \/ Post(t) \/ Collect(t)
  \/ Detach(t) \/ Advance(t) \/ CollectAll(t)

LEMMA WhatSteps ==
  ASSUME Next
  PROVE  \E t \in Threads : CalmAction(t) \/ WaiterAction(t) \/ WakerAction(t)
BY DEF Next, ClientCall, Step, CalmAction, WaiterAction, WakerAction

(* A step moves no other thread, and takes no mutex from another thread.     *)
LEMMA OthersStay ==
  ASSUME IInv, NEW t \in Threads, CalmAction(t) \/ WaiterAction(t) \/ WakerAction(t),
         NEW u \in Threads, u # t
  PROVE  pc'[u] = pc[u] /\ (owner = u => owner' = u)
<1>1. CASE CalmAction(t)
  <2>1. Release(t) => owner = t
    BY DEF IInv, WaiterBook, Release
  <2> QED
    BY <1>1, <2>1
    DEF IInv, TypeOK, CalmAction, LockMutex, UnlockMutex, Relock, Release, TimeOut, ul_lock,
        NobodyWaits, txcond_signal, txcond_broadcast, tl_lock, tl_unlock, Goto
<1>2. CASE WaiterAction(t)
  BY <1>2
  DEF IInv, TypeOK, WaiterAction, WaitCall, Enqueue, SemWait, Expired, Woken, DropNode, Goto
<1>3. CASE WakerAction(t)
  BY <1>3
  DEF IInv, TypeOK, WakerAction, TakeHead, TakeTail, Took, Post, Collect, Detach, Advance,
      CollectAll, Goto
<1> QED
  BY <1>1, <1>2, <1>3

-----------------------------------------------------------------------------
(***************************************************************************)
(* Types.                                                                  *)
(***************************************************************************)
NodeType == [next : Nodes \cup {Null}, prev : Nodes \cup {Null}, sem : 0 .. 1,
             status : {"WAITING", "TIMEOUT", "AWOKEN"}, live : BOOLEAN]

LEMMA CalmType ==
  ASSUME IInv, NEW t \in Threads, CalmAction(t)
  PROVE  TypeOK'
BY DEF IInv, TypeOK, CalmAction, LockMutex, UnlockMutex, Relock, Release, TimeOut, ul_lock,
   NobodyWaits, txcond_signal, txcond_broadcast, tl_lock, tl_unlock, ul_unlock, Goto, wakerVars,
   listVars
LEMMA NewNodeType ==
  ASSUME FreeNodes # {}
  PROVE  NewNode \in Nodes /\ ~node[NewNode].live
BY DEF FreeNodes, NewNode

(* The nodes are typed after a field of one of them has been set.            *)
LEMMA SetField ==
  ASSUME NEW f \in [Nodes -> NodeType], NEW n \in Nodes
  PROVE  /\ \A s \in 0 .. 1 : [f EXCEPT ![n].sem = s] \in [Nodes -> NodeType]
         /\ \A s \in {"WAITING", "TIMEOUT", "AWOKEN"} :
              [f EXCEPT ![n].status = s] \in [Nodes -> NodeType]
         /\ [f EXCEPT ![n].live = FALSE] \in [Nodes -> NodeType]
         /\ [f EXCEPT ![n] = Blank(TRUE)] \in [Nodes -> NodeType]
         /\ \A m \in Nodes \cup {Null} :
              /\ [f EXCEPT ![n].next = m] \in [Nodes -> NodeType]
              /\ [f EXCEPT ![n].prev = m] \in [Nodes -> NodeType]
<1>1. \A r \in NodeType : [f EXCEPT ![n] = r] \in [Nodes -> NodeType]
  OBVIOUS
<1>2. f[n] \in NodeType
  OBVIOUS
<1>3. \A s \in 0 .. 1 : [f[n] EXCEPT !.sem = s] \in NodeType
  BY <1>2 DEF NodeType
<1>4. \A s \in {"WAITING", "TIMEOUT", "AWOKEN"} : [f[n] EXCEPT !.status = s] \in NodeType
  BY <1>2 DEF NodeType
<1>5. [f[n] EXCEPT !.live = FALSE] \in NodeType
  BY <1>2 DEF NodeType
<1>6. Blank(TRUE) \in NodeType
  <2>1. Null \in Nodes \cup {Null} /\ 0 \in 0 .. 1
    OBVIOUS
  <2> QED
    BY <2>1 DEF NodeType, Blank
<1>7. \A m \in Nodes \cup {Null} : /\ [f[n] EXCEPT !.next = m] \in NodeType
                                  /\ [f[n] EXCEPT !.prev = m] \in NodeType
  BY <1>2 DEF NodeType
<1> HIDE DEF NodeType
<1>8. \A s \in 0 .. 1 : [f EXCEPT ![n].sem = s] \in [Nodes -> NodeType]
  BY <1>1, <1>3
<1>9. \A s \in {"WAITING", "TIMEOUT", "AWOKEN"} :
        [f EXCEPT ![n].status = s] \in [Nodes -> NodeType]
  BY <1>1, <1>4
<1>10. [f EXCEPT ![n].live = FALSE] \in [Nodes -> NodeType]
  BY <1>1, <1>5
<1>11. \A m \in Nodes \cup {Null} : /\ [f EXCEPT ![n].next = m] \in [Nodes -> NodeType]
                                   /\ [f EXCEPT ![n].prev = m] \in [Nodes -> NodeType]
  BY <1>1, <1>7
<1> QED
  BY <1>1, <1>6, <1>8, <1>9, <1>10, <1>11

LEMMA NodesTyped == IInv => node \in [Nodes -> NodeType]
BY DEF IInv, TypeOK, NodeType

LEMMA WaiterType ==
  ASSUME IInv, NEW t \in Threads, WaiterAction(t)
  PROVE  TypeOK'
<1> USE DEF Goto
<1>1. ASSUME NEW withTimeout \in BOOLEAN, WaitCall(t, withTimeout) PROVE TypeOK'
  <2>1. NewNode \in Nodes
    BY <1>1, NewNodeType DEF WaitCall
  <2>2. node' \in [Nodes -> NodeType]
    BY <1>1, <2>1, NodesTyped, SetField DEF WaitCall
  <2> QED
    BY <1>1, <2>1, <2>2 DEF IInv, TypeOK, NodeType, WaitCall, wakerVars, listVars
<1>2. CASE Enqueue(t)
  <2>1. mine[t] \in Nodes
    BY <1>2 DEF IInv, TypeOK, WaiterBook, Enqueue
  <2>2. node' \in [Nodes -> NodeType]
    <3>1. CASE tail = Null
      BY <1>2, <3>1 DEF IInv, TypeOK, NodeType, Enqueue
    <3>2. CASE tail # Null
      <4>1. node' = [node EXCEPT ![mine[t]].prev = tail, ![tail].next = mine[t]] /\ tail \in Nodes
        BY <1>2, <3>2 DEF IInv, TypeOK, Enqueue
      <4>2. [node EXCEPT ![mine[t]].prev = tail] \in [Nodes -> NodeType]
        BY <2>1, <4>1, NodesTyped, SetField
      <4> QED
        BY <2>1, <4>1, <4>2, SetField
    <3> QED
      BY <3>1, <3>2
  <2>3. head' \in Nodes \cup {Null} /\ tail' \in Nodes \cup {Null} /\ queue' \in Seq(Nodes)
    BY <1>2, <2>1 DEF IInv, TypeOK, Enqueue
  <2> QED
    BY <1>2, <2>2, <2>3 DEF IInv, TypeOK, NodeType, Enqueue, ul_unlock, wakerVars
<1>3. CASE SemWait(t)
  <2>1. mine[t] \in Nodes /\ node[mine[t]].sem - 1 \in 0 .. 1
    BY <1>3 DEF IInv, TypeOK, WaiterBook, SemWait
  <2>2. node' \in [Nodes -> NodeType]
    BY <1>3, <2>1, NodesTyped, SetField DEF SemWait
  <2> QED
    BY <1>3, <2>2 DEF IInv, TypeOK, NodeType, SemWait, wakerVars, listVars
<1>4. CASE Expired(t) \/ Woken(t)
  <2>1. mine[t] \in Nodes
    BY <1>4 DEF IInv, TypeOK, WaiterBook, Expired, Woken
  <2>2. node' \in [Nodes -> NodeType]
    <3>1. \/ node' = [node EXCEPT ![mine[t]].status = "TIMEOUT"]
          \/ node' = [node EXCEPT ![mine[t]].status = "AWOKEN"]
          \/ node' = [node EXCEPT ![mine[t]].live = FALSE]
      BY <1>4 DEF Expired, Woken, Free
    <3>2. PICK n \in Nodes : n = mine[t]
      BY <2>1
    <3>3. /\ [node EXCEPT ![n].live = FALSE] \in [Nodes -> NodeType]
          /\ \A s \in {"WAITING", "TIMEOUT", "AWOKEN"} :
               [node EXCEPT ![n].status = s] \in [Nodes -> NodeType]
      BY NodesTyped, SetField
    <3> QED
      BY <3>1, <3>2, <3>3
  <2> QED
    BY <1>4, <2>2 DEF IInv, TypeOK, NodeType, Expired, Woken, DropNode, wakerVars, listVars
<1> QED
  BY <1>1, <1>2, <1>3, <1>4 DEF WaiterAction

(* The node that a waker works on is the first of its chain.                *)
LEMMA TakenIsHead ==
  ASSUME IInv, NEW t \in Threads, pc[t] \in {"post", "collect", "post_all", "advance"}
  PROVE  /\ chain[t] \in Seq(Nodes) /\ chain[t] # <<>> /\ IsInjective(chain[t])
         /\ taken[t] = Head(chain[t]) /\ taken[t] \in Range(chain[t]) /\ taken[t] \in Nodes
<1>1. chain[t] \in Seq(Nodes) /\ IsInjective(chain[t]) /\ Range(chain[t]) \subseteq Nodes
  BY ChainType DEF IInv, PlacesBook
<1>2. chain[t] # <<>>
  BY <1>1 DEF IInv, WakerBook
<1>3. taken[t] = Head(chain[t])
  BY <1>2 DEF IInv, WakerBook, ListIsLinked
<1> QED
  BY <1>1, <1>2, <1>3, TailRange

(* The list is empty at both ends or at none.                              *)
LEMMA ListEnds ==
  ASSUME IInv
  PROVE  /\ queue \in Seq(Nodes) /\ IsInjective(queue) /\ Range(queue) \subseteq Nodes
         /\ head = Null <=> queue = <<>>
         /\ tail = Null <=> queue = <<>>
         /\ queue # <<>> => head = Head(queue) /\ tail = Last(queue)
<1>1. queue \in Seq(Nodes) /\ IsInjective(queue) /\ Range(queue) \subseteq Nodes
  BY RangeOf DEF IInv, TypeOK, PlacesBook
<1>2. queue # <<>> => Head(queue) \in Nodes /\ Last(queue) \in Nodes
  BY <1>1, TailRange, FrontRange
<1>3. /\ head = (IF queue = <<>> THEN Null ELSE Head(queue))
      /\ tail = (IF queue = <<>> THEN Null ELSE Last(queue))
  BY DEF IInv, ListIsLinked
<1> QED
  BY <1>1, <1>2, <1>3, NullIsNoNode

LEMMA RacedType ==
  ASSUME IInv, NEW n \in Nodes
  PROVE  Raced(n) \in [Nodes -> NodeType]
BY NodesTyped, SetField DEF Raced, Free

(* A node that is about to be posted has not been posted.                   *)
LEMMA PostedOnce ==
  ASSUME IInv, NEW t \in Threads, pc[t] \in {"post", "post_all"}
  PROVE  taken[t] \in Nodes /\ Unposted(taken[t]) /\ node[taken[t]].sem = 0
<1>1. taken[t] \in Nodes /\ taken[t] \in Range(chain[t])
  BY TakenIsHead
<1>2. Unposted(taken[t])
  BY <1>1 DEF Unposted, ToPost
<1> QED
  BY <1>1, <1>2 DEF IInv, NodeBook

LEMMA WakerType ==
  ASSUME IInv, NEW t \in Threads, WakerAction(t)
  PROVE  TypeOK'
<1>1. CASE TakeHead(t) \/ TakeTail(t)
  <2>1. /\ queue # <<>> /\ head \in Nodes /\ tail \in Nodes
        /\ Tail(queue) \in Seq(Nodes) /\ Front(queue) \in Seq(Nodes)
    BY <1>1, ListEnds, TailRange, FrontRange DEF IInv, TypeOK, TakeHead, TakeTail
  <2>2. node[tail].prev \in Nodes \cup {Null} /\ node[head].next \in Nodes \cup {Null}
    BY <2>1 DEF IInv, TypeOK
  <2>3. node' \in [Nodes -> NodeType]
    <3>1. \/ UNCHANGED node
          \/ \E n \in Nodes : \/ node' = [node EXCEPT ![n].prev = Null]
                             \/ node' = [node EXCEPT ![n].next = Null]
      BY <1>1, <2>2 DEF TakeHead, TakeTail
    <3>2. ASSUME NEW n \in Nodes
          PROVE  /\ [node EXCEPT ![n].prev = Null] \in [Nodes -> NodeType]
                 /\ [node EXCEPT ![n].next = Null] \in [Nodes -> NodeType]
      BY NodesTyped, SetField
    <3> QED
      BY <3>1, <3>2, NodesTyped
  <2>4. head' \in Nodes \cup {Null} /\ tail' \in Nodes \cup {Null} /\ queue' \in Seq(Nodes)
    BY <1>1, <2>1, <2>2 DEF TakeHead, TakeTail, Took
  <2>5. taken' \in [Threads -> Nodes \cup {Null}] /\ chain' \in [Threads -> Seq(Nodes)]
    <3>1. PICK n \in Nodes : /\ taken' = [taken EXCEPT ![t] = n]
                             /\ chain' = [chain EXCEPT ![t] = <<n>>]
      BY <1>1, <2>1 DEF TakeHead, TakeTail, Took
    <3>2. <<n>> \in Seq(Nodes)
      OBVIOUS
    <3> QED
      BY <3>1, <3>2 DEF IInv, TypeOK
  <2>6. /\ pc' = [pc EXCEPT ![t] = "post"] /\ ul' = FALSE
        /\ UNCHANGED <<timed, mine, prev, owner>>
    BY <1>1 DEF TakeHead, TakeTail, Took, ul_unlock, Goto
  <2> QED
    BY <2>3, <2>4, <2>5, <2>6 DEF IInv, TypeOK, NodeType
<1>2. CASE Post(t)
  <2>1. taken[t] \in Nodes /\ node[taken[t]].sem + 1 \in 0 .. 1
    BY <1>2, PostedOnce DEF Post
  <2>2. node' \in [Nodes -> NodeType]
    BY <1>2, <2>1, NodesTyped, SetField DEF Post
  <2> QED
    BY <1>2, <2>2 DEF IInv, TypeOK, NodeType, Post, Goto, wakerVars, listVars
<1>3. CASE Collect(t)
  <2>1. node' \in [Nodes -> NodeType]
    BY <1>3, TakenIsHead, RacedType DEF Collect
  <2>2. taken' \in [Threads -> Nodes \cup {Null}] /\ chain' \in [Threads -> Seq(Nodes)]
    BY <1>3 DEF IInv, TypeOK, Collect
  <2> QED
    BY <1>3, <2>1, <2>2 DEF IInv, TypeOK, NodeType, Collect, Goto, listVars
<1>4. CASE Detach(t)
  <2>1. taken' \in [Threads -> Nodes \cup {Null}] /\ chain' \in [Threads -> Seq(Nodes)]
    BY <1>4 DEF IInv, TypeOK, Detach
  <2>2. queue' \in Seq(Nodes) /\ head' = Null /\ tail' = Null /\ ul' = FALSE
    BY <1>4 DEF Detach, ul_unlock
  <2>3. pc' = [pc EXCEPT ![t] = "post_all"] /\ UNCHANGED <<timed, mine, prev, node, owner>>
    BY <1>4 DEF Detach, Goto
  <2> QED
    BY <2>1, <2>2, <2>3 DEF IInv, TypeOK
<1>5. CASE Advance(t)
  <2>1. taken[t] \in Nodes /\ Tail(chain[t]) \in Seq(Nodes)
    BY <1>5, TakenIsHead, TailRange DEF Advance
  <2>2. node[taken[t]].next \in Nodes \cup {Null}
    BY <2>1 DEF IInv, TypeOK
  <2>3. /\ taken' \in [Threads -> Nodes \cup {Null}]
        /\ prev' \in [Threads -> Nodes \cup {Null}]
        /\ chain' \in [Threads -> Seq(Nodes)]
    BY <1>5, <2>1, <2>2 DEF IInv, TypeOK, Advance
  <2> QED
    BY <1>5, <2>3 DEF IInv, TypeOK, Advance, Goto, listVars
<1>6. CASE CollectAll(t)
  <2>1. prev[t] \in Nodes
    BY <1>6 DEF IInv, TypeOK, WakerBook, CollectAll
  <2>2. node' \in [Nodes -> NodeType]
    BY <1>6, <2>1, RacedType DEF CollectAll
  <2>3. prev' \in [Threads -> Nodes \cup {Null}]
    BY <1>6 DEF IInv, TypeOK, CollectAll
  <2> QED
    BY <1>6, <2>2, <2>3 DEF IInv, TypeOK, NodeType, CollectAll, Goto, listVars
<1> QED
  BY <1>1, <1>2, <1>3, <1>4, <1>5, <1>6 DEF WakerAction

-----------------------------------------------------------------------------
(***************************************************************************)
(* Steps about the locks, and the begin and end of a call.                  *)
(***************************************************************************)
LEMMA CalmStep ==
  ASSUME IInv, NEW t \in Threads, CalmAction(t)
  PROVE  IInv'
<1>1. TypeOK'
  BY CalmType
<1>2. UNCHANGED <<node, mine, queue, chain, prev, taken, head, tail>>
  BY DEF CalmAction, LockMutex, UnlockMutex, Relock, Release, TimeOut, ul_lock, NobodyWaits,
     txcond_signal, txcond_broadcast, wakerVars, listVars
<1>3. \/ pc[t] = "client" /\ pc'[t] \in {"client", "signal", "broadcast"}
      \/ pc[t] = "relock" /\ pc'[t] = "client"
      \/ pc[t] = "release" /\ pc'[t] = "sem"
      \/ pc[t] = "sem" /\ pc'[t] = "expired"
      \/ pc[t] = "wait" /\ pc'[t] = "enqueue" /\ UNCHANGED owner
      \/ pc[t] = "signal" /\ pc'[t] = "take"
      \/ pc[t] = "broadcast" /\ pc'[t] = "detach"
      \/ pc[t] \in {"take", "detach"} /\ pc'[t] = "client"
  <2>1. CASE LockMutex(t) \/ UnlockMutex(t) \/ Relock(t) \/ Release(t) \/ TimeOut(t)
    BY <2>1 DEF IInv, TypeOK, LockMutex, UnlockMutex, Relock, Release, TimeOut, Goto
  <2>2. CASE ul_lock(t)
    BY <2>2 DEF IInv, TypeOK, ul_lock, Goto
  <2>3. CASE NobodyWaits(t) \/ txcond_signal(t) \/ txcond_broadcast(t)
    BY <2>3 DEF IInv, TypeOK, NobodyWaits, txcond_signal, txcond_broadcast, Goto
  <2> QED
    BY <2>1, <2>2, <2>3 DEF CalmAction
<1>4. \A u \in Threads : u # t => pc'[u] = pc[u]
  BY OthersStay
<1>5. /\ \A n : Reached(n)' <=> Reached(n)
      /\ \A n : Unposted(n)' <=> Unposted(n)
      /\ \A n : Awaited(n)' <=> Awaited(n)
      /\ \A n : Fresh(n)' <=> Fresh(n)
      /\ PlacesBook'
  BY <1>2, <1>3, <1>4, ReachedKept, UnpostedKept, AwaitedKept, FreshKept DEF IInv
<1>6. \A n \in Nodes : NodeBook(n)'
  BY <1>2, <1>5, NodeKept DEF IInv
<1>7. ListIsLinked'
  BY <1>2, <1>3, <1>4, ListKept DEF IInv, LinksKept, BroadcastLabels
<1>8. ASSUME NEW u \in Threads PROVE WaiterBook(u)'
  <2>1. CASE u = t
    BY <1>2, <1>3, <1>5, <2>1 DEF IInv, WaiterBook
  <2>2. CASE u # t
    BY <1>2, <1>4, <1>5, <2>2, OthersStay DEF IInv, WaiterBook
  <2> QED
    BY <2>1, <2>2
<1>9. \A u \in Threads : WakerBook(u)'
  BY <1>2, <1>3, <1>4 DEF IInv, WakerBook
<1> QED
  BY <1>1, <1>5, <1>6, <1>7, <1>8, <1>9 DEF IInv
-----------------------------------------------------------------------------
(***************************************************************************)
(* Steps of a waiter.                                                      *)
(***************************************************************************)
LEMMA UnpostedIsReached ==
  ASSUME IInv, NEW n, Unposted(n)
  PROVE  Reached(n)
<1>1. CASE n \in Range(queue)
  BY <1>1 DEF Reached
<1>2. ASSUME NEW t \in Threads, n \in Range(ToPost(t)) PROVE Reached(n)
  <2>1. n \in Range(chain[t])
    <3>1. CASE pc[t] \in {"collect", "advance"}
      BY <1>2, <3>1, TakenIsHead, TailRange DEF ToPost
    <3>2. CASE pc[t] \notin {"collect", "advance"}
      BY <1>2, <3>2 DEF ToPost
    <3> QED
      BY <3>1, <3>2
  <2> QED
    BY <2>1 DEF Reached, Carried
<1> QED
  BY <1>1, <1>2 DEF Unposted

LEMMA SemStep ==
  ASSUME IInv, NEW t \in Threads, SemWait(t)
  PROVE  IInv'
<1>1. TypeOK'
  BY WaiterType DEF WaiterAction
<1>2. PICK m \in Nodes : m = mine[t]
  BY DEF IInv, TypeOK, WaiterBook, SemWait
<1>3. /\ node' = [node EXCEPT ![m].sem = node[m].sem - 1] /\ node[m].sem = 1
      /\ UNCHANGED <<mine, queue, chain, prev, taken, head, tail, owner>>
      /\ pc[t] = "sem" /\ pc' = [pc EXCEPT ![t] = "woken"]
  BY <1>2 DEF IInv, TypeOK, SemWait, Goto, wakerVars, listVars
<1>4. \A u \in Threads : pc'[u] = IF u = t THEN "woken" ELSE pc[u]
  BY <1>3 DEF IInv, TypeOK
<1>5. \A n \in Nodes :
        /\ LinksKept(n) /\ node'[n].live = node[n].live /\ node'[n].status = node[n].status
        /\ node'[n].sem = IF n = m THEN 0 ELSE node[n].sem
        /\ n # m => node'[n] = node[n]
  BY <1>3 DEF IInv, TypeOK, LinksKept
<1>6. /\ \A n : Reached(n)' <=> Reached(n)
      /\ \A n : Unposted(n)' <=> Unposted(n)
      /\ \A n : Awaited(n)' <=> Awaited(n)
      /\ \A n : Fresh(n)' <=> Fresh(n)
      /\ PlacesBook'
  BY <1>3, <1>4, ReachedKept, UnpostedKept, AwaitedKept, FreshKept DEF IInv
<1>7. ASSUME NEW n \in Nodes PROVE NodeBook(n)'
  <2>1. CASE n = m
    <3>1. ~Fresh(m)
      BY <1>2, <1>3, OneWaiter, NullIsNoNode DEF Fresh
    <3> QED
      BY <1>5, <1>6, <2>1, <3>1 DEF IInv, NodeBook
  <2>2. CASE n # m
    BY <1>5, <1>6, <2>2, NodeKept DEF IInv
  <2> QED
    BY <2>1, <2>2
<1>8. ListIsLinked'
  BY <1>3, <1>4, <1>5, ListKept DEF IInv, BroadcastLabels
<1>9. ASSUME NEW u \in Threads PROVE WaiterBook(u)'
  <2>1. CASE u = t
    <3>1. ~Unposted(m)'
      <4>1. ~Unposted(m)
        <5>1. NodeBook(m)
          BY DEF IInv
        <5>2. node[m].sem # 0
          BY <1>3
        <5> QED
          BY <5>1, <5>2 DEF NodeBook
      <4> QED
        BY ONLY <1>6, <4>1
    <3> QED
      BY <1>2, <1>3, <1>4, <2>1, <3>1 DEF IInv, WaiterBook
  <2>2. CASE u # t
    <3>1. mine[u] # m
      BY <1>2, <2>2, OneWaiter, NullIsNoNode
    <3> QED
      BY <1>3, <1>4, <1>5, <1>6, <2>2, <3>1 DEF IInv, WaiterBook
  <2> QED
    BY <2>1, <2>2
<1>10. \A u \in Threads : WakerBook(u)'
  BY <1>3, <1>4 DEF IInv, WakerBook
<1> QED
  BY <1>1, <1>6, <1>7, <1>8, <1>9, <1>10 DEF IInv

LEMMA WaitCallStep ==
  ASSUME IInv, NEW t \in Threads, NEW withTimeout \in BOOLEAN, WaitCall(t, withTimeout)
  PROVE  IInv'
<1>1. TypeOK'
  BY WaiterType DEF WaiterAction
<1>2. PICK m \in Nodes : m = NewNode /\ ~node[m].live
  BY NewNodeType DEF WaitCall
<1>3. /\ node' = [node EXCEPT ![m] = Blank(TRUE)] /\ mine' = [mine EXCEPT ![t] = m]
      /\ UNCHANGED <<queue, chain, prev, taken, head, tail, owner>>
      /\ pc[t] = "client" /\ pc' = [pc EXCEPT ![t] = "wait"] /\ owner = t
  BY <1>2 DEF WaitCall, Goto, wakerVars, listVars
<1>4. \A u \in Threads : /\ pc'[u] = IF u = t THEN "wait" ELSE pc[u]
                         /\ mine'[u] = IF u = t THEN m ELSE mine[u]
  BY <1>3 DEF IInv, TypeOK
<1>5. \A n \in Nodes : node'[n] = IF n = m THEN Blank(TRUE) ELSE node[n]
  BY <1>3 DEF IInv, TypeOK
<1>6. mine[t] = Null /\ ~Awaited(m) /\ ~Reached(m)
  BY <1>2, <1>3 DEF IInv, WaiterBook, NodeBook
<1>7. /\ \A n : Reached(n)' <=> Reached(n)
      /\ \A n : Unposted(n)' <=> Unposted(n)
      /\ PlacesBook'
  BY <1>3, <1>4, ReachedKept, UnpostedKept DEF IInv
<1>8. \A n \in Nodes : /\ Awaited(n)' <=> Awaited(n) \/ n = m
                       /\ Fresh(n)' <=> Fresh(n) \/ n = m
  BY <1>3, <1>4, <1>6, NullIsNoNode DEF Awaited, Fresh
<1>9. ASSUME NEW n \in Nodes PROVE NodeBook(n)'
  <2>1. CASE n = m
    BY <1>5, <1>6, <1>7, <1>8, <2>1 DEF NodeBook, Blank
  <2>2. CASE n # m
    BY <1>5, <1>7, <1>8, <2>2, NodeKept DEF IInv
  <2> QED
    BY <2>1, <2>2
<1>10. ListIsLinked'
  <2>1. ASSUME NEW n \in Nodes, Reached(n) PROVE LinksKept(n)
    <3>1. n # m
      BY <1>6, <2>1
    <3> QED
      BY <1>5, <3>1 DEF LinksKept
  <2> QED
    BY <1>3, <1>4, <2>1, ListKept DEF IInv, BroadcastLabels
<1>11. ASSUME NEW u \in Threads PROVE WaiterBook(u)'
  <2>1. \A v \in Threads : mine[v] # m
    BY <1>6 DEF Awaited
  <2>2. /\ mine'[u] # Null <=>
             pc'[u] \in {"wait", "enqueue", "release", "sem", "expired", "woken"}
        /\ pc'[u] \in {"wait", "enqueue", "release"} => owner' = u
    BY <1>3, <1>4, NullIsNoNode DEF IInv, WaiterBook
  <2>3. ASSUME NEW v \in Threads, mine'[u] # Null, mine'[v] = mine'[u] PROVE v = u
    BY <1>4, <2>1, <2>3, OneWaiter
  <2>4. ASSUME NEW n \in Nodes, pc'[u] \in {"release", "sem"}, mine'[u] = n
        PROVE  Unposted(n)' \/ node'[n].sem = 1
    <3>1. u # t /\ pc[u] \in {"release", "sem"} /\ mine[u] = n /\ n # m
      BY <1>4, <2>1, <2>4
    <3>2. Unposted(n) \/ node[n].sem = 1
      BY <3>1 DEF IInv, WaiterBook
    <3> QED
      BY <1>5, <1>7, <3>1, <3>2
  <2>5. ASSUME NEW n \in Nodes, pc'[u] = "woken", mine'[u] = n
        PROVE  ~Unposted(n)'
    BY <1>4, <1>7, <2>5 DEF IInv, WaiterBook
  <2> QED
    BY <2>2, <2>3, <2>4, <2>5 DEF WaiterBook
<1>12. \A u \in Threads : WakerBook(u)'
  BY <1>3, <1>4 DEF IInv, WakerBook
<1> QED
  BY <1>1, <1>7, <1>9, <1>10, <1>11, <1>12 DEF IInv

(* What a broadcast can still walk, apart from the list itself.              *)
ChainLinked(t) ==
  pc[t] \in BroadcastLabels =>
    /\ taken[t] = (IF chain[t] = <<>> THEN Null ELSE Head(chain[t]))
    /\ Linked(chain[t])

QueueLinked ==
  /\ head = (IF queue = <<>> THEN Null ELSE Head(queue))
  /\ tail = (IF queue = <<>> THEN Null ELSE Last(queue))
  /\ Linked(queue)
  /\ \A i \in 1 .. Len(queue) :
       node[queue[i]].prev = IF i = 1 THEN Null ELSE queue[i - 1]

LEMMA TwoLists == ListIsLinked <=> QueueLinked /\ \A t \in Threads : ChainLinked(t)
BY DEF ListIsLinked, QueueLinked, ChainLinked, BroadcastLabels

LEMMA TwoListsAfter == (ListIsLinked <=> QueueLinked /\ \A t \in Threads : ChainLinked(t))'
BY TwoLists, PTL

LEMMA ChainKept ==
  ASSUME IInv, NEW t \in Threads,
         \A n \in Range(chain[t]) : node'[n].next = node[n].next,
         pc'[t] \in BroadcastLabels =>
           pc[t] \in BroadcastLabels /\ taken'[t] = taken[t] /\ chain'[t] = chain[t]
  PROVE  ChainLinked(t)'
<1> SUFFICES ASSUME pc'[t] \in BroadcastLabels PROVE ChainLinked(t)'
  BY DEF ChainLinked
<1>1. PICK s \in Seq(Nodes) : s = chain[t]
  BY ChainType DEF IInv
<1>2. pc[t] \in BroadcastLabels /\ taken'[t] = taken[t] /\ chain'[t] = s
  BY <1>1
<1>3. ChainLinked(t)
  BY TwoLists DEF IInv
<1>4. taken[t] = (IF s = <<>> THEN Null ELSE Head(s)) /\ Linked(s)
  BY <1>1, <1>2, <1>3 DEF ChainLinked
<1>5. \A i \in 1 .. Len(s) : node'[s[i]].next = node[s[i]].next
  BY <1>1, RangeOf
<1>6. \A i \in 1 .. Len(s) : node'[s[i]].next = IF i = Len(s) THEN Null ELSE s[i + 1]
  BY <1>4, <1>5 DEF Linked
<1> QED
  BY <1>2, <1>4, <1>6 DEF ChainLinked, Linked

LEMMA EnqueueStep ==
  ASSUME IInv, NEW t \in Threads, Enqueue(t)
  PROVE  IInv'
<1>1. TypeOK'
  BY WaiterType DEF WaiterAction
<1>2. PICK m \in Nodes : m = mine[t]
  BY DEF IInv, TypeOK, WaiterBook, Enqueue
<1>3. /\ tail' = m /\ queue' = Append(queue, m) /\ head' = IF tail = Null THEN m ELSE head
      /\ node' = IF tail = Null THEN node ELSE [node EXCEPT ![m].prev = tail, ![tail].next = m]
      /\ UNCHANGED <<mine, chain, prev, taken, owner>>
      /\ pc[t] = "enqueue" /\ pc' = [pc EXCEPT ![t] = "release"]
  BY <1>2 DEF Enqueue, Goto, wakerVars
<1>4. \A u \in Threads : pc'[u] = IF u = t THEN "release" ELSE pc[u]
  BY <1>3 DEF IInv, TypeOK
<1>5. Fresh(m) /\ node[m] = Blank(TRUE) /\ ~Reached(m) /\ m \notin Range(queue)
  <2>1. Fresh(m)
    BY <1>2, <1>3 DEF Fresh
  <2> QED
    BY <2>1 DEF IInv, NodeBook, Reached
<1>6. /\ queue \in Seq(Nodes) /\ IsInjective(queue) /\ Range(queue) \subseteq Nodes
      /\ Range(queue') = Range(queue) \cup {m} /\ IsInjective(queue')
      /\ queue' \in Seq(Nodes) /\ queue' # <<>>
  BY <1>3, <1>5, ListEnds, AppendRange
<1>7. tail # Null => tail \in Range(queue) /\ tail \in Nodes /\ tail # m
  BY <1>5, <1>6, ListEnds, FrontRange
<1>8. \A n \in Nodes :
        /\ node'[n].live = node[n].live /\ node'[n].status = node[n].status
        /\ node'[n].sem = node[n].sem
        /\ node'[n].prev = IF n = m /\ tail # Null THEN tail ELSE node[n].prev
        /\ node'[n].next = IF n = tail THEN m ELSE node[n].next
        /\ n # m /\ n # tail => node'[n] = node[n]
  <2>1. CASE tail = Null
    BY <1>3, <2>1, NullIsNoNode
  <2>2. CASE tail # Null
    BY <1>3, <1>7, <2>2 DEF IInv, TypeOK
  <2> QED
    BY <2>1, <2>2
<1>9. /\ \A n : Reached(n)' <=> Reached(n) \/ n = m
      /\ \A n : Unposted(n)' <=> Unposted(n) \/ n = m
  <2>1. \A u \in Threads : Carried(u)' = Carried(u) /\ ToPost(u)' = ToPost(u)
    BY <1>3, <1>4 DEF Carried, ToPost
  <2> QED
    BY <1>6, <2>1 DEF Reached, Unposted
<1>10. \A n : Awaited(n)' <=> Awaited(n)
  BY <1>3, AwaitedKept
<1>11. \A n \in Nodes : Fresh(n)' <=> Fresh(n) /\ n # m
  <2>1. ASSUME NEW n \in Nodes, Fresh(n)' PROVE Fresh(n) /\ n # m
    <3>1. PICK u \in Threads : mine'[u] = n /\ pc'[u] \in {"wait", "enqueue"}
      BY <2>1 DEF Fresh
    <3>2. u # t
      BY <1>4, <3>1
    <3> QED
      BY <1>2, <1>3, <1>4, <3>1, <3>2, OneWaiter, NullIsNoNode DEF Fresh
  <2>2. ASSUME NEW n \in Nodes, Fresh(n), n # m PROVE Fresh(n)'
    BY <1>2, <1>3, <1>4, <2>2 DEF Fresh
  <2> QED
    BY <2>1, <2>2
<1>12. ASSUME NEW n \in Nodes PROVE NodeBook(n)'
  <2>1. CASE n = m
    BY <1>5, <1>8, <1>9, <1>10, <1>11, <2>1 DEF IInv, NodeBook, Blank
  <2>2. CASE n # m /\ n = tail
    <3>1. Reached(n)
      BY <1>7, <2>2, NullIsNoNode DEF Reached
    <3>2. ~Fresh(n)
      BY <3>1 DEF IInv, NodeBook
    <3> QED
      BY <1>8, <1>9, <1>10, <1>11, <2>2, <3>2 DEF IInv, NodeBook
  <2>3. CASE n # m /\ n # tail
    BY <1>8, <1>9, <1>10, <1>11, <2>3, NodeKept DEF IInv
  <2> QED
    BY <2>1, <2>2, <2>3
<1>13. PlacesBook'
  <2>1. \A u \in Threads : Carried(u)' = Carried(u) /\ m \notin Carried(u)
    BY <1>3, <1>5 DEF Carried, Reached
  <2> QED
    BY <1>3, <1>6, <2>1 DEF IInv, PlacesBook
<1>14. QueueLinked'
  <2>1. /\ Len(queue') = Len(queue) + 1 /\ Len(queue) \in Nat
        /\ \A i \in 1 .. Len(queue') : queue'[i] = IF i = Len(queue') THEN m ELSE queue[i]
    BY <1>3, <1>6
  <2>2. /\ \A i, j \in 1 .. Len(queue) : queue[i] = queue[j] => i = j
        /\ \A i \in 1 .. Len(queue) : queue[i] \in Nodes /\ queue[i] # m
    BY <1>5, <1>6, RangeOf
  <2>3. tail = (IF Len(queue) = 0 THEN Null ELSE queue[Len(queue)])
    <3>1. queue = <<>> <=> Len(queue) = 0
      BY <1>6
    <3> QED
      BY <3>1, ListEnds DEF Last
  <2>4. /\ \A i \in 1 .. Len(queue) :
             /\ node[queue[i]].next = IF i = Len(queue) THEN Null ELSE queue[i + 1]
             /\ node[queue[i]].prev = IF i = 1 THEN Null ELSE queue[i - 1]
        /\ node[m].next = Null /\ node[m].prev = Null
    BY <1>5 DEF IInv, ListIsLinked, Linked, Blank
  <2>5. ASSUME NEW i \in 1 .. Len(queue')
        PROVE  node'[queue'[i]].next = IF i = Len(queue') THEN Null ELSE queue'[i + 1]
    <3>1. CASE i = Len(queue')
      BY <1>7, <1>8, <2>1, <2>4, <3>1
    <3>2. CASE i # Len(queue')
      <4>1. i \in 1 .. Len(queue) /\ queue'[i] = queue[i] /\ i + 1 \in 1 .. Len(queue')
        BY <2>1, <3>2
      <4>2. CASE i = Len(queue)
        <5>1. queue[i] = tail /\ i + 1 = Len(queue')
          BY <2>1, <2>3, <4>1, <4>2
        <5> QED
          BY <1>8, <2>1, <2>2, <4>1, <5>1
      <4>3. CASE i # Len(queue)
        <5>1. queue[i] # tail /\ i + 1 # Len(queue')
          BY <2>1, <2>2, <2>3, <4>1, <4>3
        <5> QED
          BY <1>8, <2>1, <2>2, <2>4, <4>1, <4>3, <5>1
      <4> QED
        BY <4>2, <4>3
    <3> QED
      BY <3>1, <3>2
  <2>6. ASSUME NEW i \in 1 .. Len(queue')
        PROVE  node'[queue'[i]].prev = IF i = 1 THEN Null ELSE queue'[i - 1]
    <3>1. CASE i = Len(queue')
      BY <1>8, <2>1, <2>3, <2>4, <3>1, NullIsNoNode
    <3>2. CASE i # Len(queue')
      <4>1. i \in 1 .. Len(queue) /\ queue'[i] = queue[i]
        BY <2>1, <3>2
      <4>2. i # 1 => i - 1 \in 1 .. Len(queue') /\ i - 1 # Len(queue')
        BY <2>1, <4>1
      <4>3. node'[queue'[i]].prev = IF i = 1 THEN Null ELSE queue[i - 1]
        BY <1>8, <2>2, <2>4, <4>1
      <4> QED
        BY <2>1, <4>2, <4>3
    <3> QED
      BY <3>1, <3>2
  <2>7. head' = Head(queue') /\ tail' = Last(queue')
    <3>1. queue'[Len(queue')] = m /\ Head(queue') = queue'[1]
      BY <1>6, <2>1
    <3>2. CASE Len(queue) = 0
      BY <1>3, <2>1, <2>3, <3>1, <3>2 DEF Last
    <3>3. CASE Len(queue) # 0
      <4>1. queue # <<>> /\ Head(queue) = queue[1] /\ 1 \in 1 .. Len(queue)
        BY <1>6, <3>3
      <4>2. tail # Null /\ head = queue[1]
        BY <4>1, ListEnds
      <4>3. queue'[1] = queue[1]
        BY <2>1, <4>1
      <4> QED
        BY <1>3, <3>1, <4>2, <4>3 DEF Last
    <3> QED
      BY <3>2, <3>3
  <2> QED
    BY <1>6, <2>5, <2>6, <2>7 DEF QueueLinked, Linked
<1>15. ASSUME NEW u \in Threads PROVE ChainLinked(u)'
  <2>1. ASSUME NEW n \in Range(chain[u]) PROVE node'[n].next = node[n].next
    <3>1. n \in Nodes /\ n \in Carried(u)
      BY ChainType, NullIsNoNode DEF IInv, Carried
    <3>2. n # tail
      BY <1>7, <3>1, NullIsNoNode DEF IInv, PlacesBook
    <3> QED
      BY <1>8, <3>1, <3>2
  <2>2. pc'[u] \in BroadcastLabels =>
          pc[u] \in BroadcastLabels /\ taken'[u] = taken[u] /\ chain'[u] = chain[u]
    BY <1>3, <1>4 DEF BroadcastLabels
  <2> QED
    BY <2>1, <2>2, ChainKept
<1>16. ListIsLinked'
  BY <1>14, <1>15, TwoListsAfter
<1>17. ASSUME NEW u \in Threads PROVE WaiterBook(u)'
  <2>1. /\ mine'[u] # Null <=>
             pc'[u] \in {"wait", "enqueue", "release", "sem", "expired", "woken"}
        /\ pc'[u] \in {"wait", "enqueue", "release"} => owner' = u
    BY <1>3, <1>4 DEF IInv, WaiterBook
  <2>2. \A v \in Threads : mine'[u] # Null /\ mine'[v] = mine'[u] => v = u
    BY <1>3 DEF IInv, WaiterBook
  <2>3. ASSUME NEW n \in Nodes, pc'[u] \in {"release", "sem"}, mine'[u] = n
        PROVE  Unposted(n)' \/ node'[n].sem = 1
    <3>1. CASE u = t
      BY <1>2, <1>3, <1>9, <2>3, <3>1
    <3>2. CASE u # t
      <4>1. Unposted(n) \/ node[n].sem = 1
        BY <1>3, <1>4, <2>3, <3>2 DEF IInv, WaiterBook
      <4> QED
        BY <1>8, <1>9, <4>1
    <3> QED
      BY <3>1, <3>2
  <2>4. ASSUME NEW n \in Nodes, pc'[u] = "woken", mine'[u] = n
        PROVE  ~Unposted(n)'
    <3>1. u # t /\ pc[u] = "woken" /\ mine[u] = n
      BY <1>3, <1>4, <2>4
    <3>2. n # m
      BY <1>2, <3>1, OneWaiter, NullIsNoNode
    <3>3. ~Unposted(n)
      BY <3>1 DEF IInv, WaiterBook
    <3> QED
      BY <1>9, <3>2, <3>3
  <2> QED
    BY <2>1, <2>2, <2>3, <2>4 DEF WaiterBook
<1>18. \A u \in Threads : WakerBook(u)'
  BY <1>3, <1>4 DEF IInv, WakerBook
<1> QED
  BY <1>1, <1>12, <1>13, <1>16, <1>17, <1>18 DEF IInv

LEMMA LeaveStep ==
  ASSUME IInv, NEW t \in Threads, Expired(t) \/ Woken(t)
  PROVE  IInv'
<1>1. TypeOK'
  BY WaiterType DEF WaiterAction
<1>2. PICK m \in Nodes : m = mine[t]
  BY DEF IInv, TypeOK, WaiterBook, Expired, Woken
<1>3. /\ mine' = [mine EXCEPT ![t] = Null]
      /\ UNCHANGED <<queue, chain, prev, taken, head, tail, owner>>
      /\ pc[t] \in {"expired", "woken"}
      /\ pc' = [pc EXCEPT ![t] = "client"] \/ pc' = [pc EXCEPT ![t] = "relock"]
      /\ \/ node[m].status = "WAITING" /\ node' = [node EXCEPT ![m].status = "TIMEOUT"]
         \/ node[m].status = "WAITING" /\ node' = [node EXCEPT ![m].status = "AWOKEN"]
         \/ node[m].status # "WAITING" /\ node' = [node EXCEPT ![m].live = FALSE]
  BY <1>2 DEF Expired, Woken, DropNode, Free, Goto, wakerVars, listVars
<1>4. \A u \in Threads : /\ u # t => pc'[u] = pc[u] /\ mine'[u] = mine[u]
                         /\ pc'[t] \in {"client", "relock"} /\ mine'[t] = Null
  BY <1>3 DEF IInv, TypeOK
<1>5. \A n \in Nodes : /\ LinksKept(n) /\ node'[n].sem = node[n].sem
                       /\ n # m => node'[n] = node[n]
  BY <1>3 DEF IInv, TypeOK, LinksKept
<1>6. /\ \A n : Reached(n)' <=> Reached(n)
      /\ \A n : Unposted(n)' <=> Unposted(n)
      /\ PlacesBook'
  BY <1>3, <1>4, ReachedKept, UnpostedKept DEF IInv
<1>7. \A u \in Threads : mine[u] = m => u = t
  BY <1>2, OneWaiter, NullIsNoNode
<1>8. \A n \in Nodes : /\ Awaited(n)' <=> Awaited(n) /\ n # m
                       /\ Fresh(n)' <=> Fresh(n)
  BY <1>2, <1>3, <1>4, <1>7, NullIsNoNode DEF Awaited, Fresh
<1>9. Awaited(m) /\ ~Fresh(m) /\ node[m].live
  <2>1. Awaited(m) /\ ~Fresh(m)
    BY <1>2, <1>3, <1>7 DEF Awaited, Fresh
  <2> QED
    BY <2>1, PartiesLive
<1>10. ASSUME NEW n \in Nodes PROVE NodeBook(n)'
  <2>1. CASE n = m
    <3>1. ~Awaited(m)' /\ ~Fresh(m)' /\ (Unposted(m)' => node'[m].sem = 0)
      BY <1>5, <1>6, <1>8, <1>9 DEF IInv, NodeBook
    <3>2. CASE node[m].status = "WAITING"
      <4>1. Reached(m)'
        BY <1>6, <1>9, <3>2 DEF IInv, NodeBook
      <4>2. node'[m].live /\ node'[m].status \in {"TIMEOUT", "AWOKEN"}
        <5>1. CASE node' = [node EXCEPT ![m].status = "TIMEOUT"]
          BY <1>9, <5>1 DEF IInv, TypeOK
        <5>2. CASE node' = [node EXCEPT ![m].status = "AWOKEN"]
          BY <1>9, <5>2 DEF IInv, TypeOK
        <5> QED
          BY <1>3, <3>2, <5>1, <5>2
      <4> QED
        BY <2>1, <3>1, <4>1, <4>2 DEF NodeBook
    <3>3. CASE node[m].status # "WAITING"
      <4>1. ~Reached(m)'
        BY <1>6, <1>9, <3>3 DEF IInv, TypeOK, NodeBook
      <4>2. ~node'[m].live
        BY <1>3, <3>3 DEF IInv, TypeOK
      <4> QED
        BY <2>1, <3>1, <4>1, <4>2 DEF NodeBook
    <3> QED
      BY <3>2, <3>3
  <2>2. CASE n # m
    BY <1>5, <1>6, <1>8, <2>2, NodeKept DEF IInv
  <2> QED
    BY <2>1, <2>2
<1>11. ListIsLinked'
  BY <1>3, <1>4, <1>5, ListKept DEF IInv, BroadcastLabels
<1>12. ASSUME NEW u \in Threads PROVE WaiterBook(u)'
  <2>1. CASE u = t
    BY <1>4, <2>1 DEF WaiterBook
  <2>2. CASE u # t
    <3>1. /\ mine'[u] # Null <=>
               pc'[u] \in {"wait", "enqueue", "release", "sem", "expired", "woken"}
          /\ pc'[u] \in {"wait", "enqueue", "release"} => owner' = u
      BY <1>3, <1>4, <2>2 DEF IInv, WaiterBook
    <3>2. ASSUME NEW v \in Threads, mine'[u] # Null, mine'[v] = mine'[u] PROVE v = u
      BY <1>4, <2>2, <3>2, OneWaiter
    <3>3. ASSUME NEW n \in Nodes, pc'[u] \in {"release", "sem"}, mine'[u] = n
          PROVE  Unposted(n)' \/ node'[n].sem = 1
      BY <1>4, <1>5, <1>6, <2>2, <3>3 DEF IInv, WaiterBook
    <3>4. ASSUME NEW n \in Nodes, pc'[u] = "woken", mine'[u] = n
          PROVE  ~Unposted(n)'
      BY <1>4, <1>6, <2>2, <3>4 DEF IInv, WaiterBook
    <3> QED
      BY <3>1, <3>2, <3>3, <3>4 DEF WaiterBook
  <2> QED
    BY <2>1, <2>2
<1>13. \A u \in Threads : WakerBook(u)'
  BY <1>3, <1>4 DEF IInv, WakerBook
<1> QED
  BY <1>1, <1>6, <1>10, <1>11, <1>12, <1>13 DEF IInv

-----------------------------------------------------------------------------
(***************************************************************************)
(* Steps of a waker.                                                       *)
(***************************************************************************)

(* The waiters' books, if what was unposted or posted stays so.              *)
LEMMA WaitersKept ==
  ASSUME IInv, NEW t \in Threads, UNCHANGED <<mine, owner>>,
         \A u \in Threads : u # t => pc'[u] = pc[u],
         pc[t] \notin {"wait", "enqueue", "release", "sem", "expired", "woken"},
         pc'[t] \notin {"wait", "enqueue", "release", "sem", "expired", "woken"},
         \A n \in Nodes :
           /\ Unposted(n) \/ node[n].sem = 1 => Unposted(n)' \/ node'[n].sem = 1
           /\ Unposted(n)' => Unposted(n)
  PROVE  /\ \A u \in Threads : WaiterBook(u)'
         /\ \A n : Awaited(n)' <=> Awaited(n)
         /\ \A n : Fresh(n)' <=> Fresh(n)
<1>1. /\ \A n : Awaited(n)' <=> Awaited(n)
      /\ \A n : Fresh(n)' <=> Fresh(n)
  BY AwaitedKept, FreshKept
<1>2. ASSUME NEW u \in Threads PROVE WaiterBook(u)'
  <2>1. /\ mine'[u] # Null <=>
             pc'[u] \in {"wait", "enqueue", "release", "sem", "expired", "woken"}
        /\ pc'[u] \in {"wait", "enqueue", "release"} => owner' = u
        /\ \A v \in Threads : mine'[u] # Null /\ mine'[v] = mine'[u] => v = u
    BY DEF IInv, WaiterBook
  <2>2. ASSUME NEW n \in Nodes, pc'[u] \in {"release", "sem"}, mine'[u] = n
        PROVE  Unposted(n)' \/ node'[n].sem = 1
    BY <2>2 DEF IInv, WaiterBook
  <2>3. ASSUME NEW n \in Nodes, pc'[u] = "woken", mine'[u] = n
        PROVE  ~Unposted(n)'
    BY <2>3 DEF IInv, WaiterBook
  <2> QED
    BY <2>1, <2>2, <2>3 DEF WaiterBook
<1> QED
  BY <1>1, <1>2

(* Only t's chain and prev have changed.                                   *)
OnlyChain(t) ==
  \A u \in Threads :
    u # t => /\ pc'[u] = pc[u] /\ taken'[u] = taken[u]
             /\ chain'[u] = chain[u] /\ prev'[u] = prev[u]

(* The places, if t takes from the list or drops what it had.               *)
LEMMA PlacesStep ==
  ASSUME IInv, NEW t \in Threads, OnlyChain(t),
         IsInjective(queue'), IsInjective(chain'[t]), prev'[t] \notin Range(chain'[t]),
         Range(queue') \subseteq Range(queue), Carried(t)' \cap Range(queue') = {},
         Carried(t)' \subseteq Carried(t) \cup Range(queue)
  PROVE  PlacesBook'
<1>1. \A u \in Threads : u # t => Carried(u)' = Carried(u)
  BY DEF OnlyChain, Carried
<1>2. ASSUME NEW u \in Threads
      PROVE  /\ IsInjective(chain'[u]) /\ prev'[u] \notin Range(chain'[u])
             /\ Carried(u)' \cap Range(queue') = {}
             /\ \A v \in Threads : u # v => Carried(u)' \cap Carried(v)' = {}
  <2>1. CASE u = t
    BY <1>1, <2>1 DEF IInv, PlacesBook
  <2>2. CASE u # t
    BY <1>1, <2>2 DEF IInv, PlacesBook, OnlyChain
  <2> QED
    BY <2>1, <2>2
<1> QED
  BY <1>2 DEF PlacesBook

LEMMA WakersKept ==
  ASSUME IInv, NEW t \in Threads, OnlyChain(t), WakerBook(t)'
  PROVE  \A u \in Threads : WakerBook(u)'
BY DEF IInv, WakerBook, OnlyChain

(* A node that a waker has is in no other place.                            *)
LEMMA OneHolder ==
  ASSUME IInv, NEW t \in Threads, NEW n \in Carried(t)
  PROVE  /\ n \in Nodes /\ n \notin Range(queue) /\ Reached(n)
         /\ \A u \in Threads : u # t =>
              n \notin Carried(u) /\ n \notin Range(chain[u]) /\ n \notin Range(ToPost(u))
<1>1. n \in Nodes /\ n \notin Range(queue) /\ Reached(n)
  BY ChainType DEF IInv, PlacesBook, Reached
<1>2. ASSUME NEW u \in Threads, u # t
      PROVE  n \notin Carried(u) /\ n \notin Range(chain[u]) /\ n \notin Range(ToPost(u))
  <2>1. n \notin Carried(u)
    BY <1>2 DEF IInv, PlacesBook
  <2>2. n \notin Range(chain[u])
    BY <1>1, <2>1 DEF Carried
  <2>3. n \notin Range(ToPost(u))
    <3>1. CASE pc[u] \in {"collect", "advance"}
      BY <2>2, <3>1, TakenIsHead, TailRange DEF ToPost
    <3>2. CASE pc[u] \notin {"collect", "advance"}
      BY <2>2, <3>2 DEF ToPost
    <3> QED
      BY <3>1, <3>2
  <2> QED
    BY <2>1, <2>2, <2>3
<1> QED
  BY <1>1, <1>2

(* A signal takes n from either end of the list.                            *)
LEMMA TookStep ==
  ASSUME IInv, TypeOK', NEW t \in Threads, NEW n \in Range(queue), NEW rest,
         pc[t] = "take", Took(t, n, rest), QueueLinked',
         Range(rest) = Range(queue) \ {n}, IsInjective(rest),
         \A m \in Nodes :
           /\ node'[m].live = node[m].live /\ node'[m].sem = node[m].sem
           /\ node'[m].status = node[m].status
           /\ m \notin Range(queue) => node'[m] = node[m]
  PROVE  IInv'
<1>1. /\ pc' = [pc EXCEPT ![t] = "post"] /\ taken' = [taken EXCEPT ![t] = n]
      /\ chain' = [chain EXCEPT ![t] = <<n>>] /\ queue' = rest
      /\ UNCHANGED <<mine, prev, owner>>
  BY DEF Took, Goto
<1>2. /\ OnlyChain(t) /\ pc'[t] = "post" /\ taken'[t] = n /\ chain'[t] = <<n>>
      /\ prev'[t] = prev[t]
  BY <1>1 DEF IInv, TypeOK, OnlyChain
<1>3. chain[t] = <<>> /\ prev[t] = Null /\ n \in Nodes
  BY ListEnds DEF IInv, WakerBook
<1>4. Carried(t) = {} /\ Carried(t)' = {n}
  BY <1>2, <1>3, Singleton, NullIsNoNode DEF Carried
<1>5. \A u \in Threads : u # t => Carried(u)' = Carried(u) /\ ToPost(u)' = ToPost(u)
  BY <1>2 DEF OnlyChain, Carried, ToPost
<1>6. /\ \A m : Reached(m)' <=> Reached(m)
      /\ \A m : Unposted(m)' <=> Unposted(m)
  <2>1. Range(ToPost(t)) = {} /\ Range(ToPost(t)') = {n}
    BY <1>2, <1>3, Singleton DEF ToPost
  <2>2. \A m : Reached(m)' <=> Reached(m)
    BY <1>1, <1>4, <1>5 DEF Reached
  <2>3. \A m : Unposted(m)' <=> Unposted(m)
    BY <1>1, <1>5, <2>1 DEF Unposted
  <2> QED
    BY <2>2, <2>3
<1>7. PlacesBook'
  BY <1>1, <1>2, <1>3, <1>4, Singleton, NullIsNoNode, PlacesStep
<1>8. /\ \A u \in Threads : WaiterBook(u)'
      /\ \A m : Awaited(m)' <=> Awaited(m)
      /\ \A m : Fresh(m)' <=> Fresh(m)
  BY <1>1, <1>2, <1>6, WaitersKept DEF OnlyChain
<1>9. ASSUME NEW m \in Nodes PROVE NodeBook(m)'
  <2>1. CASE m \in Range(queue)
    <3>1. Reached(m) /\ ~Fresh(m)
      BY <2>1 DEF IInv, NodeBook, Reached
    <3> QED
      BY <1>6, <1>8, <3>1 DEF IInv, NodeBook
  <2>2. CASE m \notin Range(queue)
    BY <1>6, <1>8, <2>2, NodeKept DEF IInv
  <2> QED
    BY <2>1, <2>2
<1>10. ASSUME NEW u \in Threads PROVE ChainLinked(u)'
  <2>1. CASE u = t
    BY <1>2, <2>1 DEF ChainLinked, BroadcastLabels
  <2>2. CASE u # t
    <3>1. ASSUME NEW m \in Range(chain[u]) PROVE node'[m].next = node[m].next
      <4>1. m \in Carried(u)
        BY ChainType, NullIsNoNode DEF IInv, Carried
      <4> QED
        BY <4>1, OneHolder
    <3> QED
      BY <1>2, <2>2, <3>1, ChainKept DEF OnlyChain
  <2> QED
    BY <2>1, <2>2
<1>11. ListIsLinked'
  BY <1>10, TwoListsAfter
<1>12. \A u \in Threads : WakerBook(u)'
  <2>1. WakerBook(t)'
    BY <1>2, <1>3, Singleton DEF WakerBook
  <2> QED
    BY <1>2, <2>1, WakersKept
<1> QED
  BY <1>7, <1>8, <1>9, <1>11, <1>12 DEF IInv

(* The list read as a sequence: entries, links and neighbours.              *)
LEMMA QueueEntries ==
  ASSUME IInv, queue # <<>>
  PROVE  /\ Len(queue) \in Nat \ {0}
         /\ \A i \in 1 .. Len(queue) :
              /\ queue[i] \in Nodes /\ queue[i] \in Range(queue)
              /\ node[queue[i]].next = IF i = Len(queue) THEN Null ELSE queue[i + 1]
              /\ node[queue[i]].prev = IF i = 1 THEN Null ELSE queue[i - 1]
         /\ \A i, j \in 1 .. Len(queue) : queue[i] = queue[j] => i = j
         /\ head = queue[1] /\ tail = queue[Len(queue)]
<1>1. queue \in Seq(Nodes) /\ Len(queue) \in Nat \ {0} /\ Head(queue) = queue[1]
  BY ListEnds
<1>2. \A i \in 1 .. Len(queue) : queue[i] \in Nodes /\ queue[i] \in Range(queue)
  BY <1>1, RangeOf
<1>3. \A i, j \in 1 .. Len(queue) : queue[i] = queue[j] => i = j
  BY <1>1, ListEnds, RangeOf
<1>4. head = queue[1] /\ tail = queue[Len(queue)]
  BY <1>1, ListEnds DEF Last
<1> QED
  BY <1>1, <1>2, <1>3, <1>4 DEF IInv, ListIsLinked, Linked

LEMMA TakeHeadStep ==
  ASSUME IInv, NEW t \in Threads, TakeHead(t)
  PROVE  IInv'
<1>1. TypeOK'
  BY WakerType DEF WakerAction
<1>2. pc[t] = "take" /\ queue # <<>> /\ queue \in Seq(Nodes)
  BY ListEnds DEF TakeHead
<1> DEFINE k == Len(queue)
           rest == Tail(queue)
<1>3. /\ k \in Nat \ {0} /\ head = queue[1] /\ tail = queue[k]
      /\ \A i \in 1 .. k :
           /\ queue[i] \in Nodes /\ queue[i] \in Range(queue)
           /\ node[queue[i]].next = IF i = k THEN Null ELSE queue[i + 1]
           /\ node[queue[i]].prev = IF i = 1 THEN Null ELSE queue[i - 1]
      /\ \A i, j \in 1 .. k : queue[i] = queue[j] => i = j
  BY <1>2, QueueEntries
<1>4. /\ Len(rest) = k - 1 /\ \A i \in 1 .. k - 1 : rest[i] = queue[i + 1]
      /\ rest = <<>> <=> k = 1
      /\ rest # <<>> => Head(rest) = queue[2] /\ Last(rest) = queue[k]
  <2>1. Len(rest) = k - 1 /\ \A i \in 1 .. k - 1 : rest[i] = queue[i + 1]
    BY <1>2
  <2>2. rest \in Seq(Nodes) /\ k - 1 \in Nat
    BY <1>2, <1>3
  <2> HIDE DEF rest, k
  <2>3. ASSUME rest # <<>> PROVE Head(rest) = queue[2] /\ Last(rest) = queue[k]
    <3>1. k # 1 /\ 1 \in 1 .. k - 1 /\ k - 1 \in 1 .. k - 1 /\ (k - 1) + 1 = k /\ 1 + 1 = 2
      BY <1>3, <2>1, <2>2, <2>3, EmptyLen
    <3> QED
      BY <2>1, <2>2, <2>3, <3>1 DEF Last
  <2> QED
    BY <1>3, <2>1, <2>2, <2>3, EmptyLen
<1>5. Took(t, head, rest) /\ queue' = rest
  BY DEF TakeHead, Took
<1>6. /\ head \in Range(queue) /\ Range(rest) = Range(queue) \ {head} /\ IsInjective(rest)
  BY <1>2, ListEnds, TailRange
<1> HIDE DEF k, rest
<1>7. CASE k = 1
  <2>1. head' = Null /\ tail' = Null /\ node' = node
    BY <1>3, <1>7 DEF TakeHead
  <2>2. queue' = <<>> /\ Len(queue') = 0
    BY <1>4, <1>5, <1>7
  <2>3. QueueLinked'
    BY <2>1, <2>2 DEF QueueLinked, Linked
  <2>4. \A m \in Nodes :
          /\ node'[m].live = node[m].live /\ node'[m].sem = node[m].sem
          /\ node'[m].status = node[m].status /\ node'[m] = node[m]
    BY <2>1
  <2> QED
    BY <1>1, <1>2, <1>5, <1>6, <2>3, <2>4, TookStep
<1>8. CASE k # 1
  <2>1. 1 \in 1 .. k /\ 2 \in 1 .. k /\ k \in 1 .. k
    BY <1>3, <1>8
  <2>2. /\ head' = queue[2] /\ tail' = tail
        /\ node' = [node EXCEPT ![queue[2]].prev = Null]
    BY <1>3, <1>8, <2>1, NullIsNoNode DEF TakeHead
  <2>3. \A m \in Nodes :
          /\ node'[m].live = node[m].live /\ node'[m].sem = node[m].sem
          /\ node'[m].status = node[m].status /\ node'[m].next = node[m].next
          /\ node'[m].prev = IF m = queue[2] THEN Null ELSE node[m].prev
          /\ m # queue[2] => node'[m] = node[m]
    BY <1>3, <2>1, <2>2 DEF IInv, TypeOK
  <2>4. ASSUME NEW i \in 1 .. Len(rest)
        PROVE  /\ node'[rest[i]].next = IF i = Len(rest) THEN Null ELSE rest[i + 1]
               /\ node'[rest[i]].prev = IF i = 1 THEN Null ELSE rest[i - 1]
    <3>1. i \in 1 .. k - 1 /\ i + 1 \in 1 .. k /\ i \in 1 .. k
      BY <1>3, <1>4
    <3>2. rest[i] = queue[i + 1]
      BY <1>4, <3>1
    <3>3. /\ node[rest[i]].next = IF i + 1 = k THEN Null ELSE queue[(i + 1) + 1]
          /\ node[rest[i]].prev = queue[i]
          /\ rest[i] \in Nodes /\ (rest[i] = queue[2] <=> i = 1)
      <4>1. i + 1 # 1 /\ (i + 1) - 1 = i /\ (i + 1 = 2 <=> i = 1)
        BY <3>1
      <4> QED
        BY <1>3, <2>1, <3>1, <3>2, <4>1
    <3>4. i + 1 = k <=> i = Len(rest)
      BY <1>3, <1>4, <3>1
    <3>5. i # Len(rest) => rest[i + 1] = queue[(i + 1) + 1]
      <4>1. i # Len(rest) => i + 1 \in 1 .. k - 1
        BY <1>3, <1>4, <3>1
      <4> QED
        BY <1>4, <4>1
    <3>6. i # 1 => rest[i - 1] = queue[i]
      <4>1. i # 1 => i - 1 \in 1 .. k - 1 /\ (i - 1) + 1 = i
        BY <1>3, <3>1
      <4> QED
        BY <1>4, <4>1
    <3> QED
      BY <2>3, <3>3, <3>4, <3>5, <3>6
  <2>5. QueueLinked'
    BY <1>3, <1>4, <1>5, <1>8, <2>2, <2>4 DEF QueueLinked, Linked
  <2>6. queue[2] \in Range(queue)
    BY <1>3, <2>1
  <2> QED
    BY <1>1, <1>2, <1>5, <1>6, <2>3, <2>5, <2>6, TookStep
<1> QED
  BY <1>7, <1>8

LEMMA TakeTailStep ==
  ASSUME IInv, NEW t \in Threads, TakeTail(t)
  PROVE  IInv'
<1>1. TypeOK'
  BY WakerType DEF WakerAction
<1>2. pc[t] = "take" /\ queue # <<>> /\ queue \in Seq(Nodes)
  BY ListEnds DEF TakeTail
<1> DEFINE k == Len(queue)
           rest == Front(queue)
<1>3. /\ k \in Nat \ {0} /\ head = queue[1] /\ tail = queue[k]
      /\ \A i \in 1 .. k :
           /\ queue[i] \in Nodes /\ queue[i] \in Range(queue)
           /\ node[queue[i]].next = IF i = k THEN Null ELSE queue[i + 1]
           /\ node[queue[i]].prev = IF i = 1 THEN Null ELSE queue[i - 1]
      /\ \A i, j \in 1 .. k : queue[i] = queue[j] => i = j
  BY <1>2, QueueEntries
<1>4. /\ tail \in Range(queue) /\ Range(rest) = Range(queue) \ {tail} /\ IsInjective(rest)
      /\ rest \in Seq(Nodes) /\ Len(rest) = k - 1 /\ \A i \in 1 .. k - 1 : rest[i] = queue[i]
  BY <1>2, ListEnds, FrontRange
<1>5. Took(t, tail, rest) /\ queue' = rest
  BY DEF TakeTail, Took
<1> HIDE DEF k, rest
<1>6. /\ rest = <<>> <=> k = 1
      /\ rest # <<>> => Head(rest) = queue[1] /\ Last(rest) = queue[k - 1]
  <2>1. rest = <<>> <=> Len(rest) = 0
    BY <1>4, EmptyLen
  <2>2. ASSUME rest # <<>> PROVE Head(rest) = queue[1] /\ Last(rest) = queue[k - 1]
    <3>1. 1 \in 1 .. k - 1 /\ k - 1 \in 1 .. k - 1
      BY <1>3, <1>4, <2>1, <2>2
    <3> QED
      BY <1>4, <2>2, <3>1 DEF Last
  <2> QED
    BY <1>3, <1>4, <2>1, <2>2
<1>7. CASE k = 1
  <2>1. head' = Null /\ tail' = Null /\ node' = node
    BY <1>3, <1>7 DEF TakeTail
  <2>2. queue' = <<>> /\ Len(queue') = 0
    BY <1>4, <1>5, <1>6, <1>7
  <2>3. QueueLinked'
    BY <2>1, <2>2 DEF QueueLinked, Linked
  <2>4. \A m \in Nodes :
          /\ node'[m].live = node[m].live /\ node'[m].sem = node[m].sem
          /\ node'[m].status = node[m].status /\ node'[m] = node[m]
    BY <2>1
  <2> QED
    BY <1>1, <1>2, <1>4, <1>5, <2>3, <2>4, TookStep
<1>8. CASE k # 1
  <2>1. 1 \in 1 .. k /\ k - 1 \in 1 .. k /\ k \in 1 .. k
    BY <1>3, <1>8
  <2>2. /\ tail' = queue[k - 1] /\ head' = head
        /\ node' = [node EXCEPT ![queue[k - 1]].next = Null]
    <3>1. node[tail].prev = queue[k - 1] /\ queue[k - 1] # Null
      BY <1>3, <1>8, <2>1, NullIsNoNode
    <3> QED
      BY <3>1 DEF TakeTail
  <2>3. \A m \in Nodes :
          /\ node'[m].live = node[m].live /\ node'[m].sem = node[m].sem
          /\ node'[m].status = node[m].status /\ node'[m].prev = node[m].prev
          /\ node'[m].next = IF m = queue[k - 1] THEN Null ELSE node[m].next
          /\ m # queue[k - 1] => node'[m] = node[m]
    BY <1>3, <2>1, <2>2 DEF IInv, TypeOK
  <2>4. ASSUME NEW i \in 1 .. Len(rest)
        PROVE  /\ node'[rest[i]].next = IF i = Len(rest) THEN Null ELSE rest[i + 1]
               /\ node'[rest[i]].prev = IF i = 1 THEN Null ELSE rest[i - 1]
    <3>1. i \in 1 .. k - 1 /\ i \in 1 .. k /\ i # k
      BY <1>3, <1>4
    <3>2. rest[i] = queue[i]
      BY <1>4, <3>1
    <3>3. /\ node[rest[i]].next = queue[i + 1]
          /\ node[rest[i]].prev = IF i = 1 THEN Null ELSE queue[i - 1]
          /\ rest[i] \in Nodes /\ (rest[i] = queue[k - 1] <=> i = k - 1)
      BY <1>3, <2>1, <3>1, <3>2
    <3>4. i # Len(rest) => rest[i + 1] = queue[i + 1]
      <4>1. i # Len(rest) => i + 1 \in 1 .. k - 1
        BY <1>3, <1>4, <3>1
      <4> QED
        BY <1>4, <4>1
    <3>5. i # 1 => rest[i - 1] = queue[i - 1]
      <4>1. i # 1 => i - 1 \in 1 .. k - 1
        BY <1>3, <3>1
      <4> QED
        BY <1>4, <4>1
    <3> QED
      BY <1>4, <2>3, <3>3, <3>4, <3>5
  <2>5. QueueLinked'
    BY <1>3, <1>5, <1>6, <1>8, <2>2, <2>4 DEF QueueLinked, Linked
  <2>6. queue[k - 1] \in Range(queue)
    BY <1>3, <2>1
  <2> QED
    BY <1>1, <1>2, <1>4, <1>5, <2>3, <2>5, <2>6, TookStep
<1> QED
  BY <1>7, <1>8

(* The list itself is as it was, if the links of its nodes are.              *)
LEMMA QueueKept ==
  ASSUME IInv, UNCHANGED <<head, tail, queue>>,
         \A n \in Nodes : n \in Range(queue) => LinksKept(n)
  PROVE  QueueLinked'
<1>1. QueueLinked /\ queue \in Seq(Nodes)
  BY TwoLists, ListEnds DEF IInv
<1>2. \A i \in 1 .. Len(queue) : LinksKept(queue[i])
  BY <1>1, RangeOf
<1> QED
  BY <1>1, <1>2 DEF QueueLinked, Linked, LinksKept

LEMMA PostStep ==
  ASSUME IInv, NEW t \in Threads, Post(t)
  PROVE  IInv'
<1>1. TypeOK'
  BY WakerType DEF WakerAction
<1>2. PICK x \in Nodes : /\ x = taken[t] /\ node[x].sem = 0 /\ Unposted(x)
                         /\ x \in Range(chain[t]) /\ x = Head(chain[t])
                         /\ chain[t] \in Seq(Nodes) /\ chain[t] # <<>> /\ IsInjective(chain[t])
  BY PostedOnce, TakenIsHead DEF Post
<1>3. /\ node' = [node EXCEPT ![x].sem = node[x].sem + 1]
      /\ UNCHANGED <<mine, taken, prev, chain, head, tail, queue, owner>>
      /\ \/ pc[t] = "post" /\ pc' = [pc EXCEPT ![t] = "collect"]
         \/ pc[t] = "post_all" /\ pc' = [pc EXCEPT ![t] = "advance"]
  BY <1>2 DEF Post, Goto, wakerVars, listVars
<1>4. /\ OnlyChain(t) /\ pc'[t] \in {"collect", "advance"}
      /\ \/ pc[t] = "post" /\ pc'[t] = "collect"
         \/ pc[t] = "post_all" /\ pc'[t] = "advance"
  BY <1>3 DEF IInv, TypeOK, OnlyChain
<1>5. \A n \in Nodes :
        /\ LinksKept(n) /\ node'[n].live = node[n].live /\ node'[n].status = node[n].status
        /\ node'[n].sem = IF n = x THEN 1 ELSE node[n].sem
        /\ n # x => node'[n] = node[n]
  BY <1>2, <1>3 DEF IInv, TypeOK, LinksKept
<1>6. (\A n : Reached(n)' <=> Reached(n)) /\ PlacesBook'
  BY <1>3, ReachedKept DEF IInv
<1>7. x \in Carried(t) /\ Reached(x) /\ ~Fresh(x)
  BY <1>2, NullIsNoNode, UnpostedIsReached DEF IInv, NodeBook, Carried
<1>8. \A n : Unposted(n)' <=> Unposted(n) /\ n # x
  <2>1. Range(ToPost(t)') = Range(ToPost(t)) \ {x}
    BY <1>2, <1>3, <1>4, TailRange DEF ToPost
  <2>2. \A u \in Threads : u # t => ToPost(u)' = ToPost(u)
    BY <1>3, <1>4 DEF ToPost, OnlyChain
  <2>3. x \notin Range(queue) /\ \A u \in Threads : u # t => x \notin Range(ToPost(u))
    BY <1>7, OneHolder
  <2> QED
    BY <1>3, <2>1, <2>2, <2>3 DEF Unposted
<1>9. /\ \A u \in Threads : WaiterBook(u)'
      /\ \A n : Awaited(n)' <=> Awaited(n)
      /\ \A n : Fresh(n)' <=> Fresh(n)
  BY <1>3, <1>4, <1>5, <1>8, WaitersKept DEF OnlyChain
<1>10. ASSUME NEW n \in Nodes PROVE NodeBook(n)'
  <2>1. CASE n = x
    BY <1>5, <1>6, <1>7, <1>8, <1>9, <2>1 DEF IInv, NodeBook
  <2>2. CASE n # x
    BY <1>5, <1>6, <1>8, <1>9, <2>2, NodeKept DEF IInv
  <2> QED
    BY <2>1, <2>2
<1>11. ListIsLinked'
  BY <1>3, <1>4, <1>5, ListKept DEF IInv, BroadcastLabels, OnlyChain
<1>12. \A u \in Threads : WakerBook(u)'
  <2>1. WakerBook(t)'
    BY <1>3, <1>4 DEF IInv, WakerBook
  <2> QED
    BY <1>4, <2>1, WakersKept
<1> QED
  BY <1>1, <1>6, <1>9, <1>10, <1>11, <1>12 DEF IInv

(* A waker races for the status of x, and does not use x any more.           *)
LEMMA RaceStep ==
  ASSUME IInv, TypeOK', NEW t \in Threads, NEW x \in Carried(t), node' = Raced(x),
         UNCHANGED <<mine, owner, head, tail, queue>>, OnlyChain(t),
         pc[t] \notin {"wait", "enqueue", "release", "sem", "expired", "woken"},
         pc'[t] \notin {"wait", "enqueue", "release", "sem", "expired", "woken"},
         Carried(t)' = Carried(t) \ {x}, Range(ToPost(t)') = Range(ToPost(t)),
         IsInjective(chain'[t]), prev'[t] \notin Range(chain'[t]), WakerBook(t)',
         pc'[t] \in BroadcastLabels =>
           pc[t] \in BroadcastLabels /\ taken'[t] = taken[t] /\ chain'[t] = chain[t]
  PROVE  IInv'
<1>1. /\ x \in Nodes /\ x \notin Range(queue) /\ Reached(x)
      /\ \A u \in Threads : u # t => x \notin Carried(u)
  BY OneHolder
<1>2. node[x].live /\ ~Fresh(x)
  BY <1>1 DEF IInv, NodeBook
<1>3. \A n \in Nodes : /\ LinksKept(n) /\ node'[n].sem = node[n].sem
                       /\ n # x => node'[n] = node[n]
  <2>1. \/ node' = [node EXCEPT ![x].status = "AWOKEN"]
        \/ node' = [node EXCEPT ![x].live = FALSE]
    BY DEF Raced, Free
  <2>2. CASE node' = [node EXCEPT ![x].status = "AWOKEN"]
    BY <1>1, <2>2 DEF IInv, TypeOK, LinksKept
  <2>3. CASE node' = [node EXCEPT ![x].live = FALSE]
    BY <1>1, <2>3 DEF IInv, TypeOK, LinksKept
  <2> QED
    BY <2>1, <2>2, <2>3
<1>4. /\ node[x].status = "WAITING" => node'[x].status = "AWOKEN" /\ node'[x].live
      /\ node[x].status # "WAITING" => ~node'[x].live
  <2>1. CASE node[x].status = "WAITING"
    <3>1. node' = [node EXCEPT ![x].status = "AWOKEN"]
      BY <2>1 DEF Raced
    <3> QED
      BY <1>1, <1>2, <2>1, <3>1 DEF IInv, TypeOK
  <2>2. CASE node[x].status # "WAITING"
    <3>1. node' = [node EXCEPT ![x].live = FALSE]
      BY <2>2 DEF Raced, Free
    <3> QED
      BY <1>1, <2>2, <3>1 DEF IInv, TypeOK
  <2> QED
    BY <2>1, <2>2
<1>5. \A u \in Threads : u # t => Carried(u)' = Carried(u) /\ ToPost(u)' = ToPost(u)
  BY DEF OnlyChain, Carried, ToPost
<1>6. /\ \A n : Reached(n)' <=> Reached(n) /\ n # x
      /\ \A n : Unposted(n)' <=> Unposted(n)
  BY <1>1, <1>5 DEF Reached, Unposted
<1>7. PlacesBook'
  <2>1. Carried(t) \cap Range(queue) = {} /\ IsInjective(queue)
    BY DEF IInv, PlacesBook
  <2> QED
    BY <2>1, PlacesStep
<1>8. /\ \A u \in Threads : WaiterBook(u)'
      /\ \A n : Awaited(n)' <=> Awaited(n)
      /\ \A n : Fresh(n)' <=> Fresh(n)
  BY <1>3, <1>6, WaitersKept DEF OnlyChain
<1>9. ASSUME NEW n \in Nodes PROVE NodeBook(n)'
  <2>1. CASE n = x
    <3>1. ~Reached(x)' /\ ~Fresh(x)' /\ (Unposted(x)' => node'[x].sem = 0)
      BY <1>1, <1>2, <1>3, <1>6, <1>8 DEF IInv, NodeBook
    <3>2. CASE node[x].status = "WAITING"
      <4>1. Awaited(x)'
        BY <1>1, <1>2, <1>8, <3>2 DEF IInv, NodeBook
      <4> QED
        BY <1>4, <2>1, <3>1, <3>2, <4>1 DEF NodeBook
    <3>3. CASE node[x].status # "WAITING"
      <4>1. ~Awaited(x)'
        BY <1>1, <1>2, <1>8, <3>3 DEF IInv, TypeOK, NodeBook
      <4> QED
        BY <1>4, <2>1, <3>1, <3>3, <4>1 DEF NodeBook
    <3> QED
      BY <3>2, <3>3
  <2>2. CASE n # x
    BY <1>3, <1>6, <1>8, <2>2, NodeKept DEF IInv
  <2> QED
    BY <2>1, <2>2
<1>10. ListIsLinked'
  BY <1>3, ListKept DEF IInv, OnlyChain
<1>11. \A u \in Threads : WakerBook(u)'
  BY WakersKept
<1> QED
  BY <1>7, <1>8, <1>9, <1>10, <1>11 DEF IInv

LEMMA CollectStep ==
  ASSUME IInv, NEW t \in Threads, Collect(t)
  PROVE  IInv'
<1>1. TypeOK'
  BY WakerType DEF WakerAction
<1>2. PICK x \in Nodes : /\ x = taken[t] /\ x = Head(chain[t]) /\ x \in Range(chain[t])
                         /\ chain[t] \in Seq(Nodes) /\ chain[t] # <<>> /\ IsInjective(chain[t])
  BY TakenIsHead DEF Collect
<1>3. /\ node' = Raced(x) /\ pc[t] = "collect"
      /\ pc' = [pc EXCEPT ![t] = "client"] /\ taken' = [taken EXCEPT ![t] = Null]
      /\ chain' = [chain EXCEPT ![t] = <<>>]
      /\ UNCHANGED <<mine, prev, head, tail, queue, owner>>
  BY <1>2 DEF Collect, Goto, listVars
<1>4. /\ OnlyChain(t) /\ pc'[t] = "client" /\ taken'[t] = Null /\ chain'[t] = <<>>
      /\ prev'[t] = prev[t]
  BY <1>3 DEF IInv, TypeOK, OnlyChain
<1>5. prev[t] = Null /\ Len(chain[t]) = 1
  BY <1>3 DEF IInv, WakerBook
<1>6. Range(chain[t]) = {x} /\ Range(Tail(chain[t])) = {}
  <2>1. Tail(chain[t]) \in Seq(Nodes) /\ Len(Tail(chain[t])) = 0
    BY <1>2, <1>5
  <2>2. Tail(chain[t]) = <<>>
    BY <2>1, EmptyLen
  <2>3. Range(Tail(chain[t])) = {}
    BY <2>2, Singleton
  <2> QED
    BY <1>2, <2>3, TailRange
<1>7. Carried(t) = {x} /\ Carried(t)' = {} /\ Range(ToPost(t)') = Range(ToPost(t))
  <2>1. Range(ToPost(t)) = {} /\ Range(ToPost(t)') = {}
    BY <1>3, <1>4, <1>6, Singleton DEF ToPost
  <2> QED
    BY <1>4, <1>5, <1>6, <2>1, Singleton, NullIsNoNode DEF Carried
<1>8. WakerBook(t)'
  BY <1>4, <1>5 DEF WakerBook
<1> QED
  BY <1>1, <1>3, <1>4, <1>7, <1>8, Singleton, RaceStep DEF BroadcastLabels

LEMMA CollectAllStep ==
  ASSUME IInv, NEW t \in Threads, CollectAll(t)
  PROVE  IInv'
<1>1. TypeOK'
  BY WakerType DEF WakerAction
<1>2. PICK x \in Nodes : x = prev[t]
  BY DEF IInv, TypeOK, WakerBook, CollectAll
<1>3. /\ node' = Raced(x) /\ pc[t] = "collect_all"
      /\ pc' = [pc EXCEPT ![t] = IF taken[t] = Null THEN "client" ELSE "post_all"]
      /\ prev' = [prev EXCEPT ![t] = Null]
      /\ UNCHANGED <<mine, taken, chain, head, tail, queue, owner>>
  BY <1>2 DEF CollectAll, Goto, listVars
<1>4. /\ OnlyChain(t) /\ pc'[t] = (IF taken[t] = Null THEN "client" ELSE "post_all")
      /\ taken'[t] = taken[t] /\ chain'[t] = chain[t] /\ prev'[t] = Null
  BY <1>3 DEF IInv, TypeOK, OnlyChain
<1>5. /\ chain[t] \in Seq(Nodes) /\ IsInjective(chain[t]) /\ x \notin Range(chain[t])
      /\ Null \notin Range(chain[t])
  BY <1>2, ChainType, NullIsNoNode DEF IInv, PlacesBook
<1>6. taken[t] = Null <=> chain[t] = <<>>
  <2>1. taken[t] = (IF chain[t] = <<>> THEN Null ELSE Head(chain[t]))
    BY <1>3 DEF IInv, ListIsLinked
  <2>2. chain[t] # <<>> => Head(chain[t]) \in Range(chain[t])
    BY <1>5, TailRange
  <2> QED
    BY <1>5, <2>1, <2>2
<1>7. /\ x \in Carried(t) /\ Carried(t)' = Carried(t) \ {x}
      /\ Range(ToPost(t)') = Range(ToPost(t))
  BY <1>2, <1>3, <1>4, <1>5, NullIsNoNode DEF Carried, ToPost
<1>8. WakerBook(t)'
  BY <1>4, <1>6 DEF WakerBook
<1> QED
  BY <1>1, <1>3, <1>4, <1>5, <1>7, <1>8, RaceStep DEF BroadcastLabels

LEMMA DetachStep ==
  ASSUME IInv, NEW t \in Threads, Detach(t)
  PROVE  IInv'
<1>1. TypeOK'
  BY WakerType DEF WakerAction
<1>2. /\ pc[t] = "detach" /\ pc' = [pc EXCEPT ![t] = "post_all"]
      /\ taken' = [taken EXCEPT ![t] = head] /\ chain' = [chain EXCEPT ![t] = queue]
      /\ head' = Null /\ tail' = Null /\ queue' = <<>>
      /\ UNCHANGED <<mine, prev, node, owner>>
  BY DEF Detach, Goto
<1>3. /\ OnlyChain(t) /\ pc'[t] = "post_all" /\ taken'[t] = head /\ chain'[t] = queue
      /\ prev'[t] = prev[t]
  BY <1>2 DEF IInv, TypeOK, OnlyChain
<1>4. /\ queue \in Seq(Nodes) /\ queue # <<>> /\ head = Head(queue)
      /\ IsInjective(queue) /\ Range(queue) \subseteq Nodes
  BY ListEnds DEF Detach
<1>5. chain[t] = <<>> /\ prev[t] = Null
  BY <1>2 DEF IInv, WakerBook
<1>6. Carried(t) = {} /\ Carried(t)' = Range(queue)
  BY <1>3, <1>4, <1>5, Singleton, NullIsNoNode DEF Carried
<1>7. \A u \in Threads : u # t => Carried(u)' = Carried(u) /\ ToPost(u)' = ToPost(u)
  BY <1>3 DEF OnlyChain, Carried, ToPost
<1>8. /\ \A n : Reached(n)' <=> Reached(n)
      /\ \A n : Unposted(n)' <=> Unposted(n)
  <2>1. Range(queue') = {}
    BY <1>2, Singleton
  <2>2. Range(ToPost(t)) = {} /\ Range(ToPost(t)') = Range(queue)
    BY <1>2, <1>3, <1>5, Singleton DEF ToPost
  <2>3. \A n : Reached(n)' <=> Reached(n)
    BY <1>6, <1>7, <2>1 DEF Reached
  <2>4. \A n : Unposted(n)' <=> Unposted(n)
    BY <1>7, <2>1, <2>2 DEF Unposted
  <2> QED
    BY <2>3, <2>4
<1>9. PlacesBook'
  <2>1. prev'[t] \notin Range(chain'[t])
    BY <1>3, <1>4, <1>5, NullIsNoNode
  <2>2. Range(queue') = {} /\ IsInjective(queue')
    BY <1>2, Singleton
  <2> QED
    BY <1>3, <1>4, <1>6, <2>1, <2>2, PlacesStep
<1>10. /\ \A u \in Threads : WaiterBook(u)'
       /\ \A n : Awaited(n)' <=> Awaited(n)
       /\ \A n : Fresh(n)' <=> Fresh(n)
  BY <1>2, <1>3, <1>8, WaitersKept DEF OnlyChain
<1>11. \A n \in Nodes : NodeBook(n)'
  BY <1>2, <1>8, <1>10, NodeKept DEF IInv
<1>12. QueueLinked'
  BY <1>2 DEF QueueLinked, Linked
<1>13. ASSUME NEW u \in Threads PROVE ChainLinked(u)'
  <2>1. CASE u = t
    <3>1. Linked(queue)
      BY DEF IInv, ListIsLinked
    <3>2. \A i \in 1 .. Len(queue) :
            node'[queue[i]].next = IF i = Len(queue) THEN Null ELSE queue[i + 1]
      BY <1>2, <3>1 DEF Linked
    <3> QED
      BY <1>3, <1>4, <2>1, <3>2 DEF ChainLinked, Linked
  <2>2. CASE u # t
    BY <1>2, <1>3, <2>2, ChainKept DEF OnlyChain
  <2> QED
    BY <2>1, <2>2
<1>14. ListIsLinked'
  BY <1>12, <1>13, TwoListsAfter
<1>15. \A u \in Threads : WakerBook(u)'
  <2>1. WakerBook(t)'
    BY <1>3, <1>4, <1>5 DEF WakerBook
  <2> QED
    BY <1>3, <2>1, WakersKept
<1> QED
  BY <1>1, <1>9, <1>10, <1>11, <1>14, <1>15 DEF IInv

LEMMA AdvanceStep ==
  ASSUME IInv, NEW t \in Threads, Advance(t)
  PROVE  IInv'
<1>1. TypeOK'
  BY WakerType DEF WakerAction
<1>2. PICK s \in Seq(Nodes) : s = chain[t]
  BY ChainType DEF IInv
<1>3. PICK x \in Nodes : x = taken[t] /\ x = Head(s) /\ x \in Range(s) /\ s # <<>> /\ IsInjective(s)
  BY <1>2, TakenIsHead DEF Advance
<1>4. /\ pc[t] = "advance" /\ pc' = [pc EXCEPT ![t] = "collect_all"]
      /\ prev' = [prev EXCEPT ![t] = x] /\ taken' = [taken EXCEPT ![t] = node[x].next]
      /\ chain' = [chain EXCEPT ![t] = Tail(s)]
      /\ UNCHANGED <<mine, node, head, tail, queue, owner>>
  BY <1>2, <1>3 DEF Advance, Goto, listVars
<1>5. /\ OnlyChain(t) /\ pc'[t] = "collect_all" /\ prev'[t] = x
      /\ taken'[t] = node[x].next /\ chain'[t] = Tail(s)
  BY <1>4 DEF IInv, TypeOK, OnlyChain
<1>6. /\ Range(Tail(s)) = Range(s) \ {x} /\ IsInjective(Tail(s)) /\ Tail(s) \in Seq(Nodes)
      /\ Null \notin Range(s) /\ prev[t] = Null
  <2>1. Null \notin Range(s)
    BY RangeOf, NullIsNoNode
  <2>2. prev[t] = Null
    BY <1>4 DEF IInv, WakerBook
  <2> QED
    BY <1>3, <2>1, <2>2, TailRange
<1>7. Carried(t) = Range(s) /\ Carried(t)' = Range(s)
  BY <1>2, <1>3, <1>5, <1>6, NullIsNoNode DEF Carried
<1>8. \A u \in Threads : Carried(u)' = Carried(u) /\ ToPost(u)' = ToPost(u)
  <2>1. ToPost(t)' = ToPost(t)
    BY <1>2, <1>4, <1>5 DEF ToPost
  <2>2. \A u \in Threads : u # t => Carried(u)' = Carried(u) /\ ToPost(u)' = ToPost(u)
    BY <1>5 DEF OnlyChain, Carried, ToPost
  <2> QED
    BY <1>7, <2>1, <2>2
<1>9. /\ \A n : Reached(n)' <=> Reached(n)
      /\ \A n : Unposted(n)' <=> Unposted(n)
  BY <1>4, <1>8 DEF Reached, Unposted
<1>10. PlacesBook'
  <2>1. Carried(t)' \cap Range(queue') = {} /\ IsInjective(queue')
    BY <1>4, <1>8 DEF IInv, PlacesBook
  <2> QED
    BY <1>4, <1>5, <1>6, <1>8, <2>1, PlacesStep
<1>11. /\ \A u \in Threads : WaiterBook(u)'
       /\ \A n : Awaited(n)' <=> Awaited(n)
       /\ \A n : Fresh(n)' <=> Fresh(n)
  BY <1>4, <1>5, <1>9, WaitersKept DEF OnlyChain
<1>12. \A n \in Nodes : NodeBook(n)'
  BY <1>4, <1>9, <1>11, NodeKept DEF IInv
<1>13. QueueLinked'
  BY <1>4, QueueKept DEF LinksKept
<1>14. ASSUME NEW u \in Threads PROVE ChainLinked(u)'
  <2>1. CASE u = t
    <3> DEFINE r == Tail(s)
    <3>1. /\ Len(s) \in Nat \ {0} /\ Len(r) = Len(s) - 1 /\ x = s[1]
          /\ \A i \in 1 .. Len(r) : r[i] = s[i + 1]
          /\ r \in Seq(Nodes)
      BY <1>3, <1>6
    <3>2. \A i \in 1 .. Len(s) : node[s[i]].next = IF i = Len(s) THEN Null ELSE s[i + 1]
      <4>1. ChainLinked(t)
        BY TwoLists DEF IInv
      <4>2. Linked(chain[t])
        BY <1>4, <4>1 DEF ChainLinked, BroadcastLabels
      <4> QED
        BY <1>2, <4>2 DEF Linked
    <3> HIDE DEF r
    <3>3. (r = <<>> <=> Len(r) = 0) /\ (r # <<>> => Head(r) = r[1])
      BY <3>1, EmptyLen
    <3>4. node[x].next = (IF r = <<>> THEN Null ELSE Head(r))
      <4>1. 1 \in 1 .. Len(s) /\ (1 # Len(s) => 1 \in 1 .. Len(r))
        BY <3>1
      <4> QED
        BY <3>1, <3>2, <3>3, <4>1
    <3>5. ASSUME NEW i \in 1 .. Len(r)
          PROVE  node'[r[i]].next = IF i = Len(r) THEN Null ELSE r[i + 1]
      <4>1. /\ i + 1 \in 1 .. Len(s) /\ (i = Len(r) <=> i + 1 = Len(s))
            /\ i # Len(r) => i + 1 \in 1 .. Len(r)
        BY <3>1
      <4> QED
        BY <1>4, <3>1, <3>2, <4>1
    <3>6. taken'[t] = node[x].next /\ chain'[t] = r
      BY <1>5 DEF r
    <3> QED
      BY <2>1, <3>4, <3>5, <3>6 DEF ChainLinked, Linked
  <2>2. CASE u # t
    BY <1>4, <1>5, <2>2, ChainKept DEF OnlyChain
  <2> QED
    BY <2>1, <2>2
<1>15. ListIsLinked'
  BY <1>13, <1>14, TwoListsAfter
<1>16. \A u \in Threads : WakerBook(u)'
  <2>1. WakerBook(t)'
    BY <1>5, NullIsNoNode DEF WakerBook
  <2> QED
    BY <1>5, <2>1, WakersKept
<1> QED
  BY <1>1, <1>10, <1>11, <1>12, <1>15, <1>16 DEF IInv
-----------------------------------------------------------------------------
(***************************************************************************)
(* The invariant, and what follows from it.                                 *)
(***************************************************************************)
LEMMA InitIInv == Init => IInv
<1> SUFFICES ASSUME Init PROVE IInv
  OBVIOUS
<1>1. \A m \in BOOLEAN : Blank(m) \in NodeType
  <2>1. Null \in Nodes \cup {Null} /\ 0 \in 0 .. 1
    OBVIOUS
  <2> QED
    BY <2>1 DEF NodeType, Blank
<1>2. TypeOK
  <2>1. node \in [Nodes -> NodeType]
    BY <1>1 DEF Init
  <2>2. <<>> \in Seq(Nodes)
    OBVIOUS
  <2> QED
    BY <2>1, <2>2 DEF Init, TypeOK, NodeType
<1>3. \A t \in Threads : WaiterBook(t) /\ WakerBook(t)
  BY NullIsNoNode DEF Init, WaiterBook, WakerBook
<1>4. \A t \in Threads : Carried(t) = {} /\ Range(ToPost(t)) = {} /\ Range(chain[t]) = {}
  BY Singleton DEF Init, Carried, ToPost
<1>5. PlacesBook
  BY <1>4, Singleton DEF Init, PlacesBook
<1>6. ASSUME NEW n \in Nodes PROVE NodeBook(n)
  <2>1. ~Reached(n) /\ ~Awaited(n) /\ ~Fresh(n) /\ ~Unposted(n)
    BY <1>4, Singleton, NullIsNoNode DEF Init, Reached, Awaited, Fresh, Unposted
  <2>2. ~node[n].live
    BY DEF Init, Blank
  <2> QED
    BY <2>1, <2>2 DEF NodeBook
<1>7. ListIsLinked
  BY DEF Init, ListIsLinked, Linked
<1> QED
  BY <1>2, <1>3, <1>5, <1>6, <1>7 DEF IInv

LEMMA StepIInv == IInv /\ [Next]_vars => IInv'
<1> SUFFICES ASSUME IInv, [Next]_vars PROVE IInv'
  OBVIOUS
<1>1. CASE Next
  <2>1. PICK t \in Threads : CalmAction(t) \/ WaiterAction(t) \/ WakerAction(t)
    BY <1>1, WhatSteps
  <2>2. CASE WaiterAction(t)
    BY <2>2, WaitCallStep, EnqueueStep, SemStep, LeaveStep DEF WaiterAction
  <2>3. CASE WakerAction(t)
    BY <2>3, TakeHeadStep, TakeTailStep, PostStep, CollectStep, DetachStep, AdvanceStep,
       CollectAllStep DEF WakerAction
  <2> QED
    BY <2>1, <2>2, <2>3, CalmStep
<1>2. CASE UNCHANGED vars
  <2>1. UNCHANGED <<pc, timed, mine, taken, prev, node, head, tail, ul, owner, queue, chain>>
    BY <1>2 DEF vars, wakerVars, listVars
  <2>2. /\ \A n : Reached(n)' <=> Reached(n)
        /\ \A n : Unposted(n)' <=> Unposted(n)
        /\ \A n : Awaited(n)' <=> Awaited(n)
        /\ \A n : Fresh(n)' <=> Fresh(n)
        /\ PlacesBook'
    BY <2>1, ReachedKept, UnpostedKept, AwaitedKept, FreshKept DEF IInv
  <2>3. TypeOK'
    BY <2>1 DEF IInv, TypeOK
  <2>4. \A t \in Threads : WaiterBook(t)' /\ WakerBook(t)'
    BY <2>1, <2>2 DEF IInv, WaiterBook, WakerBook
  <2>5. \A n \in Nodes : NodeBook(n)'
    BY <2>1, <2>2, NodeKept DEF IInv
  <2>6. ListIsLinked'
    BY <2>1, ListKept DEF IInv, LinksKept
  <2> QED
    BY <2>2, <2>3, <2>4, <2>5, <2>6 DEF IInv
<1> QED
  BY <1>1, <1>2

(* Waiters, wakers and nodes are always in step: IInv holds throughout, for  *)
(* any threads and any number of nodes (txcond.c:73-231).                   *)
THEOREM Invariance == Spec => []IInv
BY InitIInv, StepIInv, PTL DEF Spec

(* Every variable keeps its type; in particular no semaphore is posted a     *)
(* second time (txcond.c:190, 222).                                        *)
THEOREM TypeCorrect == Spec => []TypeOK
<1>1. IInv => TypeOK
  BY DEF IInv
<1> QED
  BY <1>1, Invariance, PTL

(* The list is linked in both directions in the order in which the threads   *)
(* began to wait, and a broadcast can walk the list it detached             *)
(* (txcond.c:92-100, 173-186, 221).                                        *)
THEOREM ListStaysLinked == Spec => []ListIsLinked
<1>1. IInv => ListIsLinked
  BY DEF IInv
<1> QED
  BY <1>1, Invariance, PTL

(* The nodes in use are those that have a waiter or a waker left.            *)
LEMMA InUseNodes ==
  ASSUME IInv, NEW n \in Nodes
  PROVE  n \in InUse <=> Reached(n) \/ Awaited(n)
<1>1. n \in InUse <=> n \in Range(queue) \/ \E t \in Threads : n \in InUseBy(t)
  BY DEF InUse
<1>2. \A t \in Threads : n \in InUseBy(t) <=> n = mine[t] \/ n \in Carried(t)
  BY NullIsNoNode DEF InUseBy, Carried
<1> QED
  BY <1>1, <1>2 DEF Reached, Awaited

(* No waiter and no waker ever uses a node that has been freed               *)
(* (txcond.c:126, 136, 194, 226).                                          *)
THEOREM NodesOutliveTheirUse == Spec => []NoUseAfterFree
<1>1. IInv => NoUseAfterFree
  <2> SUFFICES ASSUME IInv, NEW n \in InUse PROVE node[n].live
    BY DEF NoUseAfterFree
  <2>1. n \in Nodes
    <3>1. Range(queue) \subseteq Nodes
      BY ListEnds
    <3>2. \A t \in Threads : InUseBy(t) \subseteq Nodes
      BY ChainType DEF IInv, TypeOK, InUseBy
    <3> QED
      BY <3>1, <3>2 DEF InUse
  <2> QED
    BY <2>1, InUseNodes, PartiesLive
<1> QED
  BY <1>1, Invariance, PTL

(* No node is leaked: one that is allocated has a waiter or a waker left,    *)
(* the last of whom frees it (txcond.c:118-137, 191-195, 223-227).          *)
THEOREM NodesAreNotLeaked == Spec => []NoNodeLost
<1>1. IInv => NoNodeLost
  <2> SUFFICES ASSUME IInv, NEW n \in Nodes, node[n].live PROVE n \in InUse
    BY DEF NoNodeLost
  <2>1. Reached(n) \/ Awaited(n)
    BY DEF IInv, TypeOK, NodeBook
  <2> QED
    BY <2>1, InUseNodes
<1> QED
  BY <1>1, Invariance, PTL

(* A wait that has given back the mutex is not overlooked: its node is in    *)
(* the list, or in the hands of a waker, or was posted (txcond.c:91-104).    *)
THEOREM WaitersAreNotOverlooked == Spec => []NoWakeupLost
<1>1. IInv => NoWakeupLost
  <2> SUFFICES ASSUME IInv, NEW t \in Threads, pc[t] \in {"wait", "enqueue", "release", "sem"},
                      owner # t
               PROVE  \/ mine[t] \in Range(queue)
                      \/ \E u \in Threads : mine[t] \in Range(chain[u])
                      \/ node[mine[t]].sem = 1
    BY DEF NoWakeupLost
  <2>1. PICK n \in Nodes : n = mine[t]
    BY DEF IInv, TypeOK, WaiterBook
  <2>2. Unposted(n) \/ node[n].sem = 1
    BY <2>1 DEF IInv, WaiterBook
  <2>3. CASE Unposted(n)
    <3>1. ASSUME NEW u \in Threads, n \in Range(ToPost(u)) PROVE n \in Range(chain[u])
      <4>1. CASE pc[u] \in {"collect", "advance"}
        BY <3>1, <4>1, TakenIsHead, TailRange DEF ToPost
      <4>2. CASE pc[u] \notin {"collect", "advance"}
        BY <3>1, <4>2 DEF ToPost
      <4> QED
        BY <4>1, <4>2
    <3> QED
      BY <2>1, <2>3, <3>1 DEF Unposted
  <2> QED
    BY <2>1, <2>2, <2>3
<1> QED
  BY <1>1, Invariance, PTL

(* A wait ends as a wake-up only if its node was posted, and as a timeout     *)
(* only if a waker is left that will see that: a wait that was posted, and    *)
(* whose waker was the first to change status, counts as woken              *)
(* (txcond.c:116-138).                                                     *)
THEOREM OutcomesAreTrue == Spec => OutcomeIsTrue
<1>1. ASSUME IInv, Next, NEW t \in Threads, mine[t] # Null, mine'[t] = Null
      PROVE  Expired(t) \/ Woken(t)
  <2>1. PICK u \in Threads : CalmAction(u) \/ WaiterAction(u) \/ WakerAction(u)
    BY <1>1, WhatSteps
  <2>2. CASE CalmAction(u)
    BY <1>1, <2>2
    DEF CalmAction, LockMutex, UnlockMutex, Relock, Release, TimeOut, ul_lock, NobodyWaits,
        txcond_signal, txcond_broadcast
  <2>3. CASE WakerAction(u)
    BY <1>1, <2>3
    DEF WakerAction, TakeHead, TakeTail, Took, Post, Collect, Detach, Advance, CollectAll
  <2>4. ASSUME NEW withTimeout \in BOOLEAN, WaitCall(u, withTimeout) PROVE FALSE
    <3>1. NewNode # Null
      BY <2>4, NewNodeType, NullIsNoNode DEF WaitCall
    <3> QED
      BY <1>1, <2>4, <3>1 DEF IInv, TypeOK, WaitCall
  <2>5. CASE Enqueue(u) \/ SemWait(u)
    BY <1>1, <2>5 DEF Enqueue, SemWait
  <2>6. CASE Expired(u) \/ Woken(u)
    BY <1>1, <2>6 DEF IInv, TypeOK, Expired, Woken, DropNode
  <2> QED
    BY <2>1, <2>2, <2>3, <2>4, <2>5, <2>6 DEF WaiterAction
<1>2. ASSUME IInv, NEW t \in Threads, mine[t] # Null, Expired(t) \/ Woken(t)
      PROVE  IF pc'[t] = "relock" THEN ~Unposted(mine[t]) ELSE Reached(mine[t])
  <2>1. PICK n \in Nodes : n = mine[t]
    BY <1>2 DEF IInv, TypeOK
  <2>2. Awaited(n) /\ node[n].live
    BY <2>1, PartiesLive, <1>2 DEF Awaited
  <2>3. CASE Woken(t)
    <3>1. pc[t] = "woken" /\ pc'[t] = "relock"
      BY <1>2, <2>3 DEF IInv, TypeOK, Woken, DropNode, Goto
    <3> QED
      BY <1>2, <2>1, <3>1 DEF IInv, WaiterBook
  <2>4. CASE Expired(t) /\ node[n].status = "WAITING"
    <3>1. pc'[t] = "client"
      BY <1>2, <2>1, <2>4 DEF IInv, TypeOK, Expired, DropNode, Goto
    <3>2. ~Fresh(n)
      BY <1>2, <2>1, <2>4, OneWaiter, NullIsNoNode DEF Fresh, Expired
    <3>3. Reached(n)
      BY <1>2, <2>2, <2>4, <3>2 DEF IInv, NodeBook
    <3> QED
      BY <2>1, <3>1, <3>3
  <2>5. CASE Expired(t) /\ node[n].status # "WAITING"
    <3>1. pc'[t] = "relock"
      BY <1>2, <2>1, <2>5 DEF IInv, TypeOK, Expired, DropNode, Goto
    <3>2. node[n].status = "AWOKEN"
      BY <1>2, <2>2, <2>5 DEF IInv, TypeOK, NodeBook
    <3>3. ~Reached(n)
      BY <1>2, <2>2, <3>2 DEF IInv, NodeBook
    <3> QED
      BY <1>2, <2>1, <3>1, <3>3, UnpostedIsReached
  <2> QED
    BY <1>2, <2>3, <2>4, <2>5
<1>3. ASSUME IInv, [Next]_vars
      PROVE  [\A t \in Threads :
                mine[t] # Null /\ mine'[t] = Null =>
                  IF pc'[t] = "relock" THEN ~Unposted(mine[t]) ELSE Reached(mine[t])]_vars
  BY <1>1, <1>2, <1>3
<1> QED
  BY <1>3, Invariance, PTL DEF Spec, OutcomeIsTrue
=============================================================================
