------------------------------- MODULE McsLock -------------------------------
(***************************************************************************)
(* The queue locks "mcs" and "mcs_tm": mcs_lock_common, mcs_unlock_common   *)
(* and the functions that call them.  Each thread has a pool of queue nodes *)
(* in two lists, free and used.  A thread that arrives swaps its node into  *)
(* the tail of the lock, writes its address in the node of the one before   *)
(* it, and waits until that one writes wait in its node.                    *)
(*                                                                         *)
(* With mcs_tm each acquisition has a number, one more than that of the     *)
(* node before it, and a waiter whose number is close enough to now_serving *)
(* speculates, once, before it waits.                                      *)
(***************************************************************************)
EXTENDS Htm, SequencesExt

CONSTANTS NumNodes,   \* nodes added to a pool at a time, 8 in the code
          MaxServed   \* bound of the model: no new call on a lock that has served so many

ASSUME McsAssumption == IsFiniteSet(Locks) /\ NumNodes \in Nat \ {0} /\ MaxServed \in Nat

VARIABLES using,        \* using_lock_type, by its name
          tail,         \* tail[l]: node of the last thread in line, or NoNode
          now_serving,  \* now_serving[l]: number of the last real acquisition
          node,         \* node[n]: the fields of node n
          my_free_nodes,  \* my_free_nodes[t]: first node of t's free list, or NoNode
          my_used_nodes,  \* my_used_nodes[t]: first node of t's used list, or NoNode
          list_next,    \* list_next[n]: the link of n to the next node of its list
          list_prev,    \* list_prev[n]: the link back, which only used nodes need
          free,         \* free[t]: history variable, the free nodes of t in order
          used,         \* used[t]: history variable, the used nodes of t, newest first
          mine,         \* mine[t]: the node of t's call in progress
          ptr,          \* ptr[t]: pred in a lock call, current in an unlock
          num,          \* num[t]: cnt in a lock call, dist in an unlock
          line          \* line[l]: history variable, who waits for l, first come first

listVars == <<my_free_nodes, my_used_nodes, list_next, list_prev, free, used>>
mcsVars == <<tail, now_serving, node, listVars, mine, ptr, num, line>>

NoNode == <<>>

(* The pools never grow beyond this: when a pool is refilled, its used      *)
(* nodes are those of at most all locks but one.                           *)
Nodes == Threads \X (1 .. Cardinality(Locks) - 1 + NumNodes)

Owner(n) == n[1]

Clear(l) == [next |-> NoNode, wait |-> TRUE, speculate |-> TRUE, cnt |-> 0, lock |-> l]

McsInit ==
  /\ tail = [l \in Locks |-> NoNode]
  /\ now_serving = [l \in Locks |-> 0]
  /\ node = [n \in Nodes |-> Clear(Null)]
  /\ my_free_nodes = [t \in Threads |-> NoNode]
  /\ my_used_nodes = [t \in Threads |-> NoNode]
  /\ list_next = [n \in Nodes |-> NoNode]
  /\ list_prev = [n \in Nodes |-> NoNode]
  /\ free = [t \in Threads |-> <<>>]
  /\ used = [t \in Threads |-> <<>>]
  /\ mine = [t \in Threads |-> NoNode]
  /\ ptr = [t \in Threads |-> NoNode]
  /\ num = [t \in Threads |-> 0]
  /\ line = [l \in Locks |-> <<>>]

McsLabels ==
  {"swap", "try_swap", "link", "predcnt", "getcnt", "window", "begin", "check", "abort",
   "await", "count", "serve", "next", "cas", "arriver", "halt", "wake", "failed"}

tm == using = "mcs_tm"

-----------------------------------------------------------------------------
(***************************************************************************)
(* mcs_lock_common.                                                        *)
(***************************************************************************)

(* The value x stored through the pointer n, which may be null: the test in   *)
(* front of each such store is part of it.                                 *)
Store(f, n, x) == IF n = NoNode THEN f ELSE [f EXCEPT ![n] = x]

(* Mutant of NewNodes: the list goes on behind the end of the array.        *)
NewNodesUnended(t) ==
  [i \in 1 .. Cardinality(Locks) + NumNodes |-> <<t, Len(used[t]) + i>>]

(* The nodes that malloc adds to the pool of t, whose free list is empty.   *)
NewNodes(t) == [i \in 1 .. NumNodes |-> <<t, Len(used[t]) + i>>]

(* The new nodes are linked in their order, and the last one leads nowhere.  *)
(* Their other fields are as McsInit has them.                             *)
alloc_more_nodes(t) ==
  LET new == NewNodes(t) IN
  /\ list_next' =
       [n \in Nodes |-> IF n \notin Range(new) THEN list_next[n]
                        ELSE IF n = new[NumNodes] THEN NoNode ELSE <<t, n[2] + 1>>]
  /\ list_prev' = [n \in Nodes |-> IF n \in Range(new) THEN NoNode ELSE list_prev[n]]
  /\ my_free_nodes' = [my_free_nodes EXCEPT ![t] = new[1]]
  /\ free' = [free EXCEPT ![t] = new]
  /\ UNCHANGED <<my_used_nodes, used>>

(* my_free_nodes, with nodes in it.                                        *)
GetFreeNodes(t) ==
  IF my_free_nodes[t] = NoNode THEN alloc_more_nodes(t) ELSE UNCHANGED listVars

(* Mutant of mcs_lock_common: wait is left as it was when the node was last *)
(* used.                                                                   *)
McsLockStaleWait(t, l, entry) ==
  \/ Elided(t, held[t] \cup {l}) /\ UNCHANGED mcsVars
  \/ /\ spec_entry[t] = Null
     /\ now_serving[l] < MaxServed
     /\ GetFreeNodes(t)
     /\ mine' = [mine EXCEPT ![t] = my_free_nodes'[t]]
     /\ node' = [node EXCEPT ![mine'[t]] = [Clear(l) EXCEPT !.wait = node[mine'[t]].wait]]
     /\ Call(t, l, entry)
     /\ UNCHANGED <<tail, now_serving, ptr, num, line, htmVars>>

(* lock or try-lock: elided, or with the first free node made ready, which  *)
(* stays on the free list for now.                                         *)
mcs_lock_common(t, l, entry) ==
  \/ Elided(t, held[t] \cup {l}) /\ UNCHANGED mcsVars
  \/ /\ spec_entry[t] = Null
     /\ now_serving[l] < MaxServed
     /\ GetFreeNodes(t)
     /\ mine' = [mine EXCEPT ![t] = my_free_nodes'[t]]
     /\ node' = [node EXCEPT ![mine'[t]] = Clear(l)]
     /\ Call(t, l, entry)
     /\ UNCHANGED <<tail, now_serving, ptr, num, line, htmVars>>

(* The call in progress returns 0.                                         *)
McsAcquired(t) ==
  /\ Acquired(t)
  /\ mine' = [mine EXCEPT ![t] = NoNode]
  /\ num' = [num EXCEPT ![t] = 0]

(* The node goes from the head of one list to the head of the other.        *)
UseNode(t) ==
  LET m == mine[t] IN
  /\ my_free_nodes' = [my_free_nodes EXCEPT ![t] = list_next[m]]
  /\ list_next' = [list_next EXCEPT ![m] = my_used_nodes[t]]
  /\ list_prev' = [Store(list_prev, my_used_nodes[t], m) EXCEPT ![m] = NoNode]
  /\ my_used_nodes' = [my_used_nodes EXCEPT ![t] = m]
  /\ free' = [free EXCEPT ![t] = Tail(@)]
  /\ used' = [used EXCEPT ![t] = <<mine[t]>> \o @]

(* mine is the new tail; pred is the old one.  Without a predecessor an mcs *)
(* lock is taken, an mcs_tm lock still has to be numbered.                 *)
Swapped(t) ==
  /\ tail' = [tail EXCEPT ![lk[t]] = mine[t]]
  /\ UseNode(t)
  /\ UNCHANGED <<now_serving, node, htmVars>>
  /\ \/ /\ tail[lk[t]] = NoNode /\ ~tm
        /\ McsAcquired(t)
        /\ UNCHANGED <<ptr, line>>
     \/ /\ tail[lk[t]] # NoNode \/ tm
        /\ ptr' = [ptr EXCEPT ![t] = tail[lk[t]]]
        /\ line' = [line EXCEPT ![lk[t]] = Append(@, t)]
        /\ Goto(t, IF tail[lk[t]] = NoNode THEN "count" ELSE "link")
        /\ UNCHANGED <<mine, num>>

Swap(t) == pc[t] = "swap" /\ Swapped(t)

(* The try-lock compares the tail with NULL and leaves its node free when   *)
(* somebody is in line.                                                    *)
TrySwap(t) ==
  /\ pc[t] = "try_swap"
  /\ \/ tail[lk[t]] = NoNode /\ Swapped(t)
     \/ /\ tail[lk[t]] # NoNode
        /\ Refused(t)
        /\ mine' = [mine EXCEPT ![t] = NoNode]
        /\ UNCHANGED <<tail, now_serving, node, listVars, ptr, num, line, htmVars>>

(* pred->lock_next = mine                                                  *)
Link(t) ==
  /\ pc[t] = "link"
  /\ node' = [node EXCEPT ![ptr[t]].next = mine[t]]
  /\ ptr' = IF tm THEN ptr ELSE [ptr EXCEPT ![t] = NoNode]
  /\ Goto(t, IF tm THEN "predcnt" ELSE "await")
  /\ UNCHANGED <<tail, now_serving, listVars, mine, num, line, htmVars>>

(* while(pred->cnt==0){}: whoever owns the node pred by now.               *)
AwaitCount(t) ==
  /\ pc[t] = "predcnt"
  /\ node[ptr[t]].cnt # 0
  /\ Goto(t, "getcnt")
  /\ UNCHANGED <<mcsVars, htmVars>>

(* A second read of pred->cnt.                                             *)
GetCount(t) ==
  LET cnt == node[ptr[t]].cnt + 1 IN
  /\ pc[t] = "getcnt"
  /\ num' = [num EXCEPT ![t] = cnt]
  /\ node' = [node EXCEPT ![mine[t]].cnt = cnt]
  /\ ptr' = [ptr EXCEPT ![t] = NoNode]
  /\ Goto(t, "window")
  /\ UNCHANGED <<tail, now_serving, listVars, mine, line, htmVars>>

InMcsWindow(t) ==
  /\ now_serving[lk[t]] + MinDistance < num[t]
  /\ now_serving[lk[t]] + MaxDistance > num[t]

Window(t) ==
  /\ pc[t] = "window"
  /\ Goto(t, IF InMcsWindow(t) THEN "begin" ELSE "await")
  /\ UNCHANGED <<mcsVars, htmVars>>

Begin(t) ==
  /\ pc[t] = "begin"
  /\ EnterHtm(t, lk[t], Goto(t, "check"))
  /\ UNCHANGED mcsVars

(* Mutant of CheckFlags: the flags are not read inside the transaction.     *)
CheckFlagsOutside(t) ==
  /\ pc[t] = "check"
  /\ UNCHANGED mcsVars
  /\ \/ ~(node[mine[t]].speculate /\ node[mine[t]].wait) /\ Abort(t)
     \/ /\ node[mine[t]].speculate /\ node[mine[t]].wait
        /\ Acquired(t)
        /\ UNCHANGED htmVars

(* The transaction reads its node's flags, and so watches them.            *)
CheckFlags(t) ==
  /\ pc[t] = "check"
  /\ UNCHANGED mcsVars
  /\ \/ ~(node[mine[t]].speculate /\ node[mine[t]].wait) /\ Abort(t)
     \/ /\ node[mine[t]].speculate /\ node[mine[t]].wait
        /\ Watch(t, lk[t])
        /\ Acquired(t)
        /\ UNCHANGED <<spec_entry, tries>>

(* Speculation is tried once.                                              *)
McsFailed(t) == EnterHtmFailed(t, "await") /\ UNCHANGED <<tries, mcsVars>>

(* while(mine->wait){}, and with mcs_tm the assertion about the number.    *)
Await(t) ==
  /\ pc[t] = "await"
  /\ ~node[mine[t]].wait
  /\ \/ /\ tm => now_serving[lk[t]] = num[t] - 1
        /\ now_serving' = IF tm THEN [now_serving EXCEPT ![lk[t]] = num[t]] ELSE now_serving
        /\ McsAcquired(t)
        /\ line' = [line EXCEPT ![lk[t]] = Tail(@)]
     \/ /\ tm /\ now_serving[lk[t]] # num[t] - 1
        /\ Goto(t, "failed")
        /\ UNCHANGED <<now_serving, mine, num, line>>
  /\ UNCHANGED <<tail, node, listVars, ptr, htmVars>>

(* No predecessor: mine->cnt = lk->now_serving+1, and then                 *)
(* lk->now_serving++.                                                      *)
Count(t) ==
  /\ pc[t] = "count"
  /\ node' = [node EXCEPT ![mine[t]].cnt = now_serving[lk[t]] + 1]
  /\ Goto(t, "serve")
  /\ UNCHANGED <<tail, now_serving, listVars, mine, ptr, num, line, htmVars>>

Serve(t) ==
  /\ pc[t] = "serve"
  /\ now_serving' = [now_serving EXCEPT ![lk[t]] = @ + 1]
  /\ McsAcquired(t)
  /\ line' = [line EXCEPT ![lk[t]] = Tail(@)]
  /\ UNCHANGED <<tail, node, listVars, ptr, htmVars>>

mcs_lock(t, l) == MayLock(t, l) /\ mcs_lock_common(t, l, "swap")

mcs_trylock(t, l) == MayTrylock(t, l) /\ mcs_lock_common(t, l, "try_swap")

-----------------------------------------------------------------------------
(***************************************************************************)
(* mcs_unlock_common.                                                      *)
(***************************************************************************)

(* The first node on the used list of t that is for lock l.  The search      *)
(* follows list_next from my_used_nodes, which lead along used              *)
(* (NodesMatchLocks of McsLocks).                                          *)
UsedNode(t, l) ==
  LET For(i) == node[used[t][i]].lock = l IN
  used[t][CHOOSE i \in DOMAIN used[t] : For(i) /\ \A j \in 1 .. i - 1 : ~For(j)]

(* Elided by mcs_unlock_tm, or with the node of l found.                   *)
mcs_unlock(t, l) ==
  /\ MayUnlock(t, l)
  /\ \/ Elided(t, held[t] \ {l}) /\ UNCHANGED mcsVars
     \/ /\ spec_entry[t] = Null
        /\ mine' = [mine EXCEPT ![t] = UsedNode(t, l)]
        /\ Call(t, l, "next")
        /\ UNCHANGED <<tail, now_serving, node, listVars, ptr, num, line, htmVars>>

(* Somebody is next: mcs_tm first stops those who speculate.               *)
Succeed(t) ==
  /\ Goto(t, IF tm THEN "halt" ELSE "wake")
  /\ ptr' = [ptr EXCEPT ![t] = node[mine[t]].next]
  /\ num' = [num EXCEPT ![t] = 1]
  /\ UNCHANGED <<tail, now_serving, node, listVars, mine, line, htmVars>>

TestNext(t) ==
  /\ pc[t] = "next"
  /\ \/ node[mine[t]].next # NoNode /\ Succeed(t)
     \/ node[mine[t]].next = NoNode /\ Goto(t, "cas") /\ UNCHANGED <<mcsVars, htmVars>>

(* Mutant of dealloc_node: the next used node still leads back to this one.  *)
dealloc_forward(t) ==
  LET m == mine[t] IN
  /\ my_used_nodes' = IF list_prev[m] = NoNode
                        THEN [my_used_nodes EXCEPT ![t] = list_next[m]] ELSE my_used_nodes
  /\ list_next' = [Store(list_next, list_prev[m], list_next[m]) EXCEPT ![m] = my_free_nodes[t]]
  /\ my_free_nodes' = [my_free_nodes EXCEPT ![t] = m]
  /\ used' = [used EXCEPT ![t] = RemoveAt(@, CHOOSE i \in DOMAIN @ : @[i] = m)]
  /\ free' = [free EXCEPT ![t] = <<m>> \o @]
  /\ UNCHANGED list_prev

(* The node goes from its place in the used list to the head of the free one.*)
dealloc_node(t) ==
  LET m == mine[t] IN
  /\ my_used_nodes' = IF list_prev[m] = NoNode
                        THEN [my_used_nodes EXCEPT ![t] = list_next[m]] ELSE my_used_nodes
  /\ list_next' = [Store(list_next, list_prev[m], list_next[m]) EXCEPT ![m] = my_free_nodes[t]]
  /\ list_prev' = Store(list_prev, list_next[m], list_prev[m])
  /\ my_free_nodes' = [my_free_nodes EXCEPT ![t] = m]
  /\ used' = [used EXCEPT ![t] = RemoveAt(@, CHOOSE i \in DOMAIN @ : @[i] = m)]
  /\ free' = [free EXCEPT ![t] = <<m>> \o @]

(* dealloc_node(mine) and the return, with the fields of nodes as given.    *)
Dealloc(t, fields) ==
  /\ node' = [fields EXCEPT ![mine[t]].next = NoNode]
  /\ dealloc_node(t)
  /\ mine' = [mine EXCEPT ![t] = NoNode]
  /\ ptr' = [ptr EXCEPT ![t] = NoNode]
  /\ num' = [num EXCEPT ![t] = 0]
  /\ Return(t, held[t] \ {lk[t]})
  /\ UNCHANGED <<now_serving, line>>

(* Mutant of Cas: a failed swap is not noticed.                            *)
CasUnchecked(t) ==
  /\ pc[t] = "cas"
  /\ tail' = IF tail[lk[t]] = mine[t] THEN [tail EXCEPT ![lk[t]] = NoNode] ELSE tail
  /\ Dealloc(t, node)
  /\ UNCHANGED htmVars

(* Nobody was next: the lock is emptied, unless somebody has arrived.      *)
Cas(t) ==
  /\ pc[t] = "cas"
  /\ \/ /\ tail[lk[t]] = mine[t]
        /\ tail' = [tail EXCEPT ![lk[t]] = NoNode]
        /\ Dealloc(t, node)
     \/ tail[lk[t]] # mine[t] /\ Goto(t, "arriver") /\ UNCHANGED mcsVars
  /\ UNCHANGED htmVars

(* while (mine->lock_next == NULL) { }                                     *)
Arriver(t) == pc[t] = "arriver" /\ node[mine[t]].next # NoNode /\ Succeed(t)

(* A flag of node n is overwritten under its owner's transaction.          *)
DoomWaiter(n) ==
  /\ doomed' = [u \in Threads |-> doomed[u] \/ (mine[u] = n /\ watch[u] # {})]
  /\ UNCHANGED <<spec_entry, tries, depth, saved, watch>>

(* One turn of the loop that clears speculate in the nodes that follow.     *)
Halt(t) ==
  /\ pc[t] = "halt"
  /\ IF ptr[t] # NoNode /\ num[t] >= MinDistance
       THEN /\ node' = [node EXCEPT ![ptr[t]].speculate = FALSE]
            /\ DoomWaiter(ptr[t])
       ELSE UNCHANGED <<node, htmVars>>
  /\ IF ptr[t] = NoNode \/ num[t] > MaxDistance
       THEN Goto(t, "wake") /\ UNCHANGED <<ptr, num>>
       ELSE /\ ptr' = [ptr EXCEPT ![t] = node[ptr[t]].next]
            /\ num' = [num EXCEPT ![t] = @ + 1]
            /\ UNCHANGED clientVars
  /\ UNCHANGED <<tail, now_serving, listVars, mine, line>>

(* Mutant of Wake: the flag of the wrong node is cleared.                   *)
WakeSelf(t) ==
  /\ pc[t] = "wake"
  /\ Dealloc(t, [node EXCEPT ![mine[t]].wait = FALSE])
  /\ DoomWaiter(mine[t])
  /\ UNCHANGED tail

(* mine->lock_next->wait = false                                           *)
Wake(t) ==
  LET heir == node[mine[t]].next IN
  /\ pc[t] = "wake"
  /\ Dealloc(t, [node EXCEPT ![heir].wait = FALSE])
  /\ DoomWaiter(heir)
  /\ UNCHANGED tail
=============================================================================
