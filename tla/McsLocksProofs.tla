--------------------------- MODULE McsLocksProofs ---------------------------
(***************************************************************************)
(* The two queue locks, for any threads, any finite set of locks, any size   *)
(* of the node pools and any window of speculation.  The theorems are at     *)
(* the end.  A step moves one thread and its nodes, and writes at most one   *)
(* field of a node of another thread: next, when it links itself behind it,  *)
(* wait, when it lets it go on, or speculate.  For the queue of a lock it    *)
(* does one of six things: nothing, or a thread arrives at the end, links    *)
(* itself, goes from the head into the lock, takes the lock at once, or      *)
(* leaves it.  Each keeps the books and is a step of the                     *)
(* first-come-first-served mutex or none.                                  *)
(***************************************************************************)
EXTENDS McsLocks, ListLemmas, FiniteSetTheorems

USE LocksAssumption, McsAssumption DEF Null

-----------------------------------------------------------------------------
(***************************************************************************)
(* The inductive invariant.                                                *)
(***************************************************************************)

(* The labels at which a thread has a node in the queue of lk.              *)
WaitLabels ==
  {"link", "predcnt", "getcnt", "window", "begin", "abort", "await", "count", "serve", "failed"}

(* The lock that t waits for, in the state that others can see, or Null.    *)
WaitLock(t) ==
  IF InTx(t) THEN saved[t].lk ELSE IF pc[t] \in WaitLabels THEN lk[t] ELSE Null

(* The locks for which t has a node in use.                                *)
NodeLocks(t) == Owned(t) \cup ({WaitLock(t)} \ {Null})

Unheld(l) == \A t \in Threads : l \notin Owned(t)

McsTyped ==
  /\ free \in [Threads -> Seq(Nodes)]
  /\ used \in [Threads -> Seq(Nodes)]
  /\ mine \in [Threads -> Nodes \cup {NoNode}]
  /\ ptr \in [Threads -> Nodes \cup {NoNode}]
  /\ num \in [Threads -> Nat]
  /\ line \in [Locks -> Seq(Threads)]

(* Speculation: the flag of enter_htm, the hardware and the control agree,  *)
(* and a waiter speculates with its node's flags in its read set.           *)
SpecBook(t) ==
  /\ spec_entry[t] # Null <=> InTx(t) \/ pc[t] = "abort"
  /\ pc[t] = "abort" => ~InTx(t)
  /\ pc[t] = "check" => InTx(t) /\ lk[t] = saved[t].lk /\ held[t] = saved[t].held
  /\ InTx(t) =>
       /\ pc[t] \in {"client", "check"}
       /\ saved[t].lk \in Locks
       /\ pc[t] = "client" => watch[t] # {}
       /\ pc[t] = "client" /\ ~node[mine[t]].wait => doomed[t]

(* The call in progress and the nodes that it works on.                     *)
CallBook(t) ==
  /\ pc[t] # "client" => lk[t] \in Locks
  /\ WaitLock(t) \notin Owned(t)
  /\ WaitLock(t) # Null => mine[t] = UsedNode(t, WaitLock(t))
  /\ pc[t] \in {"swap", "try_swap"} =>
       /\ lk[t] \notin held[t] /\ free[t] # <<>> /\ mine[t] = free[t][1]
       /\ node[mine[t]].next = NoNode /\ node[mine[t]].wait /\ node[mine[t]].lock = lk[t]
  /\ pc[t] \in {"link", "predcnt", "getcnt"} => ptr[t] # NoNode
  /\ pc[t] \in {"next", "cas", "arriver", "halt", "wake"} =>
       lk[t] \in held[t] /\ mine[t] = UsedNode(t, lk[t])
  /\ pc[t] \in {"halt", "wake"} => node[mine[t]].next # NoNode

(* The two lists of t hold the nodes that it has allocated, each once, and  *)
(* the used ones are for the locks of t, one each.                         *)
PoolBook(t) ==
  /\ IsInjective(free[t]) /\ IsInjective(used[t])
  /\ Range(free[t]) \cap Range(used[t]) = {}
  /\ Range(free[t]) \cup Range(used[t]) = {t} \X (1 .. Len(free[t]) + Len(used[t]))
  /\ {node[n].lock : n \in Range(used[t])} = NodeLocks(t)
  /\ \A m, n \in Range(used[t]) : node[m].lock = node[n].lock => m = n

(* u stands behind node n in the queue of l, linked or about to be.         *)
Linked(n, u, l) ==
  IF pc[u] = "link" THEN node[n].next = NoNode /\ ptr[u] = n ELSE node[n].next = UsedNode(u, l)

(* The thread u, in the queue of l, has been told to go on, or found the    *)
(* queue empty.                                                            *)
GoesOn(u, l) == pc[u] \in {"count", "serve"} \/ ~node[UsedNode(u, l)].wait

(* Who holds l and who waits for it.                                       *)
LineBook(l) ==
  /\ \A t, u \in Threads : l \in Owned(t) /\ l \in Owned(u) => t = u
  /\ IsInjective(line[l])
  /\ \A t \in Threads : t \in Range(line[l]) <=> WaitLock(t) = l
  /\ \A u \in Range(line[l]) : GoesOn(u, l) => u = line[l][1] /\ Unheld(l)
  /\ line[l] # <<>> /\ Unheld(l) => pc[line[l][1]] # "link"

(* The tail is the node of the last in line, or else of the holder, and     *)
(* nobody is linked behind it.                                             *)
TailBook(l) ==
  /\ line[l] # <<>> => tail[l] = UsedNode(Last(line[l]), l)
  /\ \A t \in Threads : line[l] = <<>> /\ l \in Owned(t) => tail[l] = UsedNode(t, l)
  /\ line[l] = <<>> /\ Unheld(l) => tail[l] = NoNode
  /\ tail[l] # NoNode => node[tail[l]].next = NoNode

(* Each in line stands behind the one before it, the first behind the holder.*)
LinkBook(l) ==
  /\ \A i \in 1 .. Len(line[l]) - 1 : Linked(UsedNode(line[l][i], l), line[l][i + 1], l)
  /\ \A t \in Threads :
       line[l] # <<>> /\ l \in Owned(t) => Linked(UsedNode(t, l), line[l][1], l)

ThreadBook(t) == SpecBook(t) /\ CallBook(t) /\ PoolBook(t)

QueueBook(l) == LineBook(l) /\ TailBook(l) /\ LinkBook(l)

IInv ==
  /\ QueueTypeOK /\ McsTyped
  /\ \A t \in Threads : ThreadBook(t)
  /\ \A l \in Locks : QueueBook(l)

(* The links between the nodes are those of the two lists of each thread.     *)
LinksInv == LinksTypeOK /\ \A t \in Threads : ListsAreLinked(t)

-----------------------------------------------------------------------------
(***************************************************************************)
(* Nodes and lists.                                                        *)
(***************************************************************************)
LEMMA NoNodeIsNoNode == NoNode \notin Nodes
<1> SUFFICES ASSUME NoNode \in Nodes PROVE FALSE
  OBVIOUS
<1>1. PICK a \in Threads, b \in 1 .. Cardinality(Locks) - 1 + NumNodes : <<>> = <<a, b>>
  BY DEF NoNode, Nodes
<1>2. Len(<<>>) = 0 /\ Len(<<a, b>>) = 2
  OBVIOUS
<1> QED
  BY <1>1, <1>2

NodeType == [next : Nodes \cup {NoNode}, wait : BOOLEAN, speculate : BOOLEAN,
             cnt : Nat, lock : Locks \cup {Null}]

LEMMA NodesTyped == QueueTypeOK => node \in [Nodes -> NodeType]
BY DEF QueueTypeOK, NodeType

(* The nodes are typed after a field of one of them has been set.            *)
LEMMA SetField ==
  ASSUME NEW f \in [Nodes -> NodeType], NEW n \in Nodes
  PROVE  /\ \A b \in BOOLEAN : /\ [f EXCEPT ![n].wait = b] \in [Nodes -> NodeType]
                               /\ [f EXCEPT ![n].speculate = b] \in [Nodes -> NodeType]
         /\ \A c \in Nat : [f EXCEPT ![n].cnt = c] \in [Nodes -> NodeType]
         /\ \A m \in Nodes \cup {NoNode} : [f EXCEPT ![n].next = m] \in [Nodes -> NodeType]
         /\ \A l \in Locks : [f EXCEPT ![n] = Clear(l)] \in [Nodes -> NodeType]
<1>1. \A r \in NodeType : [f EXCEPT ![n] = r] \in [Nodes -> NodeType]
  OBVIOUS
<1>2. f[n] \in NodeType
  OBVIOUS
<1>3. \A b \in BOOLEAN : [f[n] EXCEPT !.wait = b] \in NodeType
  BY <1>2 DEF NodeType
<1>4. \A b \in BOOLEAN : [f[n] EXCEPT !.speculate = b] \in NodeType
  BY <1>2 DEF NodeType
<1>5. \A c \in Nat : [f[n] EXCEPT !.cnt = c] \in NodeType
  BY <1>2 DEF NodeType
<1>6. \A m \in Nodes \cup {NoNode} : [f[n] EXCEPT !.next = m] \in NodeType
  BY <1>2 DEF NodeType
<1>7. \A l \in Locks : Clear(l) \in NodeType
  BY DEF NodeType, Clear
<1> HIDE DEF NodeType
<1>8. \A b \in BOOLEAN : [f EXCEPT ![n].wait = b] \in [Nodes -> NodeType]
  BY <1>1, <1>3
<1>9. \A b \in BOOLEAN : [f EXCEPT ![n].speculate = b] \in [Nodes -> NodeType]
  BY <1>1, <1>4
<1>10. \A c \in Nat : [f EXCEPT ![n].cnt = c] \in [Nodes -> NodeType]
  BY <1>1, <1>5
<1>11. \A m \in Nodes \cup {NoNode} : [f EXCEPT ![n].next = m] \in [Nodes -> NodeType]
  BY <1>1, <1>6
<1>12. \A l \in Locks : [f EXCEPT ![n] = Clear(l)] \in [Nodes -> NodeType]
  BY <1>1, <1>7
<1> QED
  BY <1>8, <1>9, <1>10, <1>11, <1>12

(* The node of a list of used ones that is for a lock, when no other is.     *)
LEMMA UsedIs ==
  ASSUME NEW t \in Threads, used[t] \in Seq(Nodes), IsInjective(used[t]),
         NEW n \in Range(used[t]), NEW l, node[n].lock = l,
         \A m \in Range(used[t]) : node[m].lock = l => m = n
  PROVE  UsedNode(t, l) = n
<1> DEFINE s == used[t]
           First(i) == node[s[i]].lock = l /\ \A j \in 1 .. i - 1 : ~(node[s[j]].lock = l)
<1>1. /\ Len(s) \in Nat /\ DOMAIN s = 1 .. Len(s) /\ Range(s) = {s[i] : i \in 1 .. Len(s)}
      /\ \A i, j \in 1 .. Len(s) : s[i] = s[j] => i = j
  BY RangeOf
<1>2. PICK i \in DOMAIN s : s[i] = n
  BY <1>1
<1>3. First(i)
  <2> SUFFICES ASSUME NEW j \in 1 .. i - 1, node[s[j]].lock = l PROVE FALSE
    BY <1>2
  <2>1. j \in 1 .. Len(s) /\ j # i /\ i \in 1 .. Len(s)
    BY <1>1, <1>2
  <2>2. s[j] = n
    BY <1>1, <2>1
  <2> QED
    BY <1>1, <1>2, <2>1, <2>2
<1> DEFINE k == CHOOSE j \in DOMAIN s : First(j)
<1>4. k \in DOMAIN s /\ First(k)
  BY <1>2, <1>3
<1>5. UsedNode(t, l) = s[k]
  BY DEF UsedNode
<1>6. s[k] \in Range(s) /\ node[s[k]].lock = l
  <2> HIDE DEF k
  <2> QED
    BY <1>1, <1>4
<1> QED
  BY <1>5, <1>6

NodesAreFound ==
  McsTyped => \A t \in Threads : PoolBook(t) =>
    /\ \A l \in NodeLocks(t) :
         /\ UsedNode(t, l) \in Range(used[t]) /\ UsedNode(t, l) \in Nodes
         /\ node[UsedNode(t, l)].lock = l /\ Owner(UsedNode(t, l)) = t
    /\ \A n \in Range(used[t]) :
         /\ node[n].lock \in NodeLocks(t)
         /\ \A l \in NodeLocks(t) : node[n].lock = l => UsedNode(t, l) = n
    /\ \A n \in Range(free[t]) \cup Range(used[t]) : n \in Nodes /\ Owner(n) = t

(* A lock that t holds or waits for has its node.                          *)
LEMMA NodeFound == NodesAreFound
<1> SUFFICES ASSUME McsTyped, NEW t \in Threads, PoolBook(t)
             PROVE  /\ \A l \in NodeLocks(t) :
                         /\ UsedNode(t, l) \in Range(used[t]) /\ UsedNode(t, l) \in Nodes
                         /\ node[UsedNode(t, l)].lock = l /\ Owner(UsedNode(t, l)) = t
                    /\ \A n \in Range(used[t]) :
                         /\ node[n].lock \in NodeLocks(t)
                         /\ \A l \in NodeLocks(t) : node[n].lock = l => UsedNode(t, l) = n
                    /\ \A n \in Range(free[t]) \cup Range(used[t]) : n \in Nodes /\ Owner(n) = t
  BY DEF NodesAreFound
<1>1. used[t] \in Seq(Nodes) /\ free[t] \in Seq(Nodes)
  BY DEF McsTyped
<1>2. \A n \in Range(free[t]) \cup Range(used[t]) : n \in Nodes /\ Owner(n) = t
  <2>1. Range(free[t]) \subseteq Nodes /\ Range(used[t]) \subseteq Nodes
    BY <1>1, RangeOf
  <2>2. \A n \in {t} \X (1 .. Len(free[t]) + Len(used[t])) : n[1] = t
    OBVIOUS
  <2> QED
    BY <2>1, <2>2 DEF PoolBook, Owner
<1>3. \A n \in Range(used[t]) :
        /\ node[n].lock \in NodeLocks(t)
        /\ \A l \in NodeLocks(t) : node[n].lock = l => UsedNode(t, l) = n
  BY <1>1, UsedIs DEF PoolBook
<1>4. \A l \in NodeLocks(t) : \E n \in Range(used[t]) : node[n].lock = l
  BY DEF PoolBook
<1> QED
  BY <1>2, <1>3, <1>4

LEMMA NodeFoundAfter == NodesAreFound'
BY NodeFound, PTL

(* As many nodes are in use as locks need one.                             *)
LEMMA UsedCount ==
  ASSUME McsTyped, NEW t \in Threads, PoolBook(t)
  PROVE  IsFiniteSet(NodeLocks(t)) /\ Len(used[t]) = Cardinality(NodeLocks(t))
<1> DEFINE n == Len(used[t])
           f == [i \in 1 .. n |-> node[used[t][i]].lock]
<1>1. /\ n \in Nat /\ Range(used[t]) = {used[t][i] : i \in 1 .. n}
      /\ \A i, j \in 1 .. n : used[t][i] = used[t][j] => i = j
  <2>1. used[t] \in Seq(Nodes)
    BY DEF McsTyped
  <2> QED
    BY <2>1, RangeOf DEF PoolBook
<1>2. f \in [1 .. n -> NodeLocks(t)]
  BY <1>1 DEF PoolBook
<1>3. \A i, j \in 1 .. n : f[i] = f[j] => i = j
  BY <1>1 DEF PoolBook
<1>4. \A l \in NodeLocks(t) : \E i \in 1 .. n : f[i] = l
  BY <1>1 DEF PoolBook
<1> HIDE DEF n, f
<1>5. f \in Bijection(1 .. n, NodeLocks(t))
  BY <1>2, <1>3, <1>4 DEF Bijection, Injection, Surjection, IsInjective
<1>6. ExistsBijection(1 .. n, NodeLocks(t))
  BY <1>5 DEF ExistsBijection
<1>7. IsFiniteSet(1 .. n) /\ Cardinality(1 .. n) = n
  <2>1. IsFiniteSet(1 .. n) /\ Cardinality(1 .. n) = IF 1 > n THEN 0 ELSE n - 1 + 1
    BY <1>1, FS_Interval
  <2> QED
    BY <1>1, <2>1
<1>8. IsFiniteSet(NodeLocks(t)) /\ Cardinality(NodeLocks(t)) = Cardinality(1 .. n)
  BY <1>6, <1>7, FS_Bijection
<1> QED
  BY <1>7, <1>8 DEF n

-----------------------------------------------------------------------------
(***************************************************************************)
(* What a step of one thread leaves to the others.                          *)
(***************************************************************************)

(* A step in which only t moves.                                           *)
OnlyMoves(t) ==
  /\ UNCHANGED using
  /\ \A u \in Threads \ {t} :
       /\ pc'[u] = pc[u] /\ lk'[u] = lk[u] /\ held'[u] = held[u]
       /\ free'[u] = free[u] /\ used'[u] = used[u]
       /\ mine'[u] = mine[u] /\ ptr'[u] = ptr[u]
       /\ spec_entry'[u] = spec_entry[u] /\ depth'[u] = depth[u] /\ saved'[u] = saved[u]
       /\ watch'[u] = watch[u] /\ (doomed[u] => doomed'[u])

(* In a node of u, only a link that is not there yet and a flag that its     *)
(* transaction does not miss are written by others.                         *)
NodeSpared(u, n) ==
  /\ node'[n].lock = node[n].lock
  /\ \/ node'[n].next = node[n].next
     \/ n \in Range(used[u]) /\ node[n].next = NoNode /\ node'[n].next # NoNode
  /\ \/ node'[n].wait = node[n].wait
     \/ n \in Range(used[u]) /\ (mine[u] = n /\ watch[u] # {} => doomed'[u])

OthersSpared(t) ==
  \A u \in Threads \ {t} : \A n \in Range(free[u]) \cup Range(used[u]) : NodeSpared(u, n)

LEMMA SameNodes ==
  ASSUME McsTyped, McsTyped', NEW u \in Threads, PoolBook(u), PoolBook(u)', used'[u] = used[u],
         NodeLocks(u)' = NodeLocks(u), \A n \in Range(used[u]) : node'[n].lock = node[n].lock
  PROVE  \A l \in NodeLocks(u) : UsedNode(u, l)' = UsedNode(u, l)
<1> SUFFICES ASSUME NEW l \in NodeLocks(u) PROVE UsedNode(u, l)' = UsedNode(u, l)
  OBVIOUS
<1>1. PICK n : n = UsedNode(u, l)
  OBVIOUS
<1>2. n \in Range(used[u]) /\ node[n].lock = l
  BY <1>1, NodeFound DEF NodesAreFound
<1>3. n \in Range(used'[u]) /\ node'[n].lock = l /\ l \in NodeLocks(u)'
  BY <1>2
<1>4. UsedNode(u, l)' = n
  BY <1>3, NodeFoundAfter DEF NodesAreFound
<1> QED
  BY <1>1, <1>4

LEMMA OthersKeep ==
  ASSUME IInv, NEW t \in Threads, McsTyped', OnlyMoves(t), OthersSpared(t),
         NEW u \in Threads \ {t}
  PROVE  /\ ThreadBook(u)' /\ Owned(u)' = Owned(u) /\ WaitLock(u)' = WaitLock(u)
         /\ \A l \in NodeLocks(u) : UsedNode(u, l)' = UsedNode(u, l)
<1>1. /\ SpecBook(u) /\ CallBook(u) /\ PoolBook(u) /\ McsTyped /\ InTx(u)' = InTx(u)
      /\ pc'[u] = pc[u] /\ lk'[u] = lk[u] /\ held'[u] = held[u]
      /\ free'[u] = free[u] /\ used'[u] = used[u]
      /\ mine'[u] = mine[u] /\ ptr'[u] = ptr[u]
      /\ spec_entry'[u] = spec_entry[u] /\ saved'[u] = saved[u] /\ watch'[u] = watch[u]
      /\ doomed[u] => doomed'[u]
  BY DEF IInv, ThreadBook, OnlyMoves, InTx
<1>2. Owned(u)' = Owned(u) /\ WaitLock(u)' = WaitLock(u) /\ NodeLocks(u)' = NodeLocks(u)
  BY <1>1 DEF Owned, WaitLock, NodeLocks
<1>3. \A n \in Range(free[u]) \cup Range(used[u]) : NodeSpared(u, n)
  BY DEF OthersSpared
<1>4. PoolBook(u)'
  <2>1. {node'[n].lock : n \in Range(used[u])} = {node[n].lock : n \in Range(used[u])}
    BY <1>3 DEF NodeSpared
  <2>2. \A m, n \in Range(used[u]) : node'[m].lock = node'[n].lock => m = n
    BY <1>1, <1>3 DEF NodeSpared, PoolBook
  <2> QED
    BY <1>1, <1>2, <2>1, <2>2 DEF PoolBook
<1>5. \A l \in NodeLocks(u) : UsedNode(u, l)' = UsedNode(u, l)
  <2>1. \A n \in Range(used[u]) : node'[n].lock = node[n].lock
    BY <1>3 DEF NodeSpared
  <2> QED
    BY <1>1, <1>2, <1>4, <2>1, SameNodes
<1>6. SpecBook(u)'
  <2>1. ASSUME InTx(u), pc[u] = "client", ~node'[mine[u]].wait PROVE doomed'[u]
    <3>1. WaitLock(u) \in Locks /\ watch[u] # {}
      BY <1>1, <2>1 DEF SpecBook, WaitLock
    <3>2. mine[u] \in Range(used[u])
      <4>1. WaitLock(u) \in NodeLocks(u) /\ mine[u] = UsedNode(u, WaitLock(u))
        BY <1>1, <3>1 DEF NodeLocks, CallBook
      <4> QED
        BY <1>1, <4>1, NodeFound DEF NodesAreFound
    <3>3. NodeSpared(u, mine[u])
      BY <1>3, <3>2
    <3>4. node[mine[u]].wait => doomed'[u]
      BY <2>1, <3>1, <3>3 DEF NodeSpared
    <3>5. ~node[mine[u]].wait => doomed[u]
      BY <1>1, <2>1 DEF SpecBook
    <3> QED
      BY <1>1, <3>4, <3>5
  <2> QED
    BY <1>1, <2>1 DEF SpecBook
<1>7. CallBook(u)'
  <2>1. CASE pc[u] \in {"swap", "try_swap"}
    <3>1. /\ free[u] # <<>> /\ mine[u] = free[u][1] /\ WaitLock(u) = Null
          /\ node[mine[u]].next = NoNode /\ node[mine[u]].wait /\ node[mine[u]].lock = lk[u]
      BY <1>1, <2>1 DEF CallBook, SpecBook, WaitLock, WaitLabels
    <3>2. free[u] \in Seq(Nodes)
      BY <1>1 DEF McsTyped
    <3>3. mine[u] \in Range(free[u])
      <4>1. 1 \in 1 .. Len(free[u])
        BY <3>1, <3>2
      <4> QED
        BY <3>1, <3>2, <4>1, RangeOf
    <3>4. mine[u] \notin Range(used[u]) /\ NodeSpared(u, mine[u])
      BY <1>1, <1>3, <3>3 DEF PoolBook
    <3>5. /\ node'[mine[u]].next = NoNode /\ node'[mine[u]].wait
          /\ node'[mine[u]].lock = lk[u]
      BY <3>1, <3>4 DEF NodeSpared
    <3> QED
      BY <1>1, <1>2, <2>1, <3>1, <3>5 DEF CallBook
  <2>2. CASE pc[u] \in {"next", "cas", "arriver", "halt", "wake"}
    <3>1. lk[u] \in held[u] /\ mine[u] = UsedNode(u, lk[u]) /\ WaitLock(u) = Null
      BY <1>1, <2>2 DEF CallBook, SpecBook, WaitLock, WaitLabels
    <3>2. lk[u] \in NodeLocks(u)
      BY <1>1, <2>2, <3>1 DEF NodeLocks, Owned, SpecBook
    <3>3. UsedNode(u, lk[u])' = mine[u]
      <4>1. PICK l : l = lk[u]
        OBVIOUS
      <4>2. UsedNode(u, l)' = mine[u] /\ lk'[u] = l
        BY <1>1, <1>5, <3>1, <3>2, <4>1
      <4> QED
        BY <4>2 DEF UsedNode
    <3>4. node[mine[u]].next # NoNode => node'[mine[u]].next # NoNode
      <4>1. mine[u] \in Range(used[u])
        BY <1>1, <3>1, <3>2, NodeFound DEF NodesAreFound
      <4> QED
        BY <1>3, <4>1 DEF NodeSpared
    <3> QED
      BY <1>1, <1>2, <2>2, <3>1, <3>3, <3>4 DEF CallBook
  <2>3. CASE pc[u] \notin {"swap", "try_swap", "next", "cas", "arriver", "halt", "wake"}
    <3>1. ASSUME WaitLock(u) # Null PROVE mine'[u] = UsedNode(u, WaitLock(u))'
      <4>1. PICK l : l = WaitLock(u)
        OBVIOUS
      <4>2. UsedNode(u, l)' = mine[u] /\ WaitLock(u)' = l
        BY <1>1, <1>2, <1>5, <3>1, <4>1 DEF NodeLocks, CallBook
      <4> QED
        BY <1>1, <4>2 DEF UsedNode
    <3> QED
      BY <1>1, <1>2, <2>3, <3>1 DEF CallBook
  <2> QED
    BY <2>1, <2>2, <2>3
<1> QED
  BY <1>2, <1>4, <1>5, <1>6, <1>7 DEF ThreadBook

-----------------------------------------------------------------------------
(***************************************************************************)
(* What keeps the queue of a lock.                                         *)
(***************************************************************************)

(* What the queue of l knows of u has not changed.                          *)
SameFor(u, l) ==
  /\ l \in Owned(u)' <=> l \in Owned(u)
  /\ WaitLock(u)' = l <=> WaitLock(u) = l
  /\ l \in NodeLocks(u) =>
       /\ UsedNode(u, l)' = UsedNode(u, l)
       /\ node'[UsedNode(u, l)].next = node[UsedNode(u, l)].next
  /\ WaitLock(u) = l =>
       /\ pc'[u] = "link" <=> pc[u] = "link"
       /\ pc[u] = "link" => ptr'[u] = ptr[u]
       /\ GoesOn(u, l)' => GoesOn(u, l)

(* The threads in line, by their places.                                   *)
LEMMA InLine ==
  ASSUME IInv, NEW l \in Locks
  PROVE  /\ line[l] \in Seq(Threads) /\ Len(line[l]) \in Nat
         /\ Range(line[l]) = {line[l][i] : i \in 1 .. Len(line[l])}
         /\ \A i, j \in 1 .. Len(line[l]) : line[l][i] = line[l][j] => i = j
         /\ line[l] = <<>> <=> Len(line[l]) = 0
         /\ \A i \in 1 .. Len(line[l]) :
              /\ line[l][i] \in Threads /\ line[l][i] \in Range(line[l])
              /\ WaitLock(line[l][i]) = l
              /\ l \in NodeLocks(line[l][i])
         /\ \A u \in Range(line[l]) : u \in Threads /\ WaitLock(u) = l /\ l \in NodeLocks(u)
         /\ line[l] # <<>> => /\ Last(line[l]) = line[l][Len(line[l])]
                              /\ Last(line[l]) \in Range(line[l])
                              /\ 1 \in 1 .. Len(line[l]) /\ Len(line[l]) \in 1 .. Len(line[l])
<1>1. line[l] \in Seq(Threads) /\ LineBook(l)
  BY DEF IInv, McsTyped, QueueBook
<1>2. /\ Len(line[l]) \in Nat /\ Range(line[l]) = {line[l][i] : i \in 1 .. Len(line[l])}
      /\ \A i, j \in 1 .. Len(line[l]) : line[l][i] = line[l][j] => i = j
  BY <1>1, RangeOf DEF LineBook
<1>3. line[l] = <<>> <=> Len(line[l]) = 0
  BY <1>1, EmptyLen
<1>4. \A i \in 1 .. Len(line[l]) : line[l][i] \in Threads /\ line[l][i] \in Range(line[l])
  BY <1>1, <1>2
<1>5. \A i \in 1 .. Len(line[l]) : WaitLock(line[l][i]) = l /\ l \in NodeLocks(line[l][i])
  BY <1>1, <1>4 DEF LineBook, NodeLocks
<1>6. line[l] # <<>> => 1 \in 1 .. Len(line[l]) /\ Len(line[l]) \in 1 .. Len(line[l])
  BY <1>2, <1>3
<1>7. \A u \in Range(line[l]) : u \in Threads /\ WaitLock(u) = l /\ l \in NodeLocks(u)
  BY <1>2, <1>4, <1>5
<1> QED
  BY <1>1, <1>2, <1>3, <1>4, <1>5, <1>6, <1>7 DEF Last

(* The tail of a queue that is not empty is the node of one of its threads.  *)
LEMMA TailIs ==
  ASSUME IInv, NEW l \in Locks, tail[l] # NoNode
  PROVE  \E u \in Threads : l \in NodeLocks(u) /\ tail[l] = UsedNode(u, l)
<1>1. TailBook(l)
  BY DEF IInv, QueueBook
<1>2. CASE line[l] # <<>>
  BY <1>1, <1>2, InLine DEF TailBook
<1>3. CASE line[l] = <<>>
  BY <1>1, <1>3 DEF TailBook, Unheld, NodeLocks
<1> QED
  BY <1>2, <1>3

(* One thread stays behind another.                                        *)
LEMMA LinkKept ==
  ASSUME NEW u \in Threads, NEW v \in Threads, NEW l \in Locks,
         UsedNode(u, l)' = UsedNode(u, l), UsedNode(v, l)' = UsedNode(v, l),
         node'[UsedNode(u, l)].next = node[UsedNode(u, l)].next,
         pc'[v] = "link" <=> pc[v] = "link", pc[v] = "link" => ptr'[v] = ptr[v],
         Linked(UsedNode(u, l), v, l)
  PROVE  Linked(UsedNode(u, l), v, l)'
<1>1. PICK n : n = UsedNode(u, l)
  OBVIOUS
<1>2. UsedNode(u, l)' = n /\ node'[n].next = node[n].next
  BY <1>1
<1> QED
  BY <1>1, <1>2 DEF Linked

(* After a step the line of l is r.                                        *)
LEMMA LinksAre ==
  ASSUME NEW l \in Locks, NEW r, line'[l] = r,
         \A i \in 1 .. Len(r) - 1 : Linked(UsedNode(r[i], l), r[i + 1], l)',
         \A t \in Threads : r # <<>> /\ l \in Owned(t)' => Linked(UsedNode(t, l), r[1], l)'
  PROVE  LinkBook(l)'
<1>1. ASSUME NEW i \in 1 .. Len(r) - 1
      PROVE  Linked(UsedNode(line[l][i], l), line[l][i + 1], l)'
  <2>1. PICK u, v : u = r[i] /\ v = r[i + 1]
    OBVIOUS
  <2>2. Linked(UsedNode(u, l), v, l)'
    BY <2>1
  <2>3. line[l][i]' = u /\ line[l][i + 1]' = v
    BY <2>1
  <2> QED
    BY ONLY <2>2, <2>3 DEF Linked, UsedNode
<1>2. ASSUME NEW t \in Threads, r # <<>>, l \in Owned(t)'
      PROVE  Linked(UsedNode(t, l), line[l][1], l)'
  <2>1. PICK v : v = r[1]
    OBVIOUS
  <2>2. Linked(UsedNode(t, l), v, l)'
    BY <1>2, <2>1
  <2>3. line[l][1]' = v
    BY <2>1
  <2> QED
    BY <2>2, <2>3 DEF Linked, UsedNode
<1> QED
  BY <1>1, <1>2 DEF LinkBook

LEMMA QueueKept ==
  ASSUME IInv, NEW l \in Locks, line'[l] = line[l], tail'[l] = tail[l],
         \A u \in Threads : SameFor(u, l)
  PROVE  QueueBook(l)'
<1>1. LineBook(l) /\ TailBook(l) /\ LinkBook(l)
  BY DEF IInv, QueueBook
<1>2. Unheld(l)' <=> Unheld(l)
  BY DEF Unheld, SameFor
<1>3. \A i \in 1 .. Len(line[l]) : line[l][i] \in Threads /\ WaitLock(line[l][i]) = l
                                   /\ l \in NodeLocks(line[l][i])
  BY InLine
<1>4. LineBook(l)'
  <2>1. \A u \in Range(line[l]) : u \in Threads /\ WaitLock(u) = l
    BY InLine
  <2>2. \A u \in Range(line[l]) : GoesOn(u, l)' => u = line[l][1] /\ Unheld(l)
    BY <1>1, <2>1 DEF LineBook, SameFor
  <2>3. line[l] # <<>> => (pc'[line[l][1]] = "link" <=> pc[line[l][1]] = "link")
    BY <1>3, InLine DEF SameFor
  <2>4. \A t, u \in Threads : l \in Owned(t)' /\ l \in Owned(u)' => t = u
    BY <1>1 DEF LineBook, SameFor
  <2>5. \A t \in Threads : t \in Range(line[l]) <=> WaitLock(t)' = l
    BY <1>1 DEF LineBook, SameFor
  <2> QED
    BY <1>1, <1>2, <2>2, <2>3, <2>4, <2>5 DEF LineBook
<1>5. TailBook(l)'
  <2>1. line[l] # <<>> => tail[l] = UsedNode(Last(line[l]), l)'
    <3> SUFFICES ASSUME line[l] # <<>> PROVE tail[l] = UsedNode(Last(line[l]), l)'
      OBVIOUS
    <3>1. PICK u \in Threads : u = Last(line[l]) /\ l \in NodeLocks(u)
      BY InLine
    <3>2. tail[l] = UsedNode(u, l)'
      BY <1>1, <3>1 DEF TailBook, SameFor
    <3>3. Last(line[l])' = u
      BY <3>1 DEF Last
    <3> QED
      BY <3>2, <3>3 DEF UsedNode
  <2>2. \A t \in Threads : line[l] = <<>> /\ l \in Owned(t)' => tail[l] = UsedNode(t, l)'
    BY <1>1 DEF TailBook, SameFor, NodeLocks
  <2>3. tail[l] # NoNode => node'[tail[l]].next = NoNode
    BY <1>1, TailIs DEF TailBook, SameFor
  <2> QED
    BY <1>1, <1>2, <2>1, <2>2, <2>3 DEF TailBook
<1>6. ASSUME NEW u \in Threads, NEW v \in Threads, l \in NodeLocks(u), WaitLock(v) = l,
             Linked(UsedNode(u, l), v, l)
      PROVE  Linked(UsedNode(u, l), v, l)'
  <2>1. l \in NodeLocks(v)
    BY <1>6 DEF NodeLocks
  <2> QED
    BY <1>6, <2>1, LinkKept DEF SameFor
<1>7. LinkBook(l)'
  <2>1. ASSUME NEW i \in 1 .. Len(line[l]) - 1
        PROVE  Linked(UsedNode(line[l][i], l), line[l][i + 1], l)'
    <3>1. i \in 1 .. Len(line[l]) /\ i + 1 \in 1 .. Len(line[l])
      BY InLine
    <3>2. PICK u \in Threads, v \in Threads : u = line[l][i] /\ v = line[l][i + 1]
      BY <1>3, <3>1
    <3>3. Linked(UsedNode(u, l), v, l)'
      BY <1>1, <1>3, <1>6, <3>1, <3>2 DEF LinkBook
    <3>4. line[l][i]' = u /\ line[l][i + 1]' = v
      BY <3>2
    <3> QED
      BY <3>3, <3>4 DEF Linked, UsedNode
  <2>2. ASSUME NEW t \in Threads, line[l] # <<>>, l \in Owned(t)'
        PROVE  Linked(UsedNode(t, l), line[l][1], l)'
    <3>1. PICK v \in Threads : v = line[l][1] /\ WaitLock(v) = l
      BY <1>3, <2>2, InLine
    <3>2. l \in Owned(t) /\ l \in NodeLocks(t)
      BY <2>2 DEF SameFor, NodeLocks
    <3>3. Linked(UsedNode(t, l), v, l)'
      BY <1>1, <1>6, <2>2, <3>1, <3>2 DEF LinkBook
    <3>4. line[l][1]' = v
      BY <3>1
    <3> QED
      BY <3>3, <3>4 DEF Linked, UsedNode
  <2> QED
    BY <2>1, <2>2 DEF LinkBook
<1> QED
  BY <1>4, <1>5, <1>7 DEF QueueBook

(* What the queue of l knows of another thread than t stays.                 *)
LEMMA OtherSame ==
  ASSUME IInv, NEW t \in Threads, McsTyped', OnlyMoves(t), OthersSpared(t), NEW l \in Locks,
         NEW u \in Threads \ {t},
         l \in NodeLocks(u) =>
           /\ node'[UsedNode(u, l)].next = node[UsedNode(u, l)].next
           /\ WaitLock(u) = l /\ ~node'[UsedNode(u, l)].wait => ~node[UsedNode(u, l)].wait
  PROVE  SameFor(u, l)
<1>1. /\ Owned(u)' = Owned(u) /\ WaitLock(u)' = WaitLock(u)
      /\ l \in NodeLocks(u) => UsedNode(u, l)' = UsedNode(u, l)
      /\ pc'[u] = pc[u] /\ ptr'[u] = ptr[u]
  BY OthersKeep DEF OnlyMoves
<1>2. ASSUME WaitLock(u) = l, GoesOn(u, l)' PROVE GoesOn(u, l)
  <2>1. PICK n : n = UsedNode(u, l)
    OBVIOUS
  <2>2. l \in NodeLocks(u) /\ UsedNode(u, l)' = n
    BY <1>1, <1>2, <2>1 DEF NodeLocks
  <2> QED
    BY <1>1, <1>2, <2>1, <2>2 DEF GoesOn
<1> QED
  BY <1>1, <1>2 DEF SameFor

(* The queue of a lock in which t has not changed its place.                *)
LEMMA QueueSpared ==
  ASSUME IInv, NEW t \in Threads, McsTyped', OnlyMoves(t), OthersSpared(t), NEW l \in Locks,
         line'[l] = line[l], tail'[l] = tail[l], SameFor(t, l),
         \A u \in Threads \ {t} : l \in NodeLocks(u) =>
           /\ node'[UsedNode(u, l)].next = node[UsedNode(u, l)].next
           /\ WaitLock(u) = l /\ ~node'[UsedNode(u, l)].wait => ~node[UsedNode(u, l)].wait
  PROVE  QueueBook(l)'
BY OtherSame, QueueKept

LEMMA BooksKept ==
  ASSUME IInv, NEW t \in Threads, QueueTypeOK', McsTyped', OnlyMoves(t), OthersSpared(t),
         ThreadBook(t)', \A l \in Locks : QueueBook(l)'
  PROVE  IInv'
<1>1. \A u \in Threads : ThreadBook(u)'
  BY OthersKeep
<1> QED
  BY <1>1 DEF IInv

-----------------------------------------------------------------------------
(***************************************************************************)
(* The kinds of step.  Each keeps the invariant and is a step of FifoMutex   *)
(* or none.                                                                *)
(***************************************************************************)
Holds == [t \in Threads |-> Owned(t)]

FifoStep == [F!Next]_<<Holds, line>>

CalmNode(n) ==
  node'[n].lock = node[n].lock /\ node'[n].next = node[n].next /\ node'[n].wait = node[n].wait

(* No place in a queue changes, and no node that is in use.                 *)
LEMMA QuietStep ==
  ASSUME IInv, NEW t \in Threads, QueueTypeOK', McsTyped', OnlyMoves(t), ThreadBook(t)',
         \A u \in Threads : \A n \in Range(used[u]) : CalmNode(n),
         \A u \in Threads \ {t} : \A n \in Range(free[u]) : CalmNode(n),
         used'[t] = used[t], UNCHANGED <<tail, line>>,
         Owned(t)' = Owned(t), WaitLock(t)' = WaitLock(t),
         WaitLock(t) # Null =>
           /\ pc[t] # "link" /\ pc'[t] # "link"
           /\ pc'[t] \in {"count", "serve"} => pc[t] \in {"count", "serve"}
  PROVE  IInv' /\ FifoStep
<1>1. OthersSpared(t)
  BY DEF OthersSpared, NodeSpared, CalmNode
<1>2. NodeLocks(t)' = NodeLocks(t) /\ McsTyped /\ PoolBook(t) /\ PoolBook(t)'
  BY DEF NodeLocks, IInv, ThreadBook
<1>3. \A l \in NodeLocks(t) : UsedNode(t, l)' = UsedNode(t, l)
  BY <1>2, SameNodes DEF CalmNode
<1>4. ASSUME NEW u \in Threads, NEW l \in NodeLocks(u) PROVE CalmNode(UsedNode(u, l))
  BY NodeFound DEF NodesAreFound, IInv, ThreadBook
<1>5. ASSUME NEW l \in Locks PROVE SameFor(t, l)
  <2>1. ASSUME WaitLock(t) = l, GoesOn(t, l)' PROVE GoesOn(t, l)
    <3>1. PICK n : n = UsedNode(t, l)
      OBVIOUS
    <3>2. l \in NodeLocks(t) /\ UsedNode(t, l)' = n /\ CalmNode(n) /\ WaitLock(t) # Null
      BY <1>3, <1>4, <2>1, <3>1 DEF NodeLocks
    <3> QED
      BY <2>1, <3>1, <3>2 DEF GoesOn, CalmNode
  <2>2. l \in NodeLocks(t) => node'[UsedNode(t, l)].next = node[UsedNode(t, l)].next
    BY <1>4 DEF CalmNode
  <2>3. WaitLock(t) = l => (pc'[t] = "link" <=> pc[t] = "link") /\ pc[t] # "link"
    OBVIOUS
  <2> QED
    BY <1>3, <2>1, <2>2, <2>3 DEF SameFor
<1>6. ASSUME NEW l \in Locks PROVE QueueBook(l)'
  BY <1>1, <1>4, <1>5, QueueSpared DEF CalmNode
<1>7. UNCHANGED Holds
  BY <1>1, OthersKeep DEF Holds
<1> QED
  BY <1>1, <1>6, <1>7, BooksKept DEF FifoStep

(* Besides, the lists stay, and the call goes on with the nodes it has.      *)
LEMMA CalmStep ==
  ASSUME IInv, NEW t \in Threads, QueueTypeOK', McsTyped', OnlyMoves(t), SpecBook(t)',
         \A n \in Nodes : CalmNode(n), UNCHANGED <<tail, line, free, used>>,
         Owned(t)' = Owned(t), WaitLock(t)' = WaitLock(t),
         WaitLock(t) # Null =>
           /\ pc[t] # "link" /\ pc'[t] # "link" /\ mine'[t] = mine[t]
           /\ pc'[t] \in {"count", "serve"} => pc[t] \in {"count", "serve"},
         pc'[t] # "client" => lk'[t] \in Locks,
         pc'[t] \notin {"swap", "try_swap"},
         pc'[t] \in {"link", "predcnt", "getcnt"} => ptr'[t] # NoNode,
         pc'[t] \in {"next", "cas", "arriver", "halt", "wake"} =>
           \E l \in held'[t] : l \in NodeLocks(t) /\ lk'[t] = l /\ mine'[t] = UsedNode(t, l),
         pc'[t] \in {"halt", "wake"} => mine'[t] \in Nodes /\ node[mine'[t]].next # NoNode
  PROVE  IInv' /\ FifoStep
<1>1. McsTyped /\ CallBook(t) /\ PoolBook(t) /\ NodeLocks(t)' = NodeLocks(t)
  BY DEF NodeLocks, IInv, ThreadBook
<1>2. \A u \in Threads : Range(used[u]) \subseteq Nodes /\ Range(free[u]) \subseteq Nodes
  <2>1. \A u \in Threads : used[u] \in Seq(Nodes) /\ free[u] \in Seq(Nodes)
    BY DEF IInv, McsTyped
  <2> QED
    BY <2>1, RangeOf
<1>3. PoolBook(t)'
  <2>1. {node'[n].lock : n \in Range(used[t])} = {node[n].lock : n \in Range(used[t])}
    BY <1>2 DEF CalmNode
  <2>2. \A m, n \in Range(used[t]) : node'[m].lock = node'[n].lock => m = n
    BY <1>1, <1>2 DEF CalmNode, PoolBook
  <2> QED
    BY <1>1, <2>1, <2>2 DEF PoolBook
<1>4. \A l \in NodeLocks(t) : UsedNode(t, l)' = UsedNode(t, l)
  BY <1>1, <1>2, <1>3, SameNodes DEF CalmNode
<1>5. CallBook(t)'
  <2>1. ASSUME WaitLock(t) # Null PROVE mine'[t] = UsedNode(t, WaitLock(t))'
    <3>1. PICK l : l = WaitLock(t)
      OBVIOUS
    <3>2. UsedNode(t, l)' = mine'[t] /\ WaitLock(t)' = l
      BY <1>1, <1>4, <2>1, <3>1 DEF NodeLocks, CallBook
    <3> QED
      BY <3>2 DEF UsedNode
  <2>2. ASSUME pc'[t] \in {"next", "cas", "arriver", "halt", "wake"}
        PROVE  lk'[t] \in held'[t] /\ mine'[t] = UsedNode(t, lk[t])'
    <3>1. PICK l \in held'[t] : l \in NodeLocks(t) /\ lk'[t] = l /\ mine'[t] = UsedNode(t, l)
      BY <2>2
    <3>2. UsedNode(t, l)' = mine'[t]
      BY <1>4, <3>1
    <3> QED
      BY <3>1, <3>2 DEF UsedNode
  <2>3. pc'[t] \in {"halt", "wake"} => node'[mine'[t]].next # NoNode
    BY DEF CalmNode
  <2>4. WaitLock(t)' \notin Owned(t)'
    BY <1>1 DEF CallBook
  <2> QED
    BY <2>1, <2>2, <2>3, <2>4 DEF CallBook
<1> QED
  BY <1>2, <1>3, <1>5, QuietStep DEF ThreadBook

(* A queue without a tail is empty.                                        *)
LEMMA NoTail ==
  ASSUME IInv, NEW l \in Locks
  PROVE  tail[l] = NoNode <=> line[l] = <<>> /\ Unheld(l)
<1>1. TailBook(l)
  BY DEF IInv, QueueBook
<1>2. \A u \in Threads : l \in NodeLocks(u) => UsedNode(u, l) # NoNode
  BY NodeFound, NoNodeIsNoNode DEF NodesAreFound, IInv, ThreadBook
<1>3. line[l] # <<>> => tail[l] # NoNode
  BY <1>1, <1>2, InLine DEF TailBook
<1>4. line[l] = <<>> /\ ~Unheld(l) => tail[l] # NoNode
  BY <1>1, <1>2 DEF TailBook, Unheld, NodeLocks
<1> QED
  BY <1>1, <1>3, <1>4 DEF TailBook

(* t swaps its node m into the queue of l.                                  *)
Swaps(t, l, m) ==
  /\ m \in Nodes /\ l \notin NodeLocks(t) /\ WaitLock(t) = Null
  /\ UNCHANGED node
  /\ node[m].next = NoNode /\ node[m].wait /\ node[m].lock = l
  /\ used'[t] = <<m>> \o used[t]
  /\ tail' = [tail EXCEPT ![l] = m]

LEMMA SwapFrame ==
  ASSUME IInv, NEW t \in Threads, QueueTypeOK', McsTyped', OnlyMoves(t), ThreadBook(t)',
         NEW l \in Locks, NEW m, Swaps(t, l, m), NodeLocks(t)' = NodeLocks(t) \cup {l}
  PROVE  /\ OthersSpared(t) /\ UsedNode(t, l)' = m
         /\ \A k \in NodeLocks(t) : UsedNode(t, k)' = UsedNode(t, k)
         /\ tail'[l] = m /\ \A k \in Locks \ {l} : tail'[k] = tail[k]
<1>1. OthersSpared(t)
  BY DEF OthersSpared, NodeSpared, Swaps
<1>2. used[t] \in Seq(Nodes) /\ used'[t] \in Seq(Nodes) /\ m \in Nodes
  BY DEF IInv, McsTyped, Swaps
<1>3. m \in Range(used'[t]) /\ \A n \in Range(used[t]) : n \in Range(used'[t])
  <2>1. Range(<<m>> \o used[t]) = Range(<<m>>) \cup Range(used[t])
    <3>1. <<m>> \in Seq(Nodes)
      BY <1>2
    <3> QED
      BY ONLY <1>2, <3>1, RangeConcatenation
  <2> QED
    BY <2>1, Singleton DEF Swaps
<1>4. UsedNode(t, l)' = m
  <2>1. node'[m].lock = l /\ l \in NodeLocks(t)'
    BY DEF Swaps
  <2> QED
    BY <1>3, <2>1, NodeFoundAfter DEF NodesAreFound, ThreadBook
<1>5. ASSUME NEW k \in NodeLocks(t) PROVE UsedNode(t, k)' = UsedNode(t, k)
  <2>1. PICK n : n = UsedNode(t, k)
    OBVIOUS
  <2>2. n \in Range(used[t]) /\ node[n].lock = k
    BY <2>1, NodeFound DEF NodesAreFound, IInv, ThreadBook
  <2>3. n \in Range(used'[t]) /\ node'[n].lock = k /\ k \in NodeLocks(t)'
    BY <1>3, <2>2 DEF Swaps
  <2>4. UsedNode(t, k)' = n
    BY <2>3, NodeFoundAfter DEF NodesAreFound, ThreadBook
  <2> QED
    BY <2>1, <2>4
<1>6. tail'[l] = m /\ \A k \in Locks \ {l} : tail'[k] = tail[k]
  BY DEF IInv, QueueTypeOK, Swaps
<1> QED
  BY <1>1, <1>4, <1>5, <1>6

(* The queue was empty, and t takes l.                                      *)
LEMMA TakeStep ==
  ASSUME IInv, NEW t \in Threads, QueueTypeOK', McsTyped', OnlyMoves(t), ThreadBook(t)',
         NEW l \in Locks, NEW m, Swaps(t, l, m), tail[l] = NoNode,
         Owned(t)' = Owned(t) \cup {l}, WaitLock(t)' = Null, UNCHANGED line
  PROVE  IInv' /\ FifoStep
<1>1. NodeLocks(t)' = NodeLocks(t) \cup {l} /\ l \notin Owned(t) /\ WaitLock(t) = Null
  BY DEF NodeLocks, Swaps
<1>2. /\ OthersSpared(t) /\ UsedNode(t, l)' = m
      /\ \A k \in NodeLocks(t) : UsedNode(t, k)' = UsedNode(t, k)
      /\ tail'[l] = m /\ \A k \in Locks \ {l} : tail'[k] = tail[k]
  BY <1>1, SwapFrame
<1>3. node' = node /\ m \in Nodes /\ node[m].next = NoNode
  BY DEF Swaps
<1>4. line[l] = <<>> /\ Unheld(l)
  BY NoTail
<1>5. \A u \in Threads \ {t} : Owned(u)' = Owned(u) /\ WaitLock(u)' = WaitLock(u)
  BY <1>2, OthersKeep
<1>6. ASSUME NEW k \in Locks \ {l} PROVE QueueBook(k)'
  <2>1. SameFor(t, k)
    BY <1>1, <1>2, <1>3 DEF SameFor, NodeLocks
  <2> QED
    BY <1>2, <1>3, <2>1, QueueSpared
<1>7. \A u \in Threads : l \in Owned(u)' <=> u = t
  BY <1>4, <1>5 DEF Unheld
<1>8. QueueBook(l)'
  <2>1. LineBook(l)'
    <3>1. Range(<<>>) = {} /\ IsInjective(<<>>) /\ line'[l] = <<>>
      BY <1>4, Singleton
    <3>2. \A u \in Threads : WaitLock(u)' # l
      <4>1. \A u \in Threads : u \in Range(line[l]) <=> WaitLock(u) = l
        BY DEF IInv, QueueBook, LineBook
      <4> QED
        BY <1>4, <1>5, <3>1, <4>1
    <3> QED
      BY <1>7, <3>1, <3>2 DEF LineBook
  <2>2. TailBook(l)'
    <3>1. \A u \in Threads : l \in Owned(u)' => tail'[l] = UsedNode(u, l)'
      BY <1>2, <1>7
    <3>2. ~Unheld(l)'
      BY <1>7 DEF Unheld
    <3> QED
      BY <1>2, <1>3, <1>4, <3>1, <3>2 DEF TailBook
  <2>3. LinkBook(l)'
    <3>1. line'[l] = <<>> /\ Len(line[l])' = 0
      BY <1>4
    <3> QED
      BY <3>1 DEF LinkBook
  <2> QED
    BY <2>1, <2>2, <2>3 DEF QueueBook
<1>9. IInv'
  BY <1>2, <1>6, <1>8, BooksKept
<1>10. F!TryAcquire(t, l)
  <2>1. Holds' = [Holds EXCEPT ![t] = @ \cup {l}]
    BY <1>5 DEF Holds
  <2> QED
    BY <1>4, <2>1 DEF F!TryAcquire, F!Free, Holds, Unheld
<1> QED
  BY <1>9, <1>10 DEF FifoStep, F!Next

(* t goes to the end of the queue of l.                                     *)
LEMMA ArriveStep ==
  ASSUME IInv, NEW t \in Threads, QueueTypeOK', McsTyped', OnlyMoves(t), ThreadBook(t)',
         NEW l \in Locks, NEW m, Swaps(t, l, m),
         Owned(t)' = Owned(t), WaitLock(t)' = l,
         line' = [line EXCEPT ![l] = Append(@, t)],
         pc'[t] = (IF tail[l] = NoNode THEN "count" ELSE "link"), ptr'[t] = tail[l]
  PROVE  IInv' /\ FifoStep
<1>q. PICK q, r : q = line[l] /\ r = Append(q, t)
  OBVIOUS
<1> USE <1>q
<1>1. /\ NodeLocks(t)' = NodeLocks(t) \cup {l} /\ l \notin Owned(t) /\ WaitLock(t) = Null
      /\ l # Null
  BY DEF NodeLocks, Swaps
<1>2. /\ OthersSpared(t) /\ UsedNode(t, l)' = m
      /\ \A k \in NodeLocks(t) : UsedNode(t, k)' = UsedNode(t, k)
      /\ tail'[l] = m /\ \A k \in Locks \ {l} : tail'[k] = tail[k]
  BY <1>1, SwapFrame
<1>3. node' = node /\ m \in Nodes /\ node[m].next = NoNode /\ node[m].wait
  BY DEF Swaps
<1>4. line'[l] = r /\ \A k \in Locks \ {l} : line'[k] = line[k]
  BY DEF IInv, McsTyped
<1>5. \A u \in Threads \ {t} : Owned(u)' = Owned(u) /\ WaitLock(u)' = WaitLock(u)
  BY <1>2, OthersKeep
<1>6. ASSUME NEW k \in Locks \ {l} PROVE QueueBook(k)'
  <2>1. SameFor(t, k)
    BY <1>1, <1>2, <1>3 DEF SameFor, NodeLocks
  <2> QED
    BY <1>2, <1>3, <1>4, <2>1, QueueSpared
<1>7. LineBook(l) /\ TailBook(l) /\ LinkBook(l) /\ q \in Seq(Threads) /\ Len(q) \in Nat
  BY InLine DEF IInv, QueueBook
<1>8. t \notin Range(q) /\ \A i \in 1 .. Len(q) : q[i] \in Threads \ {t}
  <2>1. t \notin Range(q)
    BY <1>1, <1>7 DEF LineBook
  <2>2. \A i \in 1 .. Len(q) : q[i] \in Threads /\ q[i] \in Range(q)
    BY InLine
  <2> QED
    BY <2>1, <2>2
<1>9. /\ Len(r) = Len(q) + 1 /\ r[Len(q) + 1] = t /\ \A i \in 1 .. Len(q) : r[i] = q[i]
      /\ Range(r) = Range(q) \cup {t} /\ IsInjective(r) /\ r # <<>> /\ Last(r) = t
  <2>1. IsInjective(q)
    BY <1>7 DEF LineBook
  <2>2. Range(r) = Range(q) \cup {t} /\ IsInjective(r) /\ r # <<>>
    BY <1>7, <1>8, <2>1, AppendRange
  <2>3. Len(r) = Len(q) + 1 /\ r[Len(q) + 1] = t /\ \A i \in 1 .. Len(q) : r[i] = q[i]
    BY <1>7, AppendProperties
  <2> QED
    BY <2>2, <2>3 DEF Last
<1>10. ASSUME NEW u \in Threads \ {t} PROVE SameFor(u, l)
  BY <1>2, <1>3, OtherSame
<1>11. \A u \in Threads : l \in Owned(u)' <=> l \in Owned(u)
  BY <1>5
<1>12. Unheld(l)' <=> Unheld(l)
  BY <1>11 DEF Unheld
<1>13. q # <<>> => r[1] = q[1] /\ 1 \in 1 .. Len(q)
  BY <1>9, InLine
<1>14. q = <<>> => r[1] = t
  BY <1>9, InLine
<1>15. LineBook(l)'
  <2>1. \A u, v \in Threads : l \in Owned(u)' /\ l \in Owned(v)' => u = v
    BY <1>7, <1>11 DEF LineBook
  <2>2. \A u \in Threads : u \in Range(r) <=> WaitLock(u)' = l
    BY <1>5, <1>7, <1>9 DEF LineBook
  <2>3. ASSUME NEW u \in Range(r), GoesOn(u, l)' PROVE u = r[1] /\ Unheld(l)'
    <3>1. CASE u = t
      <4>1. node'[m].wait
        BY <1>3
      <4>2. pc'[t] = "count"
        BY <1>2, <2>3, <3>1, <4>1 DEF GoesOn
      <4> QED
        BY <1>12, <1>14, <3>1, <4>2, NoTail
    <3>2. CASE u # t
      <4>1. u \in Range(q) /\ u \in Threads /\ WaitLock(u) = l
        BY <1>9, <3>2, InLine
      <4>2. GoesOn(u, l)
        BY <1>10, <2>3, <3>2, <4>1 DEF SameFor
      <4>3. u = q[1] /\ Unheld(l) /\ q # <<>>
        BY <1>7, <4>1, <4>2, Singleton DEF LineBook
      <4> QED
        BY <1>12, <1>13, <4>3
    <3> QED
      BY <3>1, <3>2
  <2>4. ASSUME Unheld(l)' PROVE pc'[r[1]] # "link"
    <3>1. CASE q = <<>>
      BY <1>12, <1>14, <2>4, <3>1, NoTail
    <3>2. CASE q # <<>>
      <4>1. PICK u \in Threads \ {t} : u = q[1]
        BY <1>8, <1>13, <3>2
      <4>2. pc[u] # "link" /\ pc'[u] = pc[u]
        BY <1>7, <1>12, <2>4, <3>2, <4>1 DEF LineBook, OnlyMoves
      <4> QED
        BY <1>13, <3>2, <4>1, <4>2
    <3> QED
      BY <3>1, <3>2
  <2> QED
    BY <1>4, <1>9, <2>1, <2>2, <2>3, <2>4 DEF LineBook
<1>16. TailBook(l)'
  <2>1. Last(line[l])' = t /\ line'[l] # <<>>
    BY <1>4, <1>9 DEF Last
  <2>2. UsedNode(Last(line[l]), l)' = m
    <3>1. UsedNode(t, l)' = m
      BY <1>2
    <3> QED
      BY <2>1, <3>1 DEF UsedNode
  <2> QED
    BY <1>2, <1>3, <2>1, <2>2 DEF TailBook
<1>17. ASSUME NEW u \in Threads \ {t}, l \in NodeLocks(u), tail[l] = UsedNode(u, l)
       PROVE  Linked(UsedNode(u, l), t, l)'
  <2>1. PICK n : n = UsedNode(u, l)
    OBVIOUS
  <2>2. UsedNode(u, l)' = n /\ node'[n].next = NoNode /\ tail[l] = n /\ tail[l] # NoNode
    <3>1. tail[l] # NoNode
      BY <1>17, NodeFound, NoNodeIsNoNode DEF NodesAreFound, IInv, ThreadBook
    <3> QED
      BY <1>3, <1>7, <1>10, <1>17, <2>1, <3>1 DEF SameFor, TailBook
  <2> QED
    BY <2>2 DEF Linked
<1>18. ASSUME NEW u \in Threads \ {t}, l \in NodeLocks(u),
              NEW v \in Threads \ {t}, WaitLock(v) = l, Linked(UsedNode(u, l), v, l)
       PROVE  Linked(UsedNode(u, l), v, l)'
  <2>1. l \in NodeLocks(v)
    BY <1>1, <1>18 DEF NodeLocks
  <2> QED
    BY <1>10, <1>18, <2>1, LinkKept DEF SameFor
<1>19. LinkBook(l)'
  <2>1. ASSUME NEW i \in 1 .. Len(r) - 1 PROVE Linked(UsedNode(r[i], l), r[i + 1], l)'
    <3>1. i \in 1 .. Len(q) /\ i + 1 \in 1 .. Len(r)
      BY <1>7, <1>9
    <3>2. PICK u \in Threads \ {t} : u = q[i] /\ u = r[i] /\ l \in NodeLocks(u)
      BY <1>8, <1>9, <3>1, InLine
    <3>3. CASE i = Len(q)
      <4>1. Last(q) = u /\ q # <<>> /\ r[i + 1] = t
        BY <1>7, <1>9, <3>1, <3>2, <3>3, InLine DEF Last
      <4>2. Linked(UsedNode(u, l), t, l)'
        BY <1>7, <1>17, <3>2, <4>1 DEF TailBook
      <4> QED
        BY <3>2, <4>1, <4>2
    <3>4. CASE i # Len(q)
      <4>1. i \in 1 .. Len(q) - 1 /\ i + 1 \in 1 .. Len(q)
        BY <1>7, <3>1, <3>4
      <4>2. PICK v \in Threads \ {t} : v = q[i + 1] /\ v = r[i + 1] /\ WaitLock(v) = l
        BY <1>8, <1>9, <4>1, InLine
      <4>3. Linked(UsedNode(u, l), v, l)
        BY <1>7, <3>2, <4>1, <4>2 DEF LinkBook
      <4>4. Linked(UsedNode(u, l), v, l)'
        BY <1>18, <3>2, <4>2, <4>3
      <4> QED
        BY <3>2, <4>2, <4>4
    <3> QED
      BY <3>3, <3>4
  <2>2. ASSUME NEW u \in Threads, l \in Owned(u)' PROVE Linked(UsedNode(u, l), r[1], l)'
    <3>1. u # t /\ l \in Owned(u) /\ l \in NodeLocks(u)
      BY <1>1, <1>11, <2>2 DEF NodeLocks
    <3>2. CASE q = <<>>
      <4>1. tail[l] = UsedNode(u, l)
        BY <1>7, <3>1, <3>2 DEF TailBook
      <4> QED
        BY <1>14, <1>17, <3>1, <3>2, <4>1
    <3>3. CASE q # <<>>
      <4>1. PICK v \in Threads \ {t} : v = q[1] /\ v = r[1] /\ WaitLock(v) = l
        BY <1>8, <1>13, <3>3, InLine
      <4>2. Linked(UsedNode(u, l), v, l)
        BY <1>7, <3>1, <3>3, <4>1 DEF LinkBook
      <4>3. Linked(UsedNode(u, l), v, l)'
        BY <1>18, <3>1, <4>1, <4>2
      <4> QED
        BY <4>1, <4>3
    <3> QED
      BY <3>2, <3>3
  <2>3. line'[l] = r
    BY <1>4
  <2> QED
    BY <2>1, <2>2, <2>3, LinksAre
<1>20. IInv'
  BY <1>2, <1>6, <1>15, <1>16, <1>19, BooksKept DEF QueueBook
<1>21. F!Enqueue(t, l)
  <2>1. UNCHANGED Holds
    BY <1>5 DEF Holds
  <2> QED
    BY <2>1 DEF F!Enqueue, Holds
<1> QED
  BY <1>20, <1>21 DEF FifoStep, F!Next

(* The thread that t stands behind before it has linked itself.             *)
LEMMA Predecessor ==
  ASSUME IInv, NEW t \in Threads, NEW l \in Locks, WaitLock(t) = l, pc[t] = "link"
  PROVE  \E u \in Threads \ {t} :
           /\ l \in NodeLocks(u) /\ ptr[t] = UsedNode(u, l) /\ node[ptr[t]].next = NoNode
           /\ \/ \E j \in 1 .. Len(line[l]) - 1 : line[l][j] = u /\ line[l][j + 1] = t
              \/ l \in Owned(u) /\ line[l][1] = t
<1>1. LineBook(l) /\ LinkBook(l) /\ Len(line[l]) \in Nat
  BY InLine DEF IInv, QueueBook
<1>2. PICK i \in 1 .. Len(line[l]) : line[l][i] = t
  <2>1. t \in Range(line[l])
    BY <1>1 DEF LineBook
  <2>2. Range(line[l]) = {line[l][i] : i \in 1 .. Len(line[l])}
    BY InLine
  <2> QED
    BY <2>1, <2>2
<1>3. CASE i = 1
  <2>1. line[l] # <<>>
    BY <1>2, InLine
  <2>2. PICK u \in Threads : l \in Owned(u)
    BY <1>1, <1>2, <1>3, <2>1 DEF LineBook, Unheld
  <2>3. Linked(UsedNode(u, l), t, l)
    BY <1>1, <1>2, <1>3, <2>1, <2>2 DEF LinkBook
  <2>4. u # t
    BY <2>2 DEF IInv, ThreadBook, CallBook
  <2> QED
    BY <1>2, <1>3, <2>2, <2>3, <2>4 DEF Linked, NodeLocks
<1>4. CASE i # 1
  <2>1. i - 1 \in 1 .. Len(line[l]) - 1 /\ (i - 1) + 1 = i /\ i - 1 \in 1 .. Len(line[l])
        /\ i - 1 # i
    BY <1>1, <1>4
  <2>2. PICK u \in Threads : u = line[l][i - 1] /\ l \in NodeLocks(u)
    BY <2>1, InLine
  <2>3. u # t
    BY <1>2, <2>1, <2>2, InLine
  <2>4. Linked(UsedNode(u, l), t, l)
    BY <1>1, <1>2, <2>1, <2>2 DEF LinkBook
  <2> QED
    BY <1>2, <2>1, <2>2, <2>3, <2>4 DEF Linked
<1> QED
  BY <1>3, <1>4

(* Two threads of a queue have two nodes, and two locks have two.            *)
LEMMA NodesDiffer ==
  ASSUME IInv, NEW t \in Threads, NEW u \in Threads, NEW k \in NodeLocks(t), NEW l \in NodeLocks(u),
         UsedNode(t, k) = UsedNode(u, l)
  PROVE  t = u /\ k = l
BY NodeFound DEF NodesAreFound, IInv, ThreadBook

(* t links itself behind the thread before it.                              *)
LEMMA LinkStep ==
  ASSUME IInv, NEW t \in Threads, QueueTypeOK', McsTyped', OnlyMoves(t), SpecBook(t)',
         NEW l \in Locks, WaitLock(t) = l, pc[t] = "link",
         (pc'[t] = "predcnt" /\ ptr'[t] = ptr[t]) \/ pc'[t] = "await",
         lk'[t] = lk[t], node' = [node EXCEPT ![ptr[t]].next = mine[t]],
         UNCHANGED <<tail, line, free, used, mine>>,
         Owned(t)' = Owned(t), WaitLock(t)' = l
  PROVE  IInv' /\ FifoStep
<1>1. PICK u \in Threads \ {t} :
        /\ l \in NodeLocks(u) /\ ptr[t] = UsedNode(u, l) /\ node[ptr[t]].next = NoNode
        /\ \/ \E j \in 1 .. Len(line[l]) - 1 : line[l][j] = u /\ line[l][j + 1] = t
           \/ l \in Owned(u) /\ line[l][1] = t
  BY Predecessor
<1>p. PICK p : p = ptr[t]
  OBVIOUS
<1>m. PICK m : m = mine[t]
  OBVIOUS
<1>2. /\ p = UsedNode(u, l) /\ p \in Nodes /\ p \in Range(used[u]) /\ node[p].next = NoNode
      /\ m = UsedNode(t, l) /\ m \in Nodes /\ m # NoNode /\ l \in NodeLocks(t)
      /\ WaitLock(t) # Null
  <2>1. l \in NodeLocks(t) /\ WaitLock(t) # Null
    BY DEF NodeLocks
  <2>2. mine[t] = UsedNode(t, l)
    BY <2>1 DEF IInv, ThreadBook, CallBook
  <2> QED
    BY <1>1, <1>p, <1>m, <2>1, <2>2, NodeFound, NoNodeIsNoNode
    DEF NodesAreFound, IInv, ThreadBook
<1>3. /\ node'[p].next = m /\ node'[p].lock = node[p].lock /\ node'[p].wait = node[p].wait
      /\ \A n \in Nodes \ {p} : node'[n] = node[n]
  BY <1>2, <1>p, <1>m, NodesTyped DEF IInv, NodeType
<1>4. /\ OthersSpared(t)
      /\ \A n \in Nodes : node'[n].lock = node[n].lock /\ node'[n].wait = node[n].wait
  <2>1. \A n \in Nodes : node'[n].lock = node[n].lock /\ node'[n].wait = node[n].wait
    BY <1>3
  <2>2. ASSUME NEW v \in Threads \ {t}, NEW n \in Range(free[v]) \cup Range(used[v])
        PROVE  NodeSpared(v, n)
    <3>1. n \in Nodes /\ Owner(n) = v /\ Owner(p) = u
      BY <1>2, NodeFound DEF NodesAreFound, IInv, ThreadBook
    <3>2. n = p => n \in Range(used[v])
      BY <1>2, <3>1
    <3> QED
      BY <1>2, <1>3, <3>1, <3>2 DEF NodeSpared
  <2> QED
    BY <2>1, <2>2 DEF OthersSpared
<1>5. /\ McsTyped /\ CallBook(t) /\ PoolBook(t) /\ NodeLocks(t)' = NodeLocks(t)
      /\ Range(used[t]) \subseteq Nodes
  <2>1. Range(used[t]) \subseteq Nodes
    BY NodeFound DEF NodesAreFound, IInv, ThreadBook
  <2> QED
    BY <2>1 DEF NodeLocks, IInv, ThreadBook
<1>6. PoolBook(t)'
  <2>1. {node'[n].lock : n \in Range(used[t])} = {node[n].lock : n \in Range(used[t])}
    BY <1>4, <1>5
  <2>2. \A i, n \in Range(used[t]) : node'[i].lock = node'[n].lock => i = n
    BY <1>4, <1>5 DEF PoolBook
  <2> QED
    BY <1>5, <2>1, <2>2 DEF PoolBook
<1>7. \A k \in NodeLocks(t) : UsedNode(t, k)' = UsedNode(t, k)
  BY <1>4, <1>5, <1>6, SameNodes
<1>8. CallBook(t)'
  <2>1. mine'[t] = UsedNode(t, WaitLock(t))'
    <3>1. UsedNode(t, l)' = mine'[t]
      BY <1>2, <1>7, <1>m
    <3> QED
      BY <3>1 DEF UsedNode
  <2>2. WaitLock(t)' \notin Owned(t)' /\ lk'[t] \in Locks /\ ptr[t] # NoNode
    BY <1>2, <1>5, <1>p, NoNodeIsNoNode DEF CallBook
  <2> QED
    BY <2>1, <2>2 DEF CallBook
<1>9. ASSUME NEW v \in Threads
      PROVE  /\ \A k \in NodeLocks(v) : UsedNode(v, k)' = UsedNode(v, k)
             /\ Owned(v)' = Owned(v) /\ WaitLock(v)' = WaitLock(v)
             /\ v # t => pc'[v] = pc[v] /\ ptr'[v] = ptr[v]
  BY <1>4, <1>7, OthersKeep DEF OnlyMoves
<1>10. ASSUME NEW v \in Threads, NEW k \in NodeLocks(v), v # u \/ k # l
       PROVE  node'[UsedNode(v, k)].next = node[UsedNode(v, k)].next
  <2>1. UsedNode(v, k) # p /\ UsedNode(v, k) \in Nodes
    BY <1>1, <1>2, <1>10, NodesDiffer, NodeFound DEF NodesAreFound, IInv, ThreadBook
  <2> QED
    BY <1>3, <2>1
<1>11. ASSUME NEW k \in Locks \ {l} PROVE QueueBook(k)'
  <2>1. SameFor(t, k)
    BY <1>9, <1>10 DEF SameFor
  <2>2. \A v \in Threads : k \in NodeLocks(v) => UsedNode(v, k) \in Nodes
    BY NodeFound DEF NodesAreFound, IInv, ThreadBook
  <2> QED
    BY <1>4, <1>10, <2>1, <2>2, QueueSpared
<1>q. PICK q : q = line[l]
  OBVIOUS
<1> USE <1>q
<1>12. LineBook(l) /\ TailBook(l) /\ LinkBook(l) /\ q \in Seq(Threads) /\ Len(q) \in Nat
  BY InLine DEF IInv, QueueBook
<1>13. /\ q # <<>> /\ u # Last(q)
       /\ \A i \in 1 .. Len(q) - 1 : q[i] = u => q[i + 1] = t
       /\ l \in Owned(u) => q[1] = t
       /\ \A w \in Threads : l \in Owned(w) => w \notin Range(q)
  <2>1. \A w \in Threads : l \in Owned(w) => w \notin Range(q)
    BY InLine DEF IInv, ThreadBook, CallBook
  <2>2. q # <<>> /\ Last(q) = q[Len(q)] /\ Last(q) \in Range(q) /\ Len(q) \in 1 .. Len(q)
    <3>1. t \in Range(q)
      BY <1>12 DEF LineBook
    <3> QED
      BY <3>1, InLine, Singleton
  <2>3. \A i, j \in 1 .. Len(q) : q[i] = q[j] => i = j
    BY InLine
  <2>4. \A i \in 1 .. Len(q) : q[i] \in Range(q)
    BY InLine
  <2>5. CASE l \in Owned(u) /\ q[1] = t
    <3>1. u \notin Range(q)
      BY <2>1, <2>5
    <3>2. \A i \in 1 .. Len(q) - 1 : i \in 1 .. Len(q)
      BY <1>12
    <3> QED
      BY <2>1, <2>2, <2>4, <2>5, <3>1, <3>2
  <2>6. ASSUME NEW j \in 1 .. Len(q) - 1, q[j] = u, q[j + 1] = t
        PROVE  /\ u # Last(q) /\ l \notin Owned(u)
               /\ \A i \in 1 .. Len(q) - 1 : q[i] = u => q[i + 1] = t
    <3>1. j \in 1 .. Len(q) /\ j # Len(q)
      BY <1>12
    <3>2. u # Last(q)
      BY <2>2, <2>3, <2>6, <3>1
    <3>3. ASSUME NEW i \in 1 .. Len(q) - 1, q[i] = u PROVE q[i + 1] = t
      <4>1. i \in 1 .. Len(q)
        BY <1>12
      <4>2. i = j
        BY <2>3, <2>6, <3>1, <3>3, <4>1
      <4> QED
        BY <2>6, <4>2
    <3> QED
      BY <2>1, <2>4, <2>6, <3>1, <3>2, <3>3
  <2> QED
    BY <1>1, <2>1, <2>2, <2>5, <2>6
<1>14. LineBook(l)'
  <2>1. ASSUME NEW v \in Range(q), GoesOn(v, l)' PROVE v = q[1] /\ Unheld(l)'
    <3>1. v \in Threads /\ l \in NodeLocks(v) /\ WaitLock(v) = l
      BY <2>1, InLine
    <3>2. PICK n : n = UsedNode(v, l)
      OBVIOUS
    <3>3. UsedNode(v, l)' = n /\ node'[n].wait = node[n].wait
      BY <1>4, <1>9, <3>1, <3>2, NodeFound DEF NodesAreFound, IInv, ThreadBook
    <3>4. GoesOn(v, l)
      <4>1. pc'[v] \in {"count", "serve"} => pc[v] \in {"count", "serve"}
        BY <1>9, <3>1
      <4> QED
        BY <2>1, <3>2, <3>3, <4>1 DEF GoesOn
    <3> QED
      BY <1>9, <1>12, <2>1, <3>4 DEF LineBook, Unheld
  <2>2. ASSUME Unheld(l)' PROVE pc'[q[1]] # "link"
    <3>1. pc[q[1]] # "link"
      BY <1>9, <1>12, <1>13, <2>2 DEF LineBook, Unheld
    <3>2. q[1] \in Threads
      BY <1>13, InLine
    <3> QED
      BY <1>9, <3>1, <3>2
  <2>3. \A v \in Threads : v \in Range(q) <=> WaitLock(v)' = l
    BY <1>9, <1>12 DEF LineBook
  <2>4. \A v, w \in Threads : l \in Owned(v)' /\ l \in Owned(w)' => v = w
    BY <1>9, <1>12 DEF LineBook
  <2> QED
    BY <1>12, <2>1, <2>2, <2>3, <2>4 DEF LineBook
<1>15. TailBook(l)'
  <2>1. PICK v \in Threads : v = Last(q) /\ l \in NodeLocks(v)
    BY <1>13, InLine
  <2>2. tail[l] = UsedNode(v, l) /\ node[tail[l]].next = NoNode
    <3>1. tail[l] = UsedNode(v, l) /\ UsedNode(v, l) # NoNode
      BY <1>12, <1>13, <2>1, NodeFound, NoNodeIsNoNode
      DEF TailBook, NodesAreFound, IInv, ThreadBook
    <3> QED
      BY <1>12, <3>1 DEF TailBook
  <2>3. UsedNode(v, l)' = tail[l] /\ node'[tail[l]].next = NoNode
    BY <1>9, <1>10, <1>13, <2>1, <2>2
  <2>4. Last(line[l])' = v
    BY <2>1 DEF Last
  <2>5. tail'[l] = UsedNode(Last(line[l]), l)'
    BY <2>3, <2>4 DEF UsedNode
  <2> QED
    BY <1>13, <2>3, <2>5 DEF TailBook
<1>16. ASSUME NEW v \in Threads, l \in NodeLocks(v), NEW w \in Threads, WaitLock(w) = l,
              Linked(UsedNode(v, l), w, l), v = u => w = t
       PROVE  Linked(UsedNode(v, l), w, l)'
  <2>1. l \in NodeLocks(w)
    BY <1>2, <1>16 DEF NodeLocks
  <2>2. CASE w = t
    <3>1. ptr[t] = UsedNode(v, l)
      BY <1>16, <2>2 DEF Linked
    <3>2. v = u
      BY <1>1, <1>16, <3>1, NodesDiffer
    <3>3. UsedNode(v, l)' = p /\ UsedNode(w, l)' = m /\ pc'[w] # "link"
      BY <1>2, <1>9, <1>16, <2>1, <2>2, <3>2
    <3> QED
      BY <1>3, <3>3 DEF Linked
  <2>3. CASE w # t
    BY <1>9, <1>10, <1>16, <2>1, <2>3, LinkKept
  <2> QED
    BY <2>2, <2>3
<1>17. LinkBook(l)'
  <2>1. ASSUME NEW i \in 1 .. Len(q) - 1 PROVE Linked(UsedNode(q[i], l), q[i + 1], l)'
    <3>1. i \in 1 .. Len(q) /\ i + 1 \in 1 .. Len(q)
      BY <1>12
    <3>2. PICK v \in Threads, w \in Threads :
            v = q[i] /\ w = q[i + 1] /\ l \in NodeLocks(v) /\ WaitLock(w) = l
      BY <3>1, InLine
    <3>3. Linked(UsedNode(v, l), w, l)
      BY <1>12, <3>2 DEF LinkBook
    <3>4. v = u => w = t
      BY <1>13, <3>2
    <3>5. Linked(UsedNode(v, l), w, l)'
      BY <1>16, <3>2, <3>3, <3>4
    <3> QED
      BY <3>2, <3>5
  <2>2. ASSUME NEW v \in Threads, l \in Owned(v)' PROVE Linked(UsedNode(v, l), q[1], l)'
    <3>1. l \in Owned(v) /\ l \in NodeLocks(v)
      BY <1>9, <2>2 DEF NodeLocks
    <3>2. PICK w \in Threads : w = q[1] /\ WaitLock(w) = l
      BY <1>13, InLine
    <3>3. Linked(UsedNode(v, l), w, l)
      BY <1>12, <1>13, <3>1, <3>2 DEF LinkBook
    <3>4. v = u => w = t
      BY <1>13, <3>1, <3>2
    <3>5. Linked(UsedNode(v, l), w, l)'
      BY <1>16, <3>1, <3>2, <3>3, <3>4
    <3> QED
      BY <3>2, <3>5
  <2> QED
    BY <2>1, <2>2, LinksAre
<1>18. IInv'
  BY <1>4, <1>6, <1>8, <1>11, <1>14, <1>15, <1>17, BooksKept DEF QueueBook, ThreadBook
<1>19. UNCHANGED Holds
  BY <1>9 DEF Holds
<1> QED
  BY <1>18, <1>19 DEF FifoStep

(* Told to go on, t goes from the head of the queue of l into l.            *)
LEMMA EnterStep ==
  ASSUME IInv, NEW t \in Threads, QueueTypeOK', McsTyped', OnlyMoves(t), ThreadBook(t)',
         NEW l \in Locks, WaitLock(t) = l, GoesOn(t, l),
         UNCHANGED <<node, used, free, tail>>, line' = [line EXCEPT ![l] = Tail(@)],
         Owned(t)' = Owned(t) \cup {l}, WaitLock(t)' = Null
  PROVE  IInv' /\ FifoStep
<1>q. PICK q, r : q = line[l] /\ r = Tail(q)
  OBVIOUS
<1> USE <1>q
<1>1. /\ OthersSpared(t) /\ line'[l] = r /\ \A k \in Locks \ {l} : line'[k] = line[k]
      /\ l \in NodeLocks(t) /\ l \notin Owned(t) /\ NodeLocks(t)' = NodeLocks(t) /\ l # Null
  BY DEF OthersSpared, NodeSpared, IInv, McsTyped, ThreadBook, CallBook, NodeLocks
<1>2. LineBook(l) /\ TailBook(l) /\ LinkBook(l) /\ q \in Seq(Threads) /\ Len(q) \in Nat
  BY InLine DEF IInv, QueueBook
<1>3. t \in Range(q) /\ t = q[1] /\ Unheld(l) /\ q # <<>>
  <2>1. t \in Range(q)
    BY <1>2 DEF LineBook
  <2> QED
    BY <1>2, <2>1, Singleton DEF LineBook
<1>4. /\ r \in Seq(Threads) /\ Len(r) \in Nat /\ Len(r) = Len(q) - 1
      /\ \A i \in 1 .. Len(r) : r[i] = q[i + 1] /\ i + 1 \in 1 .. Len(q)
      /\ Range(r) = Range(q) \ {t} /\ IsInjective(r) /\ Head(q) = t /\ Len(q) \in 1 .. Len(q)
      /\ r # <<>> => 1 \in 1 .. Len(r) /\ Len(r) \in 1 .. Len(r) /\ Last(r) = Last(q)
      /\ r = <<>> => Last(q) = t
  <2>1. IsInjective(q)
    BY <1>2 DEF LineBook
  <2>2. Range(r) = Range(q) \ {Head(q)} /\ IsInjective(r) /\ r \in Seq(Threads)
    BY <1>2, <1>3, <2>1, TailRange
  <2>3. /\ Head(q) = q[1] /\ Len(r) = Len(q) - 1 /\ Len(q) \in Nat \ {0}
        /\ \A i \in 1 .. Len(r) : r[i] = q[i + 1]
    BY <1>2, <1>3, HeadTailProperties
  <2>4. r # <<>> => Len(r) \in Nat \ {0}
    BY <2>2
  <2>5. r = <<>> => Len(r) = 0
    OBVIOUS
  <2>6. r # <<>> => Last(r) = Last(q)
    <3> SUFFICES ASSUME r # <<>> PROVE r[Len(r)] = q[Len(q)]
      BY DEF Last
    <3>1. Len(r) \in 1 .. Len(r) /\ Len(r) + 1 = Len(q)
      BY <2>3, <2>4
    <3> QED
      BY <2>3, <3>1
  <2>7. r = <<>> => Last(q) = t
    BY <1>3, <2>3, <2>5 DEF Last
  <2> QED
    BY <1>3, <2>2, <2>3, <2>4, <2>6, <2>7
<1>5. \A k \in NodeLocks(t) : UsedNode(t, k)' = UsedNode(t, k)
  BY <1>1, SameNodes DEF IInv, ThreadBook
<1>6. ASSUME NEW v \in Threads
      PROVE  /\ \A k \in NodeLocks(v) : UsedNode(v, k)' = UsedNode(v, k)
             /\ v # t => /\ Owned(v)' = Owned(v) /\ WaitLock(v)' = WaitLock(v)
                         /\ pc'[v] = pc[v] /\ ptr'[v] = ptr[v]
  BY <1>1, <1>5, OthersKeep DEF OnlyMoves
<1>7. ASSUME NEW k \in Locks \ {l} PROVE QueueBook(k)'
  <2>1. SameFor(t, k)
    BY <1>5 DEF SameFor, NodeLocks
  <2> QED
    BY <1>1, <2>1, QueueSpared
<1>8. \A v \in Threads : l \in Owned(v)' <=> v = t
  BY <1>3, <1>6 DEF Unheld
<1>9. LineBook(l)'
  <2>1. ASSUME NEW v \in Range(r), GoesOn(v, l)' PROVE FALSE
    <3>1. v \in Range(q) /\ v # t /\ v \in Threads /\ l \in NodeLocks(v)
      BY <1>4, InLine
    <3>2. PICK n : n = UsedNode(v, l)
      OBVIOUS
    <3>3. UsedNode(v, l)' = n /\ pc'[v] = pc[v]
      BY <1>6, <3>1, <3>2
    <3>4. GoesOn(v, l)
      BY <2>1, <3>2, <3>3 DEF GoesOn
    <3> QED
      BY <1>2, <1>3, <3>1, <3>4 DEF LineBook
  <2>2. ~Unheld(l)'
    BY <1>8 DEF Unheld
  <2>3. \A v \in Threads : v \in Range(r) <=> WaitLock(v)' = l
    BY <1>1, <1>2, <1>4, <1>6 DEF LineBook
  <2> QED
    BY <1>1, <1>4, <1>8, <2>1, <2>2, <2>3 DEF LineBook
<1>10. TailBook(l)'
  <2>1. PICK v \in Threads : v = Last(q) /\ l \in NodeLocks(v)
    BY <1>3, InLine
  <2>2. tail'[l] = UsedNode(v, l)'
    BY <1>2, <1>3, <1>6, <2>1 DEF TailBook
  <2>3. r # <<>> => tail'[l] = UsedNode(Last(line[l]), l)'
    <3> SUFFICES ASSUME r # <<>> PROVE tail'[l] = UsedNode(Last(line[l]), l)'
      OBVIOUS
    <3>1. Last(line[l])' = v
      BY <1>1, <1>4, <2>1 DEF Last
    <3> QED
      BY ONLY <2>2, <3>1 DEF UsedNode
  <2>4. \A w \in Threads : r = <<>> /\ l \in Owned(w)' => tail'[l] = UsedNode(w, l)'
    <3> SUFFICES ASSUME r = <<>> PROVE tail'[l] = UsedNode(t, l)'
      BY <1>8
    <3> QED
      BY <1>4, <2>1, <2>2
  <2>5. ~Unheld(l)'
    BY <1>8 DEF Unheld
  <2> QED
    BY <1>1, <1>2, <2>3, <2>4, <2>5 DEF TailBook
<1>11. ASSUME NEW i \in 1 .. Len(q) - 1 PROVE Linked(UsedNode(q[i], l), q[i + 1], l)'
  <2>1. i \in 1 .. Len(q) /\ i + 1 \in 1 .. Len(q) /\ i + 1 # 1 /\ 1 \in 1 .. Len(q)
    BY <1>2
  <2>2. PICK v \in Threads, w \in Threads :
          v = q[i] /\ w = q[i + 1] /\ l \in NodeLocks(v) /\ l \in NodeLocks(w)
    BY <2>1, InLine
  <2>3. w # t
    BY <1>3, <2>1, <2>2, InLine
  <2>4. Linked(UsedNode(v, l), w, l)
    BY <1>2, <2>2 DEF LinkBook
  <2>5. Linked(UsedNode(v, l), w, l)'
    BY <1>6, <2>2, <2>3, <2>4, LinkKept
  <2> QED
    BY <2>2, <2>5
<1>12. LinkBook(l)'
  <2>1. ASSUME NEW i \in 1 .. Len(r) - 1 PROVE Linked(UsedNode(r[i], l), r[i + 1], l)'
    <3>1. i \in 1 .. Len(r) /\ i + 1 \in 1 .. Len(r) /\ i + 1 \in 1 .. Len(q) - 1
      BY <1>4
    <3>2. r[i] = q[i + 1] /\ r[i + 1] = q[(i + 1) + 1]
      BY <1>4, <3>1
    <3> QED
      BY <1>11, <3>1, <3>2
  <2>2. ASSUME NEW v \in Threads, r # <<>>, l \in Owned(v)'
        PROVE  Linked(UsedNode(v, l), r[1], l)'
    <3>1. v = t /\ 1 \in 1 .. Len(q) - 1 /\ q[1] = t /\ r[1] = q[1 + 1]
      BY <1>3, <1>4, <1>8, <2>2
    <3> QED
      BY <1>11, <3>1
  <2> QED
    BY <1>1, <2>1, <2>2, LinksAre
<1>13. IInv'
  BY <1>1, <1>7, <1>9, <1>10, <1>12, BooksKept DEF QueueBook
<1>14. F!Acquire(t, l)
  <2>1. Holds' = [Holds EXCEPT ![t] = @ \cup {l}]
    BY <1>6 DEF Holds
  <2>2. Head(line[l]) = t /\ line[l] # <<>>
    BY <1>3, <1>4
  <2> QED
    BY <1>3, <2>1, <2>2 DEF F!Acquire, F!Free, Holds, Unheld
<1> QED
  BY <1>13, <1>14 DEF FifoStep, F!Next
(* t leaves l and its node m goes back to the pool; node h is told to go on. *)
Leaves(t, l, m, h) ==
  /\ l \in Owned(t) /\ m = UsedNode(t, l) /\ WaitLock(t) = Null
  /\ pc'[t] = "client" /\ Owned(t)' = Owned(t) \ {l} /\ WaitLock(t)' = Null
  /\ used'[t] = RemoveAt(used[t], CHOOSE i \in DOMAIN used[t] : used[t][i] = m)
  /\ free'[t] = <<m>> \o free[t]
  /\ \A n \in Nodes \ {m} :
       /\ node'[n].lock = node[n].lock /\ node'[n].next = node[n].next
       /\ n # h => node'[n].wait = node[n].wait

LEMMA LeavePool ==
  ASSUME IInv, NEW t \in Threads, NEW l \in Locks, NEW m, NEW h, Leaves(t, l, m, h)
  PROVE  /\ PoolBook(t)' /\ m \in Range(used[t]) /\ m \in Nodes
         /\ Range(used'[t]) = Range(used[t]) \ {m}
<1>1. /\ PoolBook(t) /\ McsTyped /\ l \in NodeLocks(t) /\ NodeLocks(t)' = NodeLocks(t) \ {l}
      /\ free[t] \in Seq(Nodes) /\ used[t] \in Seq(Nodes) /\ l # Null
  BY DEF IInv, ThreadBook, Leaves, NodeLocks, McsTyped
<1>2. /\ m \in Range(used[t]) /\ m \in Nodes /\ node[m].lock = l
      /\ \A n \in Range(used[t]) : node[n].lock \in NodeLocks(t)
  BY <1>1, NodeFound DEF NodesAreFound, Leaves
<1> DEFINE i == CHOOSE i \in DOMAIN used[t] : used[t][i] = m
<1>3. i \in 1 .. Len(used[t]) /\ used[t][i] = m
  <2>1. /\ Range(used[t]) = {used[t][j] : j \in 1 .. Len(used[t])}
        /\ DOMAIN used[t] = 1 .. Len(used[t])
    BY <1>1, RangeOf
  <2> QED
    BY <1>2, <2>1
<1>4. used'[t] = RemoveAt(used[t], i)
  BY DEF Leaves
<1> HIDE DEF i
<1>5. /\ Range(used'[t]) = Range(used[t]) \ {m} /\ IsInjective(used'[t])
      /\ Len(used'[t]) = Len(used[t]) - 1 /\ Len(used[t]) \in Nat
  <2>1. IsInjective(used[t])
    BY <1>1 DEF PoolBook
  <2>2. /\ Range(RemoveAt(used[t], i)) = Range(used[t]) \ {used[t][i]}
        /\ IsInjective(RemoveAt(used[t], i)) /\ Len(RemoveAt(used[t], i)) = Len(used[t]) - 1
    BY <1>1, <1>3, <2>1, RemovedRange
  <2>3. Len(used[t]) \in Nat
    BY <1>1
  <2> QED
    BY <1>3, <1>4, <2>2, <2>3
<1>6. /\ Range(free'[t]) = Range(free[t]) \cup {m} /\ IsInjective(free'[t])
      /\ Len(free'[t]) = Len(free[t]) + 1 /\ Len(free[t]) \in Nat
  <2>1. m \notin Range(free[t]) /\ IsInjective(free[t])
    BY <1>1, <1>2 DEF PoolBook
  <2>2. free'[t] = <<m>> \o free[t]
    BY DEF Leaves
  <2> QED
    BY <1>1, <1>2, <2>1, <2>2, ConsRange
<1>7. \A n \in Range(used'[t]) : n \in Nodes \ {m} /\ node'[n].lock = node[n].lock
  BY <1>1, <1>5, NodeFound DEF NodesAreFound, Leaves
<1>8. {node'[n].lock : n \in Range(used'[t])} = NodeLocks(t)'
  <2>1. ASSUME NEW n \in Range(used'[t]) PROVE node'[n].lock \in NodeLocks(t) \ {l}
    <3>1. n \in Range(used[t]) /\ n # m /\ node'[n].lock = node[n].lock
      BY <1>5, <1>7
    <3> QED
      BY <1>1, <1>2, <3>1 DEF PoolBook
  <2>2. ASSUME NEW k \in NodeLocks(t) \ {l}
        PROVE  \E n \in Range(used'[t]) : node'[n].lock = k
    <3>1. PICK n \in Range(used[t]) : node[n].lock = k
      BY <1>1 DEF PoolBook
    <3>2. n # m
      BY <1>2, <3>1
    <3> QED
      BY <1>5, <1>7, <3>1, <3>2
  <2> QED
    BY <1>1, <2>1, <2>2
<1>9. \A n, o \in Range(used'[t]) : node'[n].lock = node'[o].lock => n = o
  BY <1>1, <1>5, <1>7 DEF PoolBook
<1>10. Range(free'[t]) \cup Range(used'[t]) = {t} \X (1 .. Len(free'[t]) + Len(used'[t]))
  <2>1. Len(free'[t]) + Len(used'[t]) = Len(free[t]) + Len(used[t])
    <3>1. \A a, b \in Nat : (a + 1) + (b - 1) = a + b
      OBVIOUS
    <3> QED
      BY <1>5, <1>6, <3>1
  <2>2. Range(free'[t]) \cup Range(used'[t]) = Range(free[t]) \cup Range(used[t])
    BY <1>2, <1>5, <1>6
  <2> QED
    BY <1>1, <2>1, <2>2 DEF PoolBook
<1>11. Range(free'[t]) \cap Range(used'[t]) = {}
  BY <1>1, <1>5, <1>6 DEF PoolBook
<1> QED
  BY <1>2, <1>5, <1>6, <1>8, <1>9, <1>10, <1>11 DEF PoolBook

LEMMA LeaveFrame ==
  ASSUME IInv, NEW t \in Threads, QueueTypeOK', McsTyped', OnlyMoves(t), SpecBook(t)',
         NEW l \in Locks, NEW m, NEW h, Leaves(t, l, m, h),
         h # NoNode => \E v \in Threads \ {t} : WaitLock(v) = l /\ h = UsedNode(v, l)
                                             /\ (watch[v] # {} => doomed'[v]),
         UNCHANGED line, \A k \in Locks \ {l} : tail'[k] = tail[k]
  PROVE  /\ OthersSpared(t) /\ ThreadBook(t)' /\ \A k \in Locks \ {l} : QueueBook(k)'
         /\ \A v \in Threads \ {t} : l \in NodeLocks(v) =>
              /\ UsedNode(v, l) \in Nodes \ {m}
              /\ node'[UsedNode(v, l)].next = node[UsedNode(v, l)].next
              /\ UsedNode(v, l) # h =>
                   node'[UsedNode(v, l)].wait = node[UsedNode(v, l)].wait
<1>1. /\ PoolBook(t)' /\ m \in Range(used[t]) /\ m \in Nodes /\ m = UsedNode(t, l)
      /\ l \in NodeLocks(t) /\ NodeLocks(t)' = NodeLocks(t) \ {l} /\ l # Null
  <2>1. PoolBook(t)' /\ m \in Range(used[t]) /\ m \in Nodes
    BY LeavePool
  <2> QED
    BY <2>1 DEF Leaves, NodeLocks
<1>2. OthersSpared(t)
  <2> SUFFICES ASSUME NEW u \in Threads \ {t}, NEW n \in Range(free[u]) \cup Range(used[u])
               PROVE  NodeSpared(u, n)
    BY DEF OthersSpared
  <2>1. n \in Nodes \ {m} /\ Owner(n) = u
    BY <1>1, NodeFound DEF NodesAreFound, IInv, ThreadBook
  <2>2. node'[n].lock = node[n].lock /\ node'[n].next = node[n].next
    BY <2>1 DEF Leaves
  <2>3. CASE n # h
    BY <2>1, <2>2, <2>3 DEF Leaves, NodeSpared
  <2>4. CASE n = h
    <3>1. n # NoNode
      BY <2>1, NoNodeIsNoNode
    <3>2. PICK v \in Threads \ {t} : WaitLock(v) = l /\ h = UsedNode(v, l)
                                  /\ (watch[v] # {} => doomed'[v])
      BY <2>4, <3>1
    <3>3. l \in NodeLocks(v)
      BY <1>1, <3>2 DEF NodeLocks
    <3>4. v = u /\ n \in Range(used[u])
      BY <2>1, <2>4, <3>2, <3>3, NodeFound DEF NodesAreFound, IInv, ThreadBook
    <3> QED
      BY <2>2, <3>2, <3>4 DEF NodeSpared
  <2> QED
    BY <2>3, <2>4
<1>3. ThreadBook(t)'
  <2>1. CallBook(t)'
    <3>1. Owned(t)' \subseteq Locks
      BY DEF QueueTypeOK, ClientTypeOK, HtmTypeOK, Owned, Leaves, IInv
    <3> QED
      BY <3>1 DEF Leaves, CallBook
  <2> QED
    BY <1>1, <2>1 DEF ThreadBook
<1>4. ASSUME NEW v \in Threads, NEW k \in NodeLocks(v), v # t \/ k # l
      PROVE  /\ UsedNode(v, k) \in Nodes \ {m}
             /\ node'[UsedNode(v, k)].next = node[UsedNode(v, k)].next
             /\ node'[UsedNode(v, k)].lock = node[UsedNode(v, k)].lock
             /\ UsedNode(v, k) # h => node'[UsedNode(v, k)].wait = node[UsedNode(v, k)].wait
  <2>1. UsedNode(v, k) \in Nodes
    BY <1>4, NodeFound DEF NodesAreFound, IInv, ThreadBook
  <2>2. UsedNode(v, k) # UsedNode(t, l)
    <3>1. l \in NodeLocks(t)
      BY <1>1
    <3> SUFFICES ASSUME UsedNode(v, k) = UsedNode(t, l) PROVE v = t /\ k = l
      BY <1>4
    <3> QED
      BY ONLY IInv, t \in Threads, <1>4, <3>1, NodesDiffer, UsedNode(v, k) = UsedNode(t, l)
  <2> QED
    BY <1>1, <2>1, <2>2 DEF Leaves
<1>5. ASSUME NEW k \in NodeLocks(t) \ {l} PROVE UsedNode(t, k)' = UsedNode(t, k)
  <2>1. PICK n : n = UsedNode(t, k)
    OBVIOUS
  <2>2. n \in Range(used[t]) /\ node[n].lock = k
    BY <1>5, <2>1, NodeFound DEF NodesAreFound, IInv, ThreadBook
  <2>3. n # m /\ node'[n].lock = k /\ k \in NodeLocks(t)'
    BY <1>1, <1>4, <1>5, <2>1, <2>2
  <2>4. n \in Range(used'[t])
    <3>1. Range(used'[t]) = Range(used[t]) \ {m}
      BY LeavePool
    <3> QED
      BY <2>2, <2>3, <3>1
  <2>5. UsedNode(t, k)' = n
    BY <1>1, <2>3, <2>4, NodeFoundAfter DEF NodesAreFound
  <2> QED
    BY <2>1, <2>5
<1>6. ASSUME NEW k \in Locks \ {l} PROVE QueueBook(k)'
  <2>1. SameFor(t, k)
    <3>1. k \in NodeLocks(t) => /\ UsedNode(t, k)' = UsedNode(t, k)
                                /\ node'[UsedNode(t, k)].next = node[UsedNode(t, k)].next
      BY <1>4, <1>5
    <3> QED
      BY <1>1, <3>1 DEF SameFor, Leaves
  <2>2. ASSUME NEW u \in Threads \ {t}, k \in NodeLocks(u)
        PROVE  /\ node'[UsedNode(u, k)].next = node[UsedNode(u, k)].next
               /\ node'[UsedNode(u, k)].wait = node[UsedNode(u, k)].wait
    <3>1. UsedNode(u, k) # h
      <4> SUFFICES ASSUME UsedNode(u, k) = h PROVE FALSE
        OBVIOUS
      <4>1. PICK v \in Threads \ {t} : WaitLock(v) = l /\ h = UsedNode(v, l)
        BY <1>4, <2>2, NoNodeIsNoNode
      <4>2. l \in NodeLocks(v)
        BY <1>1, <4>1 DEF NodeLocks
      <4>3. UsedNode(u, k) = UsedNode(v, l)
        BY <4>1
      <4> QED
        <5>1. u = v /\ k = l
          BY ONLY IInv, <2>2, <4>2, <4>3, NodesDiffer, v \in Threads \ {t}
        <5> QED
          BY <1>6, <5>1
    <3> QED
      BY <1>4, <2>2, <3>1
  <2> QED
    BY <1>2, <2>1, <2>2, QueueSpared
<1> QED
  BY <1>2, <1>3, <1>4, <1>6
(* What t has given back is an F!Release, and all that it changes.          *)
LEMMA ReleaseFrame ==
  ASSUME IInv, NEW t \in Threads, McsTyped', OnlyMoves(t), OthersSpared(t),
         NEW l \in Locks, NEW m, NEW h, Leaves(t, l, m, h), UNCHANGED line
  PROVE  /\ FifoStep /\ Unheld(l)' /\ l \in NodeLocks(t) /\ t \notin Range(line[l])
         /\ \A v \in Threads : WaitLock(v)' = WaitLock(v)
         /\ \A v \in Threads \ {t} : l \notin Owned(v)
<1>1. \A v \in Threads \ {t} : Owned(v)' = Owned(v) /\ WaitLock(v)' = WaitLock(v)
  BY OthersKeep
<1>2. LineBook(l) /\ l \in Owned(t) /\ WaitLock(t) = Null /\ WaitLock(t)' = Null
      /\ Owned(t)' = Owned(t) \ {l} /\ l # Null
  BY DEF IInv, QueueBook, Leaves
<1>3. \A v \in Threads \ {t} : l \notin Owned(v)
  BY <1>2 DEF LineBook
<1>4. Unheld(l)'
  BY <1>1, <1>2, <1>3 DEF Unheld
<1>5. t \notin Range(line[l]) /\ l \in NodeLocks(t)
  BY <1>2 DEF LineBook, NodeLocks
<1>6. F!Release(t, l)
  <2>1. Holds' = [Holds EXCEPT ![t] = @ \ {l}]
    BY <1>1, <1>2 DEF Holds
  <2> QED
    BY <1>2, <2>1 DEF F!Release, Holds
<1> QED
  BY <1>1, <1>2, <1>3, <1>4, <1>5, <1>6 DEF FifoStep, F!Next

(* t leaves l, and nobody waits for it.                                     *)
LEMMA LeaveEmpty ==
  ASSUME IInv, NEW t \in Threads, QueueTypeOK', McsTyped', OnlyMoves(t), SpecBook(t)',
         NEW l \in Locks, NEW m, Leaves(t, l, m, NoNode), tail[l] = m,
         UNCHANGED line, tail' = [tail EXCEPT ![l] = NoNode]
  PROVE  IInv' /\ FifoStep
<1>1. tail'[l] = NoNode /\ \A k \in Locks \ {l} : tail'[k] = tail[k]
  BY DEF IInv, QueueTypeOK
<1>2. OthersSpared(t) /\ ThreadBook(t)' /\ \A k \in Locks \ {l} : QueueBook(k)'
  BY <1>1, LeaveFrame
<1>3. /\ FifoStep /\ Unheld(l)' /\ l \in NodeLocks(t) /\ t \notin Range(line[l])
      /\ \A v \in Threads : WaitLock(v)' = WaitLock(v)
      /\ \A v \in Threads \ {t} : l \notin Owned(v)
  BY <1>2, ReleaseFrame
<1>4. line[l] = <<>>
  <2> SUFFICES ASSUME line[l] # <<>> PROVE FALSE
    OBVIOUS
  <2>1. PICK v \in Threads : v = Last(line[l]) /\ v \in Range(line[l]) /\ l \in NodeLocks(v)
    BY InLine
  <2>2. tail[l] = UsedNode(v, l) /\ tail[l] = UsedNode(t, l)
    BY <2>1 DEF IInv, QueueBook, TailBook, Leaves
  <2>3. v = t
    BY <1>3, <2>1, <2>2, NodesDiffer
  <2> QED
    BY <1>3, <2>1, <2>3
<1>5. LineBook(l)'
  <2>1. Range(<<>>) = {} /\ IsInjective(<<>>) /\ line'[l] = <<>>
    BY <1>4, Singleton
  <2>2. \A u \in Threads : WaitLock(u)' # l
    <3>1. \A u \in Threads : u \in Range(line[l]) <=> WaitLock(u) = l
      BY DEF IInv, QueueBook, LineBook
    <3> QED
      BY <1>3, <1>4, <2>1, <3>1
  <2>3. \A u \in Threads : l \notin Owned(u)'
    BY <1>3 DEF Unheld
  <2> QED
    BY <2>1, <2>2, <2>3 DEF LineBook
<1>6. TailBook(l)'
  BY <1>1, <1>3, <1>4 DEF TailBook, Unheld
<1>7. LinkBook(l)'
  <2>1. line'[l] = <<>> /\ Len(line[l])' = 0
    BY <1>4
  <2> QED
    BY <2>1 DEF LinkBook
<1> QED
  BY <1>2, <1>3, <1>5, <1>6, <1>7, BooksKept DEF QueueBook

(* The node behind that of the holder is the node of the first in line.     *)
LEMMA Heir ==
  ASSUME IInv, NEW t \in Threads, NEW l \in Locks, l \in Owned(t), WaitLock(t) # l,
         node[UsedNode(t, l)].next # NoNode
  PROVE  /\ line[l] # <<>> /\ line[l][1] \in Threads \ {t} /\ WaitLock(line[l][1]) = l
         /\ pc[line[l][1]] # "link"
         /\ node[UsedNode(t, l)].next = UsedNode(line[l][1], l)
         /\ node[UsedNode(t, l)].next = mine[line[l][1]]
<1>1. TailBook(l) /\ LinkBook(l)
  BY DEF IInv, QueueBook
<1>2. line[l] # <<>>
  <2> SUFFICES ASSUME line[l] = <<>> PROVE FALSE
    OBVIOUS
  <2>1. tail[l] = UsedNode(t, l)
    BY <1>1 DEF TailBook
  <2>2. UsedNode(t, l) # NoNode
    <3>1. l \in NodeLocks(t)
      BY DEF NodeLocks
    <3> QED
      BY <3>1, NodeFound, NoNodeIsNoNode DEF NodesAreFound, IInv, ThreadBook
  <2> QED
    BY <1>1, <2>1, <2>2 DEF TailBook
<1>3. PICK v \in Threads : v = line[l][1] /\ WaitLock(v) = l
  BY <1>2, InLine
<1>4. Linked(UsedNode(t, l), v, l)
  BY <1>1, <1>2, <1>3 DEF LinkBook
<1>5. pc[v] # "link" /\ node[UsedNode(t, l)].next = UsedNode(v, l)
  BY <1>4 DEF Linked
<1>6. mine[v] = UsedNode(v, l)
  BY <1>3 DEF IInv, ThreadBook, CallBook
<1> QED
  BY <1>2, <1>3, <1>5, <1>6

(* t leaves l, and tells the first in line to go on.                        *)
LEMMA LeaveToHeir ==
  ASSUME IInv, NEW t \in Threads, QueueTypeOK', McsTyped', OnlyMoves(t), SpecBook(t)',
         NEW l \in Locks, NEW m, NEW h, Leaves(t, l, m, h), node[m].next = h, h # NoNode,
         \A v \in Threads : mine[v] = h /\ watch[v] # {} => doomed'[v],
         UNCHANGED <<tail, line>>
  PROVE  IInv' /\ FifoStep
<1>q. PICK q : q = line[l]
  OBVIOUS
<1> USE <1>q
<1>1. PICK v \in Threads \ {t} :
        /\ q # <<>> /\ v = q[1] /\ WaitLock(v) = l /\ pc[v] # "link"
        /\ h = UsedNode(v, l) /\ h = mine[v]
  BY Heir DEF Leaves
<1>2. /\ OthersSpared(t) /\ ThreadBook(t)' /\ \A k \in Locks \ {l} : QueueBook(k)'
      /\ \A u \in Threads \ {t} : l \in NodeLocks(u) =>
           /\ UsedNode(u, l) \in Nodes \ {m}
           /\ node'[UsedNode(u, l)].next = node[UsedNode(u, l)].next
           /\ UsedNode(u, l) # h => node'[UsedNode(u, l)].wait = node[UsedNode(u, l)].wait
  <2>1. \E u \in Threads \ {t} : WaitLock(u) = l /\ h = UsedNode(u, l)
                              /\ (watch[u] # {} => doomed'[u])
    BY <1>1
  <2> QED
    BY <2>1, LeaveFrame
<1>3. /\ FifoStep /\ Unheld(l)' /\ l \in NodeLocks(t) /\ t \notin Range(q)
      /\ \A u \in Threads : WaitLock(u)' = WaitLock(u)
      /\ \A u \in Threads \ {t} : l \notin Owned(u)
  BY <1>2, ReleaseFrame
<1>4. LineBook(l) /\ TailBook(l) /\ LinkBook(l) /\ Len(q) \in Nat
  BY InLine DEF IInv, QueueBook
<1>5. \A i \in 1 .. Len(q) : q[i] \in Threads \ {t} /\ WaitLock(q[i]) = l
                             /\ l \in NodeLocks(q[i])
  <2>1. \A i \in 1 .. Len(q) : /\ q[i] \in Threads /\ q[i] \in Range(q)
                             /\ WaitLock(q[i]) = l /\ l \in NodeLocks(q[i])
    BY InLine
  <2> QED
    BY <1>3, <2>1
<1>6. \A u \in Range(q) : u \in Threads \ {t} /\ l \in NodeLocks(u)
  BY <1>3, InLine
<1>7. ASSUME NEW u \in Threads \ {t}, l \in NodeLocks(u)
      PROVE  /\ UsedNode(u, l)' = UsedNode(u, l) /\ pc'[u] = pc[u] /\ ptr'[u] = ptr[u]
             /\ node'[UsedNode(u, l)].next = node[UsedNode(u, l)].next
             /\ u # v => node'[UsedNode(u, l)].wait = node[UsedNode(u, l)].wait
  <2>1. UsedNode(u, l) = h => u = v
    <3>1. l \in NodeLocks(v)
      BY <1>1 DEF NodeLocks
    <3> SUFFICES ASSUME UsedNode(u, l) = UsedNode(v, l) PROVE u = v
      BY <1>1
    <3> QED
      BY ONLY IInv, u \in Threads \ {t}, v \in Threads \ {t}, <1>7, <3>1, NodesDiffer,
              UsedNode(u, l) = UsedNode(v, l)
  <2> QED
    BY <1>2, <1>7, <2>1, OthersKeep DEF OnlyMoves
<1>8. LineBook(l)'
  <2>1. ASSUME NEW u \in Range(q), GoesOn(u, l)' PROVE u = v
    <3> SUFFICES ASSUME u # v PROVE FALSE
      OBVIOUS
    <3>1. PICK n : n = UsedNode(u, l)
      OBVIOUS
    <3>2. UsedNode(u, l)' = n /\ node'[n].wait = node[n].wait /\ pc'[u] = pc[u]
      BY <1>6, <1>7, <3>1
    <3>3. GoesOn(u, l)
      BY <2>1, <3>1, <3>2 DEF GoesOn
    <3>4. Unheld(l)
      BY <1>4, <3>3 DEF LineBook
    <3> QED
      BY <3>4 DEF Unheld, Leaves
  <2>2. pc'[v] # "link"
    BY <1>1 DEF OnlyMoves
  <2>3. \A u \in Threads : l \notin Owned(u)'
    BY <1>3 DEF Unheld
  <2>4. \A u \in Threads : u \in Range(q) <=> WaitLock(u)' = l
    BY <1>3, <1>4 DEF LineBook
  <2>5. IsInjective(q) /\ line'[l] = q
    BY <1>4 DEF LineBook
  <2> QED
    BY <1>1, <1>3, <2>1, <2>2, <2>3, <2>4, <2>5 DEF LineBook
<1>9. TailBook(l)'
  <2>1. PICK u \in Threads \ {t} : u = Last(q) /\ l \in NodeLocks(u)
    BY <1>1, <1>6, InLine
  <2>2. tail[l] = UsedNode(u, l) /\ tail[l] # NoNode
    BY <1>1, <1>2, <1>4, <2>1, NoNodeIsNoNode DEF TailBook
  <2>3. UsedNode(u, l)' = tail[l] /\ node'[tail[l]].next = NoNode
    BY <1>4, <1>7, <2>1, <2>2 DEF TailBook
  <2>4. Last(line[l])' = u
    BY <2>1 DEF Last
  <2>5. tail'[l] = UsedNode(Last(line[l]), l)'
    BY ONLY <2>3, <2>4, UNCHANGED <<tail, line>> DEF UsedNode
  <2> QED
    BY <1>1, <2>3, <2>5 DEF TailBook
<1>10. LinkBook(l)'
  <2>1. ASSUME NEW i \in 1 .. Len(q) - 1 PROVE Linked(UsedNode(q[i], l), q[i + 1], l)'
    <3>1. i \in 1 .. Len(q) /\ i + 1 \in 1 .. Len(q)
      BY <1>4
    <3>2. PICK u \in Threads \ {t}, w \in Threads \ {t} :
            u = q[i] /\ w = q[i + 1] /\ l \in NodeLocks(u) /\ l \in NodeLocks(w)
      BY <1>5, <3>1
    <3>3. Linked(UsedNode(u, l), w, l)
      BY <1>4, <3>2 DEF LinkBook
    <3>4. Linked(UsedNode(u, l), w, l)'
      BY <1>7, <3>2, <3>3, LinkKept
    <3> QED
      BY <3>2, <3>4
  <2>2. \A u \in Threads : l \notin Owned(u)'
    BY <1>3 DEF Unheld
  <2> QED
    BY <2>1, <2>2, LinksAre
<1>11. IInv'
  BY <1>2, <1>8, <1>9, <1>10, BooksKept DEF QueueBook
<1> QED
  BY <1>3, <1>11
-----------------------------------------------------------------------------
(***************************************************************************)
(* The actions, each as a step of one of these kinds.                       *)
(***************************************************************************)
LEMMA Typed ==
  ASSUME IInv, NEW t \in Threads, OnlyMoves(t), ClientTypeOK(McsLabels)', HtmTypeOK',
         tail' \in [Locks -> Nodes \cup {NoNode}], now_serving' \in [Locks -> Nat],
         node' \in [Nodes -> NodeType], McsTyped',
         \A n \in Range(free'[t]) \cup Range(used'[t]) : n \in Nodes /\ Owner(n) = t
  PROVE  QueueTypeOK'
<1>1. \A u \in Threads : \A n \in Range(free'[u]) \cup Range(used'[u]) : n \in Nodes /\ Owner(n) = u
  BY DEF IInv, QueueTypeOK, OnlyMoves
<1>2. /\ \A u \in Threads : mine'[u] \in Nodes \cup {NoNode} /\ ptr'[u] \in Nodes \cup {NoNode}
                            /\ num'[u] \in Nat
      /\ \A l \in Locks : line'[l] \in Seq(Threads)
  BY DEF McsTyped
<1>3. using' \in McsTypes
  BY DEF OnlyMoves, IInv, QueueTypeOK
<1> QED
  BY <1>1, <1>2, <1>3 DEF QueueTypeOK, NodeType

LEMMA CalmTyped ==
  ASSUME IInv, NEW t \in Threads, OnlyMoves(t), ClientTypeOK(McsLabels)', HtmTypeOK',
         UNCHANGED <<tail, line, free, used>>, now_serving' \in [Locks -> Nat],
         node' \in [Nodes -> NodeType],
         mine' \in [Threads -> Nodes \cup {NoNode}], ptr' \in [Threads -> Nodes \cup {NoNode}],
         num' \in [Threads -> Nat]
  PROVE  QueueTypeOK' /\ McsTyped'
<1>1. McsTyped'
  BY DEF IInv, McsTyped
<1>2. \A n \in Range(free'[t]) \cup Range(used'[t]) : n \in Nodes /\ Owner(n) = t
  BY DEF IInv, QueueTypeOK
<1>3. tail' \in [Locks -> Nodes \cup {NoNode}]
  BY DEF IInv, QueueTypeOK
<1> QED
  BY <1>1, <1>2, <1>3, Typed

(* A thread that does not speculate.                                       *)
LEMMA Outside ==
  ASSUME IInv, NEW t \in Threads, pc[t] \notin {"client", "check"} \/ spec_entry[t] = Null
  PROVE  /\ ~InTx(t) /\ Owned(t) = held[t] /\ held[t] \subseteq Locks
         /\ WaitLock(t) = IF pc[t] \in WaitLabels THEN lk[t] ELSE Null
         /\ pc[t] # "client" => lk[t] \in Locks /\ lk[t] # Null
<1>1. SpecBook(t) /\ CallBook(t) /\ held[t] \subseteq Locks
  BY DEF IInv, ThreadBook, QueueTypeOK, ClientTypeOK
<1>2. ~InTx(t)
  BY <1>1 DEF SpecBook
<1> QED
  BY <1>1, <1>2 DEF CallBook, Owned, WaitLock

LEMMA OutsideAfter ==
  ASSUME NEW t \in Threads, ~InTx(t)'
  PROVE  /\ Owned(t)' = held'[t]
         /\ WaitLock(t)' = IF pc'[t] \in WaitLabels THEN lk'[t] ELSE Null
BY DEF Owned, WaitLock

(* A call goes on at another label.                                        *)
LEMMA GotoStep ==
  ASSUME IInv, NEW t \in Threads,
         pc[t] \notin {"client", "check", "abort", "link", "swap", "try_swap"},
         NEW lab \in McsLabels \ {"check", "abort", "link", "swap", "try_swap"},
         pc' = [pc EXCEPT ![t] = lab],
         UNCHANGED <<using, lk, held, spec_entry, tries, depth, saved, watch>>,
         doomed' \in [Threads -> BOOLEAN], \A u \in Threads : doomed[u] => doomed'[u],
         UNCHANGED <<tail, now_serving, line, free, used, mine>>,
         node' \in [Nodes -> NodeType], \A n \in Nodes : CalmNode(n),
         ptr' \in [Threads -> Nodes \cup {NoNode}], \A u \in Threads \ {t} : ptr'[u] = ptr[u],
         num' \in [Threads -> Nat],
         lab \in WaitLabels <=> pc[t] \in WaitLabels,
         lab \in {"count", "serve"} => pc[t] \in {"count", "serve"},
         lab \in {"predcnt", "getcnt"} => ptr'[t] # NoNode,
         lab \in {"next", "cas", "arriver", "halt", "wake"} =>
           pc[t] \in {"next", "cas", "arriver", "halt", "wake"},
         lab \in {"halt", "wake"} => node[mine[t]].next # NoNode
  PROVE  IInv' /\ FifoStep
<1>1. /\ ~InTx(t) /\ Owned(t) = held[t] /\ lk[t] \in Locks /\ lk[t] # Null
      /\ WaitLock(t) = IF pc[t] \in WaitLabels THEN lk[t] ELSE Null
  BY Outside
<1>2. SpecBook(t) /\ CallBook(t) /\ QueueTypeOK /\ McsTyped
  BY DEF IInv, ThreadBook
<1>3. pc'[t] = lab /\ \A u \in Threads \ {t} : pc'[u] = pc[u]
  BY <1>2 DEF QueueTypeOK, ClientTypeOK
<1>4. OnlyMoves(t)
  BY <1>3 DEF OnlyMoves
<1>5. ClientTypeOK(McsLabels)'
  BY <1>2 DEF QueueTypeOK, ClientTypeOK
<1>6. HtmTypeOK'
  BY <1>2 DEF QueueTypeOK, HtmTypeOK
<1>7. QueueTypeOK' /\ McsTyped'
  <2>1. now_serving' \in [Locks -> Nat] /\ mine' \in [Threads -> Nodes \cup {NoNode}]
    BY <1>2 DEF QueueTypeOK, McsTyped
  <2> QED
    BY <1>4, <1>5, <1>6, <2>1, CalmTyped
<1>8. ~InTx(t)'
  BY <1>1 DEF InTx
<1>9. SpecBook(t)'
  BY <1>1, <1>2, <1>3, <1>8 DEF SpecBook
<1>10. Owned(t)' = Owned(t) /\ WaitLock(t)' = WaitLock(t)
  BY <1>1, <1>3, <1>8, OutsideAfter
<1>11. ASSUME pc'[t] \in {"next", "cas", "arriver", "halt", "wake"}
       PROVE  /\ \E l \in held'[t] : l \in NodeLocks(t) /\ lk'[t] = l /\ mine'[t] = UsedNode(t, l)
              /\ mine'[t] \in Nodes
  <2>1. lk[t] \in held[t] /\ mine[t] = UsedNode(t, lk[t]) /\ lk[t] \in NodeLocks(t)
    BY <1>1, <1>2, <1>3, <1>11 DEF CallBook, NodeLocks
  <2>2. mine[t] \in Nodes
    BY <2>1, NodeFound DEF NodesAreFound, IInv, ThreadBook
  <2> QED
    BY <2>1, <2>2
<1> QED
  BY <1>1, <1>3, <1>4, <1>7, <1>9, <1>10, <1>11, CalmStep
Books(t) == QueueTypeOK /\ McsTyped /\ SpecBook(t) /\ CallBook(t) /\ PoolBook(t)

LEMMA HasBooks ==
  ASSUME IInv, NEW t \in Threads
  PROVE  Books(t) /\ node \in [Nodes -> NodeType]
BY NodesTyped DEF IInv, ThreadBook, Books

(* The node of the call in progress.                                       *)
LEMMA MineIs ==
  ASSUME IInv, NEW t \in Threads,
         pc[t] \in {"link", "predcnt", "getcnt", "window", "begin", "abort", "await", "count",
                    "serve", "failed", "next", "cas", "arriver", "halt", "wake"}
  PROVE  /\ mine[t] = UsedNode(t, lk[t]) /\ mine[t] \in Nodes /\ lk[t] \in NodeLocks(t)
         /\ ~InTx(t) /\ lk[t] \in Locks /\ lk[t] # Null /\ Owned(t) = held[t]
         /\ pc[t] \in WaitLabels => WaitLock(t) = lk[t]
         /\ pc[t] \notin WaitLabels => WaitLock(t) = Null /\ lk[t] \in held[t]
<1>1. /\ ~InTx(t) /\ Owned(t) = held[t] /\ lk[t] \in Locks /\ lk[t] # Null
      /\ WaitLock(t) = IF pc[t] \in WaitLabels THEN lk[t] ELSE Null
  BY Outside
<1>2. pc[t] \notin WaitLabels => pc[t] \in {"next", "cas", "arriver", "halt", "wake"}
  BY DEF WaitLabels
<1>3. mine[t] = UsedNode(t, lk[t]) /\ lk[t] \in NodeLocks(t)
      /\ (pc[t] \notin WaitLabels => lk[t] \in held[t])
  BY <1>1, <1>2, HasBooks DEF Books, CallBook, NodeLocks
<1>4. mine[t] \in Nodes
  BY <1>3, NodeFound DEF NodesAreFound, IInv, ThreadBook
<1> QED
  BY <1>1, <1>3, <1>4

LEMMA SuccessorTyped ==
  ASSUME IInv, NEW n \in Nodes
  PROVE  node[n].next \in Nodes \cup {NoNode} /\ node[n].cnt \in Nat
BY NodesTyped DEF IInv, NodeType

(* A field that no other thread waits for.                                 *)
LEMMA CalmField ==
  ASSUME IInv, NEW p \in Nodes
  PROVE  /\ \A c : node' = [node EXCEPT ![p].cnt = c] => \A n \in Nodes : CalmNode(n)
         /\ node' = [node EXCEPT ![p].speculate = FALSE] => \A n \in Nodes : CalmNode(n)
<1>1. node \in [Nodes -> NodeType]
  BY NodesTyped DEF IInv
<1> QED
  BY <1>1 DEF CalmNode, NodeType

LEMMA AwaitCountStep ==
  ASSUME IInv, NEW t \in Threads, UNCHANGED using, AwaitCount(t)
  PROVE  IInv' /\ FifoStep
<1>1. Books(t) /\ node \in [Nodes -> NodeType]
  BY HasBooks
<1>2. /\ pc[t] = "predcnt" /\ pc' = [pc EXCEPT ![t] = "getcnt"]
      /\ UNCHANGED <<using, lk, held, spec_entry, tries, depth, saved, watch, doomed>>
      /\ UNCHANGED <<tail, now_serving, line, free, used, mine, node, ptr, num>>
  BY DEF AwaitCount, Goto, mcsVars, listVars, htmVars
<1>3. ptr[t] # NoNode
  BY <1>1, <1>2 DEF Books, CallBook
<1> QED
  BY <1>1, <1>2, <1>3, GotoStep
  DEF Books, QueueTypeOK, HtmTypeOK, McsTyped, CalmNode, WaitLabels, McsLabels

LEMMA GetCountStep ==
  ASSUME IInv, NEW t \in Threads, UNCHANGED using, GetCount(t)
  PROVE  IInv' /\ FifoStep
<1>1. Books(t) /\ node \in [Nodes -> NodeType]
  BY HasBooks
<1> DEFINE cnt == node[ptr[t]].cnt + 1
<1>2. /\ pc[t] = "getcnt" /\ pc' = [pc EXCEPT ![t] = "window"]
      /\ UNCHANGED <<using, lk, held, spec_entry, tries, depth, saved, watch, doomed>>
      /\ UNCHANGED <<tail, now_serving, line, free, used, mine>>
      /\ node' = [node EXCEPT ![mine[t]].cnt = cnt]
      /\ ptr' = [ptr EXCEPT ![t] = NoNode] /\ num' = [num EXCEPT ![t] = cnt]
  BY DEF GetCount, Goto, listVars, htmVars
<1>3. mine[t] \in Nodes
  BY <1>2, MineIs
<1>4. cnt \in Nat
  <2>1. ptr[t] \in Nodes
    BY <1>1, <1>2 DEF Books, CallBook, McsTyped
  <2> QED
    BY <2>1, SuccessorTyped
<1> HIDE DEF cnt
<1>5. node' \in [Nodes -> NodeType] /\ \A n \in Nodes : CalmNode(n)
  BY <1>1, <1>2, <1>3, <1>4, SetField, CalmField
<1>6. /\ ptr' \in [Threads -> Nodes \cup {NoNode}] /\ \A u \in Threads \ {t} : ptr'[u] = ptr[u]
      /\ num' \in [Threads -> Nat] /\ doomed' \in [Threads -> BOOLEAN]
  BY <1>1, <1>2, <1>4 DEF Books, QueueTypeOK, HtmTypeOK, McsTyped
<1> QED
  BY <1>2, <1>5, <1>6, GotoStep DEF WaitLabels, McsLabels

LEMMA WindowStep ==
  ASSUME IInv, NEW t \in Threads, UNCHANGED using, Window(t)
  PROVE  IInv' /\ FifoStep
<1>1. Books(t) /\ node \in [Nodes -> NodeType]
  BY HasBooks
<1>2. PICK lab \in {"begin", "await"} :
        /\ pc[t] = "window" /\ pc' = [pc EXCEPT ![t] = lab]
        /\ UNCHANGED <<using, lk, held, spec_entry, tries, depth, saved, watch, doomed>>
        /\ UNCHANGED <<tail, now_serving, line, free, used, mine, node, ptr, num>>
  BY DEF Window, Goto, mcsVars, listVars, htmVars
<1> QED
  BY <1>1, <1>2, GotoStep
  DEF Books, QueueTypeOK, HtmTypeOK, McsTyped, CalmNode, WaitLabels, McsLabels

LEMMA CountStep ==
  ASSUME IInv, NEW t \in Threads, UNCHANGED using, Count(t)
  PROVE  IInv' /\ FifoStep
<1>1. Books(t) /\ node \in [Nodes -> NodeType]
  BY HasBooks
<1> DEFINE cnt == now_serving[lk[t]] + 1
<1>2. /\ pc[t] = "count" /\ pc' = [pc EXCEPT ![t] = "serve"]
      /\ UNCHANGED <<using, lk, held, spec_entry, tries, depth, saved, watch, doomed>>
      /\ UNCHANGED <<tail, now_serving, line, free, used, mine, ptr, num>>
      /\ node' = [node EXCEPT ![mine[t]].cnt = cnt]
  BY DEF Count, Goto, listVars, htmVars
<1>3. mine[t] \in Nodes /\ lk[t] \in Locks
  BY <1>2, MineIs
<1>4. cnt \in Nat
  <2>1. now_serving \in [Locks -> Nat]
    BY <1>1 DEF Books, QueueTypeOK
  <2>2. now_serving[lk[t]] \in Nat
    BY ONLY <1>3, <2>1
  <2> QED
    BY ONLY <2>2
<1> HIDE DEF cnt
<1>5. node' \in [Nodes -> NodeType] /\ \A n \in Nodes : CalmNode(n)
  BY <1>1, <1>2, <1>3, <1>4, SetField, CalmField
<1> QED
  BY <1>1, <1>2, <1>5, GotoStep DEF Books, QueueTypeOK, HtmTypeOK, McsTyped, WaitLabels, McsLabels

(* The assertion of the lock call fails.                                    *)
LEMMA AwaitFailedStep ==
  ASSUME IInv, NEW t \in Threads, UNCHANGED using, pc[t] = "await", Goto(t, "failed"),
         UNCHANGED <<mcsVars, htmVars>>
  PROVE  IInv' /\ FifoStep
<1>1. Books(t) /\ node \in [Nodes -> NodeType]
  BY HasBooks
<1>2. /\ pc' = [pc EXCEPT ![t] = "failed"]
      /\ UNCHANGED <<using, lk, held, spec_entry, tries, depth, saved, watch, doomed>>
      /\ UNCHANGED <<tail, now_serving, line, free, used, mine, node, ptr, num>>
  BY DEF Goto, mcsVars, listVars, htmVars
<1> QED
  BY <1>1, <1>2, GotoStep
  DEF Books, QueueTypeOK, HtmTypeOK, McsTyped, CalmNode, WaitLabels, McsLabels

(* The unlock finds a node behind its own.                                  *)
LEMMA SucceedStep ==
  ASSUME IInv, NEW t \in Threads, UNCHANGED using, pc[t] \in {"next", "arriver"},
         node[mine[t]].next # NoNode, Succeed(t)
  PROVE  IInv' /\ FifoStep
<1>1. Books(t) /\ node \in [Nodes -> NodeType]
  BY HasBooks
<1>2. PICK lab \in {"halt", "wake"} :
        /\ pc' = [pc EXCEPT ![t] = lab]
        /\ UNCHANGED <<using, lk, held, spec_entry, tries, depth, saved, watch, doomed>>
        /\ UNCHANGED <<tail, now_serving, line, free, used, mine, node>>
        /\ ptr' = [ptr EXCEPT ![t] = node[mine[t]].next] /\ num' = [num EXCEPT ![t] = 1]
  BY DEF Succeed, Goto, listVars, htmVars
<1>3. node[mine[t]].next \in Nodes \cup {NoNode}
  BY MineIs, SuccessorTyped
<1>4. /\ ptr' \in [Threads -> Nodes \cup {NoNode}] /\ \A u \in Threads \ {t} : ptr'[u] = ptr[u]
      /\ num' \in [Threads -> Nat] /\ doomed' \in [Threads -> BOOLEAN]
  BY <1>1, <1>2, <1>3 DEF Books, QueueTypeOK, HtmTypeOK, McsTyped
<1> QED
  BY <1>1, <1>2, <1>4, GotoStep DEF CalmNode, WaitLabels, McsLabels

LEMMA TestNextStep ==
  ASSUME IInv, NEW t \in Threads, UNCHANGED using, TestNext(t)
  PROVE  IInv' /\ FifoStep
<1>1. CASE node[mine[t]].next # NoNode /\ Succeed(t)
  BY <1>1, SucceedStep DEF TestNext
<1>2. CASE Goto(t, "cas") /\ UNCHANGED <<mcsVars, htmVars>>
  <2>1. Books(t) /\ node \in [Nodes -> NodeType]
    BY HasBooks
  <2>2. /\ pc[t] = "next" /\ pc' = [pc EXCEPT ![t] = "cas"]
        /\ UNCHANGED <<using, lk, held, spec_entry, tries, depth, saved, watch, doomed>>
        /\ UNCHANGED <<tail, now_serving, line, free, used, mine, node, ptr, num>>
    BY <1>2 DEF TestNext, Goto, mcsVars, listVars, htmVars
  <2> QED
    BY <2>1, <2>2, GotoStep
    DEF Books, QueueTypeOK, HtmTypeOK, McsTyped, CalmNode, WaitLabels, McsLabels
<1> QED
  BY <1>1, <1>2 DEF TestNext

LEMMA ArriverStep ==
  ASSUME IInv, NEW t \in Threads, UNCHANGED using, Arriver(t)
  PROVE  IInv' /\ FifoStep
BY SucceedStep DEF Arriver

LEMMA HaltStep ==
  ASSUME IInv, NEW t \in Threads, UNCHANGED using, Halt(t)
  PROVE  IInv' /\ FifoStep
<1>1. Books(t) /\ node \in [Nodes -> NodeType]
  BY HasBooks
<1>2. /\ pc[t] = "halt" /\ UNCHANGED <<using, lk, held>>
      /\ UNCHANGED <<tail, now_serving, line, free, used, mine>>
  BY DEF Halt, Goto, listVars, clientVars
<1>3. PICK lab \in {"halt", "wake"} : pc' = [pc EXCEPT ![t] = lab]
  <2>1. pc' = pc => pc' = [pc EXCEPT ![t] = "halt"]
    BY <1>1, <1>2 DEF Books, QueueTypeOK, ClientTypeOK
  <2> QED
    BY <2>1 DEF Halt, Goto, clientVars
<1>4. /\ ptr' \in [Threads -> Nodes \cup {NoNode}] /\ \A u \in Threads \ {t} : ptr'[u] = ptr[u]
      /\ num' \in [Threads -> Nat]
  <2>1. ptr[t] # NoNode => ptr[t] \in Nodes /\ node[ptr[t]].next \in Nodes \cup {NoNode}
    BY <1>1, SuccessorTyped DEF Books, McsTyped
  <2>2. ptr \in [Threads -> Nodes \cup {NoNode}] /\ num \in [Threads -> Nat]
    BY <1>1 DEF Books, McsTyped
  <2>3. CASE UNCHANGED <<ptr, num>>
    BY <2>2, <2>3
  <2>4. CASE /\ ptr[t] # NoNode /\ ptr' = [ptr EXCEPT ![t] = node[ptr[t]].next]
             /\ num' = [num EXCEPT ![t] = @ + 1]
    <3>1. num[t] + 1 \in Nat
      BY <2>2
    <3> QED
      BY <2>1, <2>2, <2>4, <3>1
  <2> QED
    BY <2>3, <2>4 DEF Halt
<1>5. /\ UNCHANGED <<spec_entry, tries, depth, saved, watch>>
      /\ doomed' \in [Threads -> BOOLEAN] /\ \A u \in Threads : doomed[u] => doomed'[u]
  BY <1>1 DEF Halt, DoomWaiter, htmVars, Books, QueueTypeOK, HtmTypeOK
<1>6. node' \in [Nodes -> NodeType] /\ \A n \in Nodes : CalmNode(n)
  <2>1. CASE ptr[t] # NoNode /\ node' = [node EXCEPT ![ptr[t]].speculate = FALSE]
    <3>1. ptr[t] \in Nodes
      BY <1>1, <2>1 DEF Books, McsTyped
    <3> QED
      BY <1>1, <2>1, <3>1, SetField, CalmField
  <2>2. CASE UNCHANGED node
    BY <1>1, <2>2 DEF CalmNode
  <2> QED
    BY <2>1, <2>2 DEF Halt
<1>7. node[mine[t]].next # NoNode
  BY <1>1, <1>2 DEF Books, CallBook
<1>8. now_serving' = now_serving
  BY DEF Halt
<1> QED
  BY <1>2, <1>3, <1>4, <1>5, <1>6, <1>7, <1>8, GotoStep DEF WaitLabels, McsLabels
(* An action that leaves the queues and the nodes alone.                    *)
LEMMA AloneStep ==
  ASSUME IInv, NEW t \in Threads, UNCHANGED using, OnlyMoves(t),
         ClientTypeOK(McsLabels)', HtmTypeOK', SpecBook(t)',
         UNCHANGED <<tail, now_serving, line, free, used, node, ptr, num>>,
         mine' \in [Threads -> Nodes \cup {NoNode}],
         Owned(t)' = Owned(t), WaitLock(t)' = WaitLock(t),
         WaitLock(t) # Null => pc[t] # "link" /\ mine'[t] = mine[t],
         pc'[t] \in {"client", "check", "abort", "await", "next"},
         pc'[t] # "client" => lk'[t] \in Locks,
         pc'[t] = "next" => \E l \in held'[t] : l \in NodeLocks(t) /\ lk'[t] = l
                                             /\ mine'[t] = UsedNode(t, l)
  PROVE  IInv' /\ FifoStep
<1>1. QueueTypeOK /\ McsTyped /\ node \in [Nodes -> NodeType]
  BY HasBooks DEF IInv
<1>2. QueueTypeOK' /\ McsTyped'
  <2>1. now_serving' \in [Locks -> Nat] /\ node' \in [Nodes -> NodeType]
        /\ ptr' \in [Threads -> Nodes \cup {NoNode}] /\ num' \in [Threads -> Nat]
    BY <1>1 DEF QueueTypeOK, McsTyped
  <2> QED
    BY <2>1, CalmTyped
<1>3. \A n \in Nodes : CalmNode(n)
  BY DEF CalmNode
<1> QED
  BY <1>2, <1>3, CalmStep

(* A call of a thread that speculates.                                      *)
LEMMA ElidedStep ==
  ASSUME IInv, NEW t \in Threads, UNCHANGED using, pc[t] = "client",
         NEW locks \in SUBSET Locks, Elided(t, locks), UNCHANGED mcsVars
  PROVE  IInv' /\ FifoStep
<1>1. Books(t)
  BY HasBooks
<1>2. /\ spec_entry[t] # Null /\ UNCHANGED <<pc, lk>> /\ held' = [held EXCEPT ![t] = locks]
      /\ UNCHANGED <<spec_entry, tries, depth, saved, watch, doomed>>
      /\ UNCHANGED <<tail, now_serving, line, free, used, mine, node, ptr, num>>
  BY DEF Elided, CallReturning, htmVars, mcsVars, listVars
<1>3. InTx(t)
  BY <1>1, <1>2 DEF Books, SpecBook
<1>4. Owned(t)' = Owned(t) /\ WaitLock(t)' = WaitLock(t)
  BY <1>2, <1>3 DEF Owned, WaitLock, InTx
<1>5. SpecBook(t)'
  BY <1>1, <1>2 DEF Books, SpecBook, InTx
<1>6. ClientTypeOK(McsLabels)' /\ HtmTypeOK' /\ OnlyMoves(t)
  BY <1>1, <1>2 DEF Books, QueueTypeOK, ClientTypeOK, HtmTypeOK, OnlyMoves
<1>7. mine' \in [Threads -> Nodes \cup {NoNode}] /\ pc'[t] = "client"
  BY <1>1, <1>2 DEF Books, McsTyped
<1> QED
  BY <1>2, <1>4, <1>5, <1>6, <1>7, AloneStep

(* The try-lock finds somebody in line.                                     *)
LEMMA RefusedStep ==
  ASSUME IInv, NEW t \in Threads, UNCHANGED using, pc[t] = "try_swap",
         Refused(t), mine' = [mine EXCEPT ![t] = NoNode],
         UNCHANGED <<tail, now_serving, node, listVars, ptr, num, line, htmVars>>
  PROVE  IInv' /\ FifoStep
<1>1. Books(t)
  BY HasBooks
<1>2. /\ pc' = [pc EXCEPT ![t] = "client"] /\ lk' = [lk EXCEPT ![t] = Null]
      /\ held' = [held EXCEPT ![t] = held[t]]
      /\ UNCHANGED <<spec_entry, tries, depth, saved, watch, doomed>>
      /\ UNCHANGED <<tail, now_serving, line, free, used, node, ptr, num>>
  BY DEF Refused, Return, htmVars, listVars
<1>3. ~InTx(t) /\ Owned(t) = held[t] /\ WaitLock(t) = Null
  BY Outside DEF WaitLabels
<1>4. /\ pc'[t] = "client" /\ held'[t] = held[t]
      /\ ClientTypeOK(McsLabels)' /\ HtmTypeOK' /\ OnlyMoves(t)
      /\ mine' \in [Threads -> Nodes \cup {NoNode}]
  BY <1>1, <1>2 DEF Books, QueueTypeOK, ClientTypeOK, HtmTypeOK, OnlyMoves, McsTyped
<1>5. ~InTx(t)'
  BY <1>2, <1>3 DEF InTx
<1>6. Owned(t)' = Owned(t) /\ WaitLock(t)' = WaitLock(t)
  BY <1>3, <1>4, <1>5, OutsideAfter DEF WaitLabels
<1>7. SpecBook(t)'
  BY <1>1, <1>2, <1>3, <1>4, <1>5 DEF Books, SpecBook
<1> QED
  BY <1>2, <1>3, <1>4, <1>6, <1>7, AloneStep

LEMMA UnlockStep ==
  ASSUME IInv, NEW t \in Threads, UNCHANGED using, NEW l \in Locks, mcs_unlock(t, l)
  PROVE  IInv' /\ FifoStep
<1>1. Books(t) /\ pc[t] = "client" /\ l \in held[t] /\ held[t] \subseteq Locks
  BY HasBooks DEF mcs_unlock, MayUnlock, Books, QueueTypeOK, ClientTypeOK
<1>2. CASE Elided(t, held[t] \ {l}) /\ UNCHANGED mcsVars
  <2>1. held[t] \ {l} \in SUBSET Locks
    BY <1>1
  <2> QED
    BY <1>1, <1>2, <2>1, ElidedStep
<1>3. CASE /\ spec_entry[t] = Null
           /\ mine' = [mine EXCEPT ![t] = UsedNode(t, l)]
           /\ Call(t, l, "next")
           /\ UNCHANGED <<tail, now_serving, node, listVars, ptr, num, line, htmVars>>
  <2>1. /\ pc' = [pc EXCEPT ![t] = "next"] /\ lk' = [lk EXCEPT ![t] = l] /\ held' = held
        /\ UNCHANGED <<spec_entry, tries, depth, saved, watch, doomed>>
        /\ UNCHANGED <<tail, now_serving, line, free, used, node, ptr, num>>
    BY <1>3 DEF Call, htmVars, listVars
  <2>2. ~InTx(t) /\ Owned(t) = held[t] /\ WaitLock(t) = Null
    BY <1>1, <1>3, Outside DEF WaitLabels
  <2>3. l \in NodeLocks(t) /\ UsedNode(t, l) \in Nodes
    <3>1. l \in NodeLocks(t)
      BY <1>1, <2>2 DEF NodeLocks
    <3> QED
      BY <3>1, NodeFound DEF NodesAreFound, IInv, ThreadBook
  <2>4. /\ pc'[t] = "next" /\ lk'[t] = l /\ mine'[t] = UsedNode(t, l)
        /\ mine' \in [Threads -> Nodes \cup {NoNode}]
    BY <1>1, <1>3, <2>1, <2>3 DEF Books, QueueTypeOK, ClientTypeOK, McsTyped
  <2>5. ClientTypeOK(McsLabels)' /\ HtmTypeOK'
    BY <1>1, <2>1 DEF Books, QueueTypeOK, ClientTypeOK, HtmTypeOK, McsLabels
  <2>6. OnlyMoves(t)
    BY <1>3, <2>1 DEF OnlyMoves
  <2>7. ~InTx(t)'
    BY <2>1, <2>2 DEF InTx
  <2>8. Owned(t)' = Owned(t) /\ WaitLock(t)' = WaitLock(t)
    BY <2>1, <2>2, <2>4, <2>7, OutsideAfter DEF WaitLabels
  <2>9. SpecBook(t)'
    BY <1>3, <2>1, <2>2, <2>4, <2>7 DEF SpecBook
  <2> QED
    BY <1>1, <2>1, <2>2, <2>3, <2>4, <2>5, <2>6, <2>8, <2>9, AloneStep
<1> QED
  BY <1>2, <1>3 DEF mcs_unlock

LEMMA BeginStep ==
  ASSUME IInv, NEW t \in Threads, UNCHANGED using, Begin(t)
  PROVE  IInv' /\ FifoStep
<1>1. Books(t)
  BY HasBooks
<1>2. PICK lab \in {"check", "abort"} :
        /\ pc[t] = "begin" /\ pc' = [pc EXCEPT ![t] = lab] /\ UNCHANGED <<lk, held>>
        /\ UNCHANGED <<tail, now_serving, line, free, used, mine, node, ptr, num>>
        /\ spec_entry' = [spec_entry EXCEPT ![t] = lk[t]]
        /\ UNCHANGED <<tries, watch, doomed>>
        /\ \/ lab = "check" /\ XBegin(t)
           \/ lab = "abort" /\ UNCHANGED <<depth, saved>>
  BY DEF Begin, EnterHtm, XBegin, Goto, hardwareVars, mcsVars, listVars
<1>3. /\ ~InTx(t) /\ Owned(t) = held[t] /\ WaitLock(t) = lk[t] /\ lk[t] \in Locks /\ lk[t] # Null
  BY <1>2, MineIs DEF WaitLabels
<1>4. /\ pc'[t] = lab /\ spec_entry'[t] = lk[t]
      /\ ClientTypeOK(McsLabels)' /\ mine' \in [Threads -> Nodes \cup {NoNode}]
  BY <1>1, <1>2, <1>3 DEF Books, QueueTypeOK, ClientTypeOK, HtmTypeOK, McsTyped, McsLabels
<1>5. CASE lab = "check" /\ XBegin(t)
  <2>1. /\ depth' = [depth EXCEPT ![t] = @ + 1]
        /\ saved' = [saved EXCEPT ![t] = [held |-> held[t], lk |-> lk[t], tries |-> tries[t]]]
    BY <1>3, <1>5 DEF XBegin
  <2>2. depth[t] \in Nat /\ depth'[t] = depth[t] + 1 /\ saved'[t].lk = lk[t]
        /\ saved'[t].held = held[t]
    BY <1>1, <2>1 DEF Books, QueueTypeOK, HtmTypeOK
  <2>3. InTx(t)'
    BY <2>2 DEF InTx
  <2>4. HtmTypeOK'
    <3>1. [held |-> held[t], lk |-> lk[t], tries |-> tries[t]]
             \in [held : SUBSET Locks, lk : Locks \cup {Null}, tries : Nat]
      BY <1>1 DEF Books, QueueTypeOK, ClientTypeOK, HtmTypeOK
    <3> QED
      BY <1>1, <1>2, <1>3, <2>1, <2>2, <3>1 DEF Books, QueueTypeOK, HtmTypeOK
  <2>5. OnlyMoves(t)
    BY <1>1, <1>2, <2>1 DEF OnlyMoves, Books, QueueTypeOK, HtmTypeOK
  <2>6. Owned(t)' = Owned(t) /\ WaitLock(t)' = WaitLock(t)
    BY <1>3, <2>2, <2>3 DEF Owned, WaitLock
  <2>7. SpecBook(t)'
    BY <1>2, <1>3, <1>4, <1>5, <2>2, <2>3 DEF SpecBook
  <2> QED
    BY <1>2, <1>3, <1>4, <1>5, <2>4, <2>5, <2>6, <2>7, AloneStep
<1>6. CASE lab = "abort" /\ UNCHANGED <<depth, saved>>
  <2>1. ~InTx(t)'
    BY <1>3, <1>6 DEF InTx
  <2>2. HtmTypeOK' /\ OnlyMoves(t)
    BY <1>1, <1>2, <1>3, <1>6 DEF Books, QueueTypeOK, HtmTypeOK, OnlyMoves
  <2>3. Owned(t)' = Owned(t) /\ WaitLock(t)' = WaitLock(t)
    BY <1>2, <1>3, <1>4, <1>6, <2>1, OutsideAfter DEF WaitLabels
  <2>4. SpecBook(t)'
    BY <1>3, <1>4, <1>6, <2>1 DEF SpecBook
  <2> QED
    BY <1>2, <1>3, <1>4, <1>6, <2>2, <2>3, <2>4, AloneStep
<1> QED
  BY <1>2, <1>5, <1>6

LEMMA AbortStep ==
  ASSUME IInv, NEW t \in Threads, UNCHANGED using, Abort(t), UNCHANGED mcsVars
  PROVE  IInv' /\ FifoStep
<1>1. Books(t) /\ InTx(t)
  BY HasBooks DEF Abort
<1>2. /\ pc' = [pc EXCEPT ![t] = "abort"] /\ lk' = [lk EXCEPT ![t] = saved[t].lk]
      /\ held' = [held EXCEPT ![t] = saved[t].held]
      /\ tries' = [tries EXCEPT ![t] = saved[t].tries] /\ UNCHANGED spec_entry
      /\ depth' = [depth EXCEPT ![t] = 0] /\ saved' = [saved EXCEPT ![t] = NoCheckpoint]
      /\ watch' = [watch EXCEPT ![t] = {}] /\ doomed' = [doomed EXCEPT ![t] = FALSE]
      /\ UNCHANGED <<tail, now_serving, line, free, used, mine, node, ptr, num>>
  BY DEF Abort, LeaveTx, mcsVars, listVars
<1>3. saved[t].lk \in Locks /\ saved[t].held \subseteq Locks /\ saved[t].tries \in Nat
      /\ spec_entry[t] # Null
  BY <1>1 DEF Books, SpecBook, QueueTypeOK, HtmTypeOK
<1>4. /\ pc'[t] = "abort" /\ lk'[t] = saved[t].lk /\ held'[t] = saved[t].held /\ depth'[t] = 0
      /\ mine' \in [Threads -> Nodes \cup {NoNode}]
  BY <1>1, <1>2 DEF Books, QueueTypeOK, ClientTypeOK, HtmTypeOK, McsTyped
<1>5. ClientTypeOK(McsLabels)'
  BY <1>1, <1>2, <1>3 DEF Books, QueueTypeOK, ClientTypeOK, McsLabels
<1>6. HtmTypeOK'
  BY <1>1, <1>2, <1>3 DEF Books, QueueTypeOK, HtmTypeOK, NoCheckpoint
<1>7. OnlyMoves(t)
  BY <1>1, <1>2 DEF OnlyMoves, Books, QueueTypeOK, ClientTypeOK, HtmTypeOK
<1>8. ~InTx(t)'
  BY <1>4 DEF InTx
<1>9. Owned(t)' = Owned(t) /\ WaitLock(t)' = WaitLock(t)
  <2>1. Owned(t) = saved[t].held /\ WaitLock(t) = saved[t].lk
    BY <1>1 DEF Owned, WaitLock
  <2> QED
    BY <1>4, <1>8, <2>1, OutsideAfter DEF WaitLabels
<1>10. SpecBook(t)'
  BY <1>2, <1>3, <1>4, <1>8 DEF SpecBook
<1>11. pc[t] # "link"
  BY <1>1 DEF Books, SpecBook
<1> QED
  BY <1>2, <1>3, <1>4, <1>5, <1>6, <1>7, <1>9, <1>10, <1>11, AloneStep

LEMMA CheckFlagsStep ==
  ASSUME IInv, NEW t \in Threads, UNCHANGED using, CheckFlags(t)
  PROVE  IInv' /\ FifoStep
<1>1. CASE Abort(t)
  BY <1>1, AbortStep DEF CheckFlags
<1>2. CASE /\ node[mine[t]].wait
           /\ Watch(t, lk[t]) /\ Acquired(t) /\ UNCHANGED <<spec_entry, tries>>
  <2>1. Books(t) /\ pc[t] = "check" /\ InTx(t) /\ lk[t] \in Locks
    BY HasBooks DEF CheckFlags, Books, SpecBook
  <2>2. /\ pc' = [pc EXCEPT ![t] = "client"] /\ lk' = [lk EXCEPT ![t] = Null]
        /\ held' = [held EXCEPT ![t] = held[t] \cup {lk[t]}]
        /\ watch' = [watch EXCEPT ![t] = @ \cup {lk[t]}]
        /\ UNCHANGED <<spec_entry, tries, depth, saved, doomed>>
        /\ UNCHANGED <<tail, now_serving, line, free, used, mine, node, ptr, num>>
    BY <1>2 DEF Acquired, Return, Watch, CheckFlags, mcsVars, listVars
  <2>3. /\ pc'[t] = "client" /\ lk[t] \in watch'[t]
        /\ mine' \in [Threads -> Nodes \cup {NoNode}]
    BY <2>1, <2>2 DEF Books, QueueTypeOK, ClientTypeOK, HtmTypeOK, McsTyped
  <2>4. ClientTypeOK(McsLabels)' /\ HtmTypeOK'
    BY <2>1, <2>2 DEF Books, QueueTypeOK, ClientTypeOK, HtmTypeOK
  <2>5. OnlyMoves(t)
    BY <2>2 DEF OnlyMoves
  <2>6. InTx(t)' /\ Owned(t)' = Owned(t) /\ WaitLock(t)' = WaitLock(t)
    BY <2>1, <2>2 DEF Owned, WaitLock, InTx
  <2>7. SpecBook(t)'
    <3>1. spec_entry'[t] # Null /\ saved'[t].lk \in Locks /\ node'[mine'[t]].wait
      BY <1>2, <2>1, <2>2 DEF Books, SpecBook
    <3> QED
      BY <2>3, <2>6, <3>1 DEF SpecBook
  <2> QED
    BY <2>1, <2>2, <2>3, <2>4, <2>5, <2>6, <2>7, AloneStep
<1> QED
  BY <1>1, <1>2 DEF CheckFlags

LEMMA McsFailedStep ==
  ASSUME IInv, NEW t \in Threads, UNCHANGED using, McsFailed(t)
  PROVE  IInv' /\ FifoStep
<1>1. Books(t)
  BY HasBooks
<1>2. /\ pc[t] = "abort" /\ pc' = [pc EXCEPT ![t] = "await"] /\ UNCHANGED <<lk, held>>
      /\ UNCHANGED <<tail, now_serving, line, free, used, mine, node, ptr, num>>
      /\ spec_entry' = [spec_entry EXCEPT ![t] = Null]
      /\ UNCHANGED <<tries, depth, saved, watch, doomed>>
  BY DEF McsFailed, EnterHtmFailed, Goto, hardwareVars, mcsVars, listVars
<1>3. /\ ~InTx(t) /\ Owned(t) = held[t] /\ WaitLock(t) = lk[t] /\ lk[t] \in Locks
  BY <1>2, MineIs DEF WaitLabels
<1>4. /\ pc'[t] = "await" /\ spec_entry'[t] = Null /\ OnlyMoves(t)
      /\ ClientTypeOK(McsLabels)' /\ HtmTypeOK' /\ mine' \in [Threads -> Nodes \cup {NoNode}]
  BY <1>1, <1>2, <1>3
  DEF Books, QueueTypeOK, ClientTypeOK, HtmTypeOK, McsTyped, McsLabels, OnlyMoves
<1>5. ~InTx(t)'
  BY <1>2, <1>3 DEF InTx
<1>6. Owned(t)' = Owned(t) /\ WaitLock(t)' = WaitLock(t)
  BY <1>2, <1>3, <1>4, <1>5, OutsideAfter DEF WaitLabels
<1>7. SpecBook(t)'
  BY <1>4, <1>5 DEF SpecBook
<1> QED
  BY <1>2, <1>3, <1>4, <1>6, <1>7, AloneStep
(* A lock call that has waited returns with the lock.                       *)
LEMMA ReturnStep ==
  ASSUME IInv, NEW t \in Threads, UNCHANGED using, pc[t] \in {"await", "serve"},
         pc[t] = "await" => ~node[mine[t]].wait, McsAcquired(t),
         now_serving' \in [Locks -> Nat], line' = [line EXCEPT ![lk[t]] = Tail(@)],
         UNCHANGED <<tail, node, listVars, ptr, htmVars>>
  PROVE  IInv' /\ FifoStep
<1>1. Books(t) /\ node \in [Nodes -> NodeType]
  BY HasBooks
<1>2. /\ pc' = [pc EXCEPT ![t] = "client"] /\ lk' = [lk EXCEPT ![t] = Null]
      /\ held' = [held EXCEPT ![t] = held[t] \cup {lk[t]}]
      /\ mine' = [mine EXCEPT ![t] = NoNode] /\ num' = [num EXCEPT ![t] = 0]
      /\ UNCHANGED <<spec_entry, tries, depth, saved, watch, doomed>>
      /\ UNCHANGED <<tail, free, used, node, ptr>>
  BY DEF McsAcquired, Acquired, Return, htmVars, listVars
<1>3. /\ ~InTx(t) /\ Owned(t) = held[t] /\ WaitLock(t) = lk[t] /\ lk[t] \in Locks /\ lk[t] # Null
      /\ mine[t] = UsedNode(t, lk[t])
  BY MineIs DEF WaitLabels
<1>l. PICK l \in Locks : l = lk[t]
  BY <1>3
<1>4. line[l] \in Seq(Threads) /\ line[l] # <<>>
  <2>1. LineBook(l) /\ line[l] \in Seq(Threads)
    BY InLine DEF IInv, QueueBook
  <2>2. t \in Range(line[l])
    BY <1>3, <1>l, <2>1 DEF LineBook
  <2> QED
    BY <2>1, <2>2, Singleton
<1>5. /\ pc'[t] = "client" /\ held'[t] = held[t] \cup {l}
      /\ ClientTypeOK(McsLabels)' /\ HtmTypeOK' /\ OnlyMoves(t)
  BY <1>1, <1>2, <1>l DEF Books, QueueTypeOK, ClientTypeOK, HtmTypeOK, OnlyMoves, McsTyped
<1>6. McsTyped'
  <2>1. Tail(line[l]) \in Seq(Threads)
    BY <1>4
  <2>2. line' \in [Locks -> Seq(Threads)]
    BY <1>1, <1>l, <2>1 DEF Books, McsTyped
  <2> QED
    BY <1>1, <1>2, <2>2 DEF Books, McsTyped
<1>7. QueueTypeOK'
  <2>1. \A n \in Range(free'[t]) \cup Range(used'[t]) : n \in Nodes /\ Owner(n) = t
    BY <1>1, <1>2 DEF Books, QueueTypeOK
  <2>2. tail' \in [Locks -> Nodes \cup {NoNode}] /\ node' \in [Nodes -> NodeType]
    BY <1>1, <1>2 DEF Books, QueueTypeOK
  <2> QED
    BY <1>5, <1>6, <2>1, <2>2, Typed
<1>8. ~InTx(t)'
  BY <1>2, <1>3 DEF InTx
<1>9. Owned(t)' = Owned(t) \cup {l} /\ WaitLock(t)' = Null
  BY <1>3, <1>5, <1>8, OutsideAfter DEF WaitLabels
<1>10. ThreadBook(t)'
  <2>1. SpecBook(t)'
    BY <1>1, <1>2, <1>3, <1>5, <1>8 DEF Books, SpecBook
  <2>2. CallBook(t)'
    <3>1. Owned(t)' \subseteq Locks
      BY <1>3, <1>9, Outside
    <3> QED
      BY <1>5, <1>9, <3>1 DEF CallBook
  <2>3. NodeLocks(t)' = NodeLocks(t)
    BY <1>3, <1>9, <1>l DEF NodeLocks
  <2>4. PoolBook(t)'
    <3>1. PoolBook(t) /\ free' = free /\ used' = used /\ node' = node
      BY <1>1, <1>2 DEF Books
    <3>2. {node'[n].lock : n \in Range(used'[t])} = {node[n].lock : n \in Range(used[t])}
      BY ONLY <3>1
    <3>3. {node'[n].lock : n \in Range(used'[t])} = NodeLocks(t)'
      BY ONLY <2>3, <3>1, <3>2 DEF PoolBook
    <3> QED
      BY ONLY <3>1, <3>3 DEF PoolBook
  <2> QED
    BY <2>1, <2>2, <2>4 DEF ThreadBook
<1>11. GoesOn(t, l)
  BY <1>3, <1>l DEF GoesOn
<1>12. line' = [line EXCEPT ![l] = Tail(@)] /\ WaitLock(t) = l
  BY <1>3, <1>l
<1> QED
  BY <1>2, <1>5, <1>6, <1>7, <1>9, <1>10, <1>11, <1>12, EnterStep

LEMMA AwaitStep ==
  ASSUME IInv, NEW t \in Threads, UNCHANGED using, Await(t)
  PROVE  IInv' /\ FifoStep
<1>1. Books(t)
  BY HasBooks
<1>2. CASE /\ now_serving' = IF tm THEN [now_serving EXCEPT ![lk[t]] = num[t]] ELSE now_serving
           /\ McsAcquired(t) /\ line' = [line EXCEPT ![lk[t]] = Tail(@)]
  <2>1. now_serving' \in [Locks -> Nat]
    BY <1>1, <1>2 DEF Books, QueueTypeOK, McsTyped
  <2> QED
    BY <1>2, <2>1, ReturnStep DEF Await
<1>3. CASE Goto(t, "failed") /\ UNCHANGED <<now_serving, mine, num, line>>
  BY <1>3, AwaitFailedStep DEF Await, mcsVars
<1> QED
  BY <1>2, <1>3 DEF Await

LEMMA ServeStep ==
  ASSUME IInv, NEW t \in Threads, UNCHANGED using, Serve(t)
  PROVE  IInv' /\ FifoStep
<1>1. now_serving \in [Locks -> Nat]
  BY HasBooks DEF Books, QueueTypeOK
<1>2. lk[t] \in Locks
  BY MineIs DEF Serve
<1>3. now_serving[lk[t]] + 1 \in Nat
  BY ONLY <1>1, <1>2
<1>4. now_serving' \in [Locks -> Nat]
  BY <1>1, <1>3 DEF Serve
<1> QED
  BY <1>4, ReturnStep DEF Serve

LEMMA LinkAction ==
  ASSUME IInv, NEW t \in Threads, UNCHANGED using, Link(t)
  PROVE  IInv' /\ FifoStep
<1>1. Books(t) /\ node \in [Nodes -> NodeType]
  BY HasBooks
<1>2. PICK lab \in {"predcnt", "await"} :
        /\ pc[t] = "link" /\ pc' = [pc EXCEPT ![t] = lab] /\ UNCHANGED <<lk, held>>
        /\ node' = [node EXCEPT ![ptr[t]].next = mine[t]]
        /\ ptr' = IF lab = "predcnt" THEN ptr ELSE [ptr EXCEPT ![t] = NoNode]
        /\ UNCHANGED <<spec_entry, tries, depth, saved, watch, doomed>>
        /\ UNCHANGED <<tail, now_serving, free, used, mine, num, line>>
  BY DEF Link, Goto, htmVars, listVars
<1>3. /\ ~InTx(t) /\ Owned(t) = held[t] /\ WaitLock(t) = lk[t] /\ lk[t] \in Locks
      /\ mine[t] \in Nodes
  BY <1>2, MineIs DEF WaitLabels
<1>4. ptr[t] \in Nodes
  BY <1>1, <1>2 DEF Books, CallBook, McsTyped
<1>5. /\ pc'[t] = lab /\ ClientTypeOK(McsLabels)' /\ HtmTypeOK'
      /\ ptr' \in [Threads -> Nodes \cup {NoNode}] /\ (lab = "predcnt" => ptr'[t] = ptr[t])
  BY <1>1, <1>2 DEF Books, QueueTypeOK, ClientTypeOK, HtmTypeOK, McsTyped, McsLabels
<1>6. OnlyMoves(t)
  BY <1>2 DEF OnlyMoves
<1>7. QueueTypeOK' /\ McsTyped'
  <2>1. node' \in [Nodes -> NodeType]
    BY <1>1, <1>2, <1>3, <1>4, SetField
  <2>2. now_serving' \in [Locks -> Nat] /\ mine' \in [Threads -> Nodes \cup {NoNode}]
        /\ num' \in [Threads -> Nat]
    BY <1>1, <1>2 DEF Books, QueueTypeOK, McsTyped
  <2> QED
    BY <1>2, <1>5, <1>6, <2>1, <2>2, CalmTyped
<1>8. ~InTx(t)'
  BY <1>2, <1>3 DEF InTx
<1>9. Owned(t)' = Owned(t) /\ WaitLock(t)' = WaitLock(t)
  BY <1>2, <1>3, <1>5, <1>8, OutsideAfter DEF WaitLabels
<1>10. SpecBook(t)'
  BY <1>1, <1>2, <1>3, <1>5, <1>8 DEF Books, SpecBook
<1> QED
  BY <1>2, <1>3, <1>5, <1>6, <1>7, <1>9, <1>10, LinkStep

(* The node of a call that has not swapped it in yet.                       *)
LEMMA SwappedStep ==
  ASSUME IInv, NEW t \in Threads, UNCHANGED using, pc[t] \in {"swap", "try_swap"}, Swapped(t)
  PROVE  IInv' /\ FifoStep
<1>1. Books(t) /\ node \in [Nodes -> NodeType]
  BY HasBooks
<1>2. /\ ~InTx(t) /\ Owned(t) = held[t] /\ WaitLock(t) = Null /\ lk[t] \in Locks /\ lk[t] # Null
  BY Outside DEF WaitLabels
<1>l. PICK l \in Locks, m \in Nodes \cup {NoNode} : l = lk[t] /\ m = mine[t]
  BY <1>1, <1>2 DEF Books, McsTyped
<1>3. /\ l \notin held[t] /\ free[t] # <<>> /\ m = Head(free[t]) /\ l # Null
      /\ node[m].next = NoNode /\ node[m].wait /\ node[m].lock = l
      /\ free[t] \in Seq(Nodes) /\ used[t] \in Seq(Nodes)
  BY <1>1, <1>2, <1>l DEF Books, CallBook, McsTyped
<1>4. /\ tail' = [tail EXCEPT ![l] = m] /\ free' = [free EXCEPT ![t] = Tail(@)]
      /\ used' = [used EXCEPT ![t] = <<m>> \o @]
      /\ UNCHANGED <<now_serving, node, spec_entry, tries, depth, saved, watch, doomed>>
  BY <1>l DEF Swapped, UseNode, htmVars
<1>5. /\ free'[t] = Tail(free[t]) /\ used'[t] = <<m>> \o used[t]
      /\ Range(free'[t]) = Range(free[t]) \ {m} /\ m \in Range(free[t]) /\ m \in Nodes
      /\ IsInjective(free'[t]) /\ free'[t] \in Seq(Nodes) /\ m \notin Range(used[t])
      /\ Range(used'[t]) = Range(used[t]) \cup {m} /\ IsInjective(used'[t])
      /\ used'[t] \in Seq(Nodes)
      /\ Len(free'[t]) = Len(free[t]) - 1 /\ Len(used'[t]) = Len(used[t]) + 1
      /\ Len(free[t]) \in Nat /\ Len(used[t]) \in Nat
  <2>1. free'[t] = Tail(free[t]) /\ used'[t] = <<m>> \o used[t]
    BY <1>1, <1>4 DEF Books, McsTyped
  <2>2. IsInjective(free[t]) /\ IsInjective(used[t]) /\ Range(free[t]) \cap Range(used[t]) = {}
    BY <1>1 DEF Books, PoolBook
  <2>3. /\ Range(Tail(free[t])) = Range(free[t]) \ {m} /\ m \in Range(free[t])
        /\ IsInjective(Tail(free[t])) /\ Tail(free[t]) \in Seq(Nodes)
    BY <1>3, <2>2, TailRange
  <2>4. m \in Nodes /\ m \notin Range(used[t])
    BY <1>3, <2>2, <2>3, RangeOf
  <2>5. /\ Range(<<m>> \o used[t]) = Range(used[t]) \cup {m} /\ IsInjective(<<m>> \o used[t])
        /\ <<m>> \o used[t] \in Seq(Nodes) /\ Len(<<m>> \o used[t]) = Len(used[t]) + 1
    BY <1>3, <2>2, <2>4, ConsRange
  <2>6. Len(Tail(free[t])) = Len(free[t]) - 1 /\ Len(free[t]) \in Nat /\ Len(used[t]) \in Nat
    BY <1>3
  <2> QED
    BY <2>1, <2>3, <2>4, <2>5, <2>6
<1>6. /\ free' \in [Threads -> Seq(Nodes)] /\ used' \in [Threads -> Seq(Nodes)]
      /\ tail' \in [Locks -> Nodes \cup {NoNode}] /\ now_serving' \in [Locks -> Nat]
      /\ node' \in [Nodes -> NodeType] /\ HtmTypeOK'
      /\ \A u \in Threads \ {t} : free'[u] = free[u] /\ used'[u] = used[u]
  <2>1. HtmTypeOK'
    BY <1>1, <1>4 DEF Books, QueueTypeOK, HtmTypeOK
  <2>2. free' \in [Threads -> Seq(Nodes)] /\ used' \in [Threads -> Seq(Nodes)]
    BY <1>1, <1>4, <1>5 DEF Books, McsTyped
  <2>3. tail' \in [Locks -> Nodes \cup {NoNode}] /\ now_serving' \in [Locks -> Nat]
    BY <1>1, <1>4, <1>5 DEF Books, QueueTypeOK
  <2> QED
    BY <1>1, <1>4, <2>1, <2>2, <2>3 DEF Books, McsTyped
<1>7. \A n \in Range(free'[t]) \cup Range(used'[t]) : n \in Nodes /\ Owner(n) = t
  <2>1. \A n \in Range(free[t]) \cup Range(used[t]) : n \in Nodes /\ Owner(n) = t
    BY NodeFound DEF NodesAreFound, IInv, ThreadBook
  <2> QED
    BY <1>5, <2>1
<1>8. ~InTx(t)'
  BY <1>2, <1>4 DEF InTx
<1>9. ASSUME NodeLocks(t)' = NodeLocks(t) \cup {l} PROVE PoolBook(t)'
  <2>1. Range(free'[t]) \cup Range(used'[t]) = {t} \X (1 .. Len(free'[t]) + Len(used'[t]))
    <3>1. \A a, b \in Nat : (a - 1) + (b + 1) = a + b
      OBVIOUS
    <3>2. Len(free'[t]) + Len(used'[t]) = Len(free[t]) + Len(used[t])
      BY <1>5, <3>1
    <3>3. Range(free'[t]) \cup Range(used'[t]) = Range(free[t]) \cup Range(used[t])
      BY <1>5
    <3> QED
      BY <1>1, <3>2, <3>3 DEF Books, PoolBook
  <2>2. Range(free'[t]) \cap Range(used'[t]) = {}
    BY <1>1, <1>5 DEF Books, PoolBook
  <2>3. l \notin NodeLocks(t)
    BY <1>2, <1>3 DEF NodeLocks
  <2>4. {node'[n].lock : n \in Range(used'[t])} = NodeLocks(t)'
    <3>1. {node[n].lock : n \in Range(used[t])} = NodeLocks(t)
      BY <1>1 DEF Books, PoolBook
    <3>2. \A n \in Range(used'[t]) : node'[n].lock \in NodeLocks(t) \cup {l}
      BY <1>3, <1>4, <1>5, <3>1
    <3>3. \A k \in NodeLocks(t) \cup {l} : \E n \in Range(used'[t]) : node'[n].lock = k
      BY <1>3, <1>4, <1>5, <3>1
    <3> QED
      BY <1>9, <3>2, <3>3
  <2>5. \A o, n \in Range(used'[t]) : node'[o].lock = node'[n].lock => o = n
    <3>1. \A n \in Range(used[t]) : node[n].lock # l
      BY <1>1, <2>3 DEF Books, PoolBook
    <3>2. \A o, n \in Range(used[t]) : node[o].lock = node[n].lock => o = n
      BY <1>1 DEF Books, PoolBook
    <3> QED
      BY <1>3, <1>4, <1>5, <3>1, <3>2
  <2> QED
    BY <1>5, <2>1, <2>2, <2>4, <2>5 DEF PoolBook
<1>10. Swaps(t, l, m)
  BY <1>2, <1>3, <1>4, <1>5 DEF Swaps, NodeLocks
<1>11. CASE /\ tail[lk[t]] = NoNode /\ McsAcquired(t) /\ UNCHANGED <<ptr, line>>
  <2>1. /\ pc' = [pc EXCEPT ![t] = "client"] /\ lk' = [lk EXCEPT ![t] = Null]
        /\ held' = [held EXCEPT ![t] = held[t] \cup {l}]
        /\ mine' = [mine EXCEPT ![t] = NoNode] /\ num' = [num EXCEPT ![t] = 0]
    BY <1>11, <1>l DEF McsAcquired, Acquired, Return
  <2>2. /\ pc'[t] = "client" /\ held'[t] = held[t] \cup {l} /\ ClientTypeOK(McsLabels)'
    BY <1>1, <2>1 DEF Books, QueueTypeOK, ClientTypeOK
  <2>3. OnlyMoves(t)
    BY <1>4, <1>6, <1>11, <2>1 DEF OnlyMoves
  <2>4. McsTyped'
    BY <1>1, <1>6, <1>11, <2>1 DEF Books, McsTyped
  <2>5. QueueTypeOK'
    BY <1>6, <1>7, <2>2, <2>3, <2>4, Typed
  <2>6. Owned(t)' = Owned(t) \cup {l} /\ WaitLock(t)' = Null
    BY <1>2, <1>8, <2>2, OutsideAfter DEF WaitLabels
  <2>7. ThreadBook(t)'
    <3>1. SpecBook(t)'
      BY <1>1, <1>2, <1>4, <1>8, <2>2 DEF Books, SpecBook
    <3>2. Owned(t)' \subseteq Locks
      BY <1>2, <2>6, Outside
    <3>3. CallBook(t)'
      BY <2>2, <2>6, <3>2 DEF CallBook
    <3>4. NodeLocks(t)' = NodeLocks(t) \cup {l}
      BY <1>2, <2>6 DEF NodeLocks
    <3> QED
      BY <1>9, <3>1, <3>3, <3>4 DEF ThreadBook
  <2> QED
    BY <1>10, <1>11, <1>l, <2>3, <2>4, <2>5, <2>6, <2>7, TakeStep
<1>12. CASE /\ ptr' = [ptr EXCEPT ![t] = tail[lk[t]]]
            /\ line' = [line EXCEPT ![lk[t]] = Append(@, t)]
            /\ Goto(t, IF tail[lk[t]] = NoNode THEN "count" ELSE "link")
            /\ UNCHANGED <<mine, num>>
  <2>1. PICK lab \in {"count", "link"} :
          /\ pc' = [pc EXCEPT ![t] = lab] /\ lk' = lk /\ held' = held
          /\ lab = IF tail[l] = NoNode THEN "count" ELSE "link"
    BY <1>12, <1>l DEF Goto
  <2>2. pc'[t] = lab /\ ClientTypeOK(McsLabels)'
    BY <1>1, <2>1 DEF Books, QueueTypeOK, ClientTypeOK, McsLabels
  <2>3. OnlyMoves(t)
    BY <1>4, <1>6, <1>12, <2>1 DEF OnlyMoves
  <2>4. tail[l] \in Nodes \cup {NoNode}
    BY <1>1 DEF Books, QueueTypeOK
  <2>5. ptr' \in [Threads -> Nodes \cup {NoNode}] /\ ptr'[t] = tail[l]
    BY <1>1, <1>12, <1>l, <2>4 DEF Books, McsTyped
  <2>6. McsTyped'
    <3>1. line[l] \in Seq(Threads)
      BY <1>1 DEF Books, McsTyped
    <3>2. Append(line[l], t) \in Seq(Threads)
      BY <3>1
    <3>3. line' \in [Locks -> Seq(Threads)]
      BY <1>1, <1>12, <1>l, <3>2 DEF Books, McsTyped
    <3> QED
      BY <1>1, <1>6, <1>12, <2>5, <3>3 DEF Books, McsTyped
  <2>7. QueueTypeOK'
    BY <1>6, <1>7, <2>2, <2>3, <2>6, Typed
  <2>8. Owned(t)' = Owned(t) /\ WaitLock(t)' = l
    BY <1>2, <1>8, <1>l, <2>1, <2>2, OutsideAfter DEF WaitLabels
  <2>9. NodeLocks(t)' = NodeLocks(t) \cup {l}
    BY <1>2, <1>3, <2>8 DEF NodeLocks
  <2>10. ThreadBook(t)'
    <3>1. SpecBook(t)'
      BY <1>1, <1>2, <1>4, <1>8, <2>2 DEF Books, SpecBook
    <3>2. CallBook(t)'
      <4>1. mine'[t] = UsedNode(t, l)'
        <5>1. UsedNode(t, l)' = m
          <6>1. l \in NodeLocks(t)' /\ m \in Range(used'[t]) /\ node'[m].lock = l
            BY <1>3, <1>4, <1>5, <2>9
          <6> QED
            BY <1>9, <2>6, <2>9, <6>1, NodeFoundAfter DEF NodesAreFound
        <5> QED
          BY <1>12, <1>l, <5>1
      <4>2. mine'[t] = UsedNode(t, WaitLock(t))'
        BY <2>8, <4>1 DEF UsedNode
      <4>3. WaitLock(t)' \notin Owned(t)' /\ lk'[t] \in Locks
        BY <1>2, <1>3, <1>l, <2>1, <2>8
      <4> QED
        BY <2>1, <2>2, <2>5, <4>2, <4>3 DEF CallBook
    <3> QED
      BY <1>9, <2>9, <3>1, <3>2 DEF ThreadBook
  <2>11. line' = [line EXCEPT ![l] = Append(@, t)]
    BY <1>12, <1>l
  <2> QED
    BY <1>10, <2>1, <2>2, <2>3, <2>5, <2>6, <2>7, <2>8, <2>10, <2>11, ArriveStep
<1> QED
  BY <1>11, <1>12 DEF Swapped

LEMMA TrySwapStep ==
  ASSUME IInv, NEW t \in Threads, UNCHANGED using, TrySwap(t)
  PROVE  IInv' /\ FifoStep
BY SwappedStep, RefusedStep DEF TrySwap

(* The free list of t after GetFreeNodes.                                  *)
Pool(t) == IF free[t] = <<>> THEN NewNodes(t) ELSE free[t]

(* The pool of a thread that may ask for l has room for another node.       *)
LEMMA PoolHasNode ==
  ASSUME IInv, NEW t \in Threads, spec_entry[t] = Null, pc[t] = "client",
         NEW l \in Locks \ held[t]
  PROVE  /\ Pool(t) \in Seq(Nodes) /\ Pool(t) # <<>> /\ IsInjective(Pool(t))
         /\ Range(Pool(t)) \cap Range(used[t]) = {}
         /\ Range(Pool(t)) \cup Range(used[t]) = {t} \X (1 .. Len(Pool(t)) + Len(used[t]))
         /\ \A n \in Range(Pool(t)) : n \in Nodes /\ Owner(n) = t
<1>1. Books(t) /\ free[t] \in Seq(Nodes) /\ used[t] \in Seq(Nodes)
  BY HasBooks DEF Books, McsTyped
<1>2. CASE free[t] # <<>>
  <2>1. Pool(t) = free[t]
    BY <1>2 DEF Pool
  <2>2. \A n \in Range(free[t]) : n \in Nodes /\ Owner(n) = t
    BY NodeFound DEF NodesAreFound, IInv, ThreadBook
  <2> QED
    BY <1>1, <1>2, <2>1, <2>2 DEF Books, PoolBook
<1>3. CASE free[t] = <<>>
  <2>1. PICK P, k : P = Pool(t) /\ k = Len(used[t])
    OBVIOUS
  <2>2. P = [i \in 1 .. NumNodes |-> <<t, k + i>>]
    BY <1>3, <2>1 DEF Pool, NewNodes
  <2>3. k \in Nat /\ k <= Cardinality(Locks) - 1 /\ Cardinality(Locks) \in Nat
    <3>1. NodeLocks(t) = held[t] /\ held[t] \subseteq Locks \ {l}
      BY Outside DEF WaitLabels, NodeLocks
    <3>2. k = Cardinality(held[t]) /\ IsFiniteSet(held[t])
      BY <1>1, <2>1, <3>1, UsedCount DEF Books
    <3>3. IsFiniteSet(Locks \ {l}) /\ Cardinality(Locks \ {l}) = Cardinality(Locks) - 1
      BY FS_RemoveElement
    <3>4. Cardinality(held[t]) <= Cardinality(Locks \ {l})
      BY <3>1, <3>3, FS_Subset
    <3>5. Cardinality(Locks) \in Nat /\ k \in Nat
      BY <3>2, FS_CardinalityType
    <3> QED
      BY <3>2, <3>3, <3>4, <3>5
  <2>4. \A i \in 1 .. NumNodes : <<t, k + i>> \in Nodes
    <3>1. \A i \in 1 .. NumNodes : k + i \in 1 .. Cardinality(Locks) - 1 + NumNodes
      BY <2>3
    <3> QED
      BY <3>1 DEF Nodes
  <2>5. P \in Seq(Nodes) /\ Len(P) = NumNodes /\ \A i \in 1 .. NumNodes : P[i] = <<t, k + i>>
    BY <2>2, <2>4
  <2>6. Range(P) = {P[i] : i \in 1 .. NumNodes} /\ P # <<>>
    <3>1. Len(P) # 0
      BY <2>5
    <3> QED
      BY <2>5, <3>1, RangeOf, EmptyLen
  <2>7. IsInjective(P)
    <3>1. \A i, j \in 1 .. NumNodes : <<t, k + i>> = <<t, k + j>> => i = j
      BY <2>3
    <3> QED
      BY <2>5, <3>1, RangeOf
  <2>8. Range(used[t]) = {t} \X (1 .. k)
    <3>1. Range(free[t]) = {} /\ Len(free[t]) = 0
      BY <1>3, Singleton
    <3>2. Range(free[t]) \cup Range(used[t]) = {t} \X (1 .. Len(free[t]) + k)
      BY <1>1, <2>1 DEF Books, PoolBook
    <3> QED
      BY <2>3, <3>1, <3>2
  <2>9. Range(P) \cap Range(used[t]) = {}
    <3>1. \A i \in 1 .. NumNodes : k + i \notin 1 .. k
      BY <2>3
    <3>2. \A i \in 1 .. NumNodes : <<t, k + i>> \notin {t} \X (1 .. k)
      BY <3>1
    <3> QED
      BY <2>5, <2>6, <2>8, <3>2
  <2>10. Range(P) \cup Range(used[t]) = {t} \X (1 .. Len(P) + k)
    <3>1. ASSUME NEW n \in Range(P) PROVE n \in {t} \X (1 .. NumNodes + k)
      <4>1. PICK i \in 1 .. NumNodes : n = <<t, k + i>>
        BY <2>5, <2>6, <3>1
      <4>2. k + i \in 1 .. NumNodes + k
        BY <2>3
      <4> QED
        BY <4>1, <4>2
    <3>2. ASSUME NEW i \in 1 .. NumNodes + k PROVE <<t, i>> \in Range(P) \cup Range(used[t])
      <4>1. CASE i \in 1 .. k
        BY <2>8, <4>1
      <4>2. CASE i \notin 1 .. k
        <5>1. i - k \in 1 .. NumNodes /\ k + (i - k) = i
          BY <2>3, <4>2
        <5> QED
          BY <2>5, <2>6, <5>1
      <4> QED
        BY <4>1, <4>2
    <3>3. \A i \in 1 .. k : i \in 1 .. NumNodes + k
      BY <2>3
    <3> QED
      BY <2>5, <2>8, <3>1, <3>2, <3>3
  <2>11. \A n \in Range(P) : n \in Nodes /\ Owner(n) = t
    BY <2>4, <2>5, <2>6 DEF Owner
  <2> QED
    BY <2>1, <2>5, <2>6, <2>7, <2>9, <2>10, <2>11
<1> QED
  BY <1>2, <1>3

(* The links lead to the first free node, or show that there is none.       *)
LEMMA FreeNodesAre ==
  ASSUME IInv, LinksInv, NEW t \in Threads, GetFreeNodes(t), Pool(t) # <<>>
  PROVE  /\ free' = [free EXCEPT ![t] = Pool(t)] /\ used' = used
         /\ my_free_nodes'[t] = Head(Pool(t))
         /\ my_free_nodes[t] = NoNode <=> free[t] = <<>>
<1>1. /\ free \in [Threads -> Seq(Nodes)] /\ free[t] \in Seq(Nodes)
      /\ my_free_nodes \in [Threads -> Nodes \cup {NoNode}]
  BY DEF IInv, McsTyped, LinksInv, LinksTypeOK
<1>2. my_free_nodes[t] = Entry(free[t], 1)
  BY DEF LinksInv, ListsAreLinked, LeadsAlong
<1>3. CASE free[t] = <<>>
  <2>1. my_free_nodes[t] = NoNode
    BY <1>2, <1>3 DEF Entry
  <2>2. Pool(t) = NewNodes(t) /\ alloc_more_nodes(t)
    BY <1>3, <2>1 DEF Pool, GetFreeNodes
  <2>3. Head(NewNodes(t)) = NewNodes(t)[1]
    BY DEF NewNodes
  <2> QED
    BY <1>1, <1>3, <2>1, <2>2, <2>3 DEF alloc_more_nodes
<1>4. CASE free[t] # <<>>
  <2>1. 1 \in DOMAIN free[t] /\ Head(free[t]) = free[t][1] /\ free[t][1] \in Nodes
    BY <1>1, <1>4
  <2>2. my_free_nodes[t] = Head(free[t]) /\ my_free_nodes[t] # NoNode
    BY <1>2, <2>1, NoNodeIsNoNode DEF Entry
  <2>3. UNCHANGED <<my_free_nodes, free, used>> /\ Pool(t) = free[t]
    BY <1>4, <2>2 DEF Pool, GetFreeNodes, listVars
  <2> QED
    BY <1>1, <1>4, <2>2, <2>3
<1> QED
  BY <1>3, <1>4

(* A call makes its node ready.                                            *)
LEMMA LockCommonStep ==
  ASSUME IInv, LinksInv, NEW t \in Threads, UNCHANGED using, NEW l \in Locks, l \notin held[t],
         pc[t] = "client", NEW entry \in {"swap", "try_swap"}, mcs_lock_common(t, l, entry)
  PROVE  IInv' /\ FifoStep
<1>1. Books(t) /\ node \in [Nodes -> NodeType] /\ held[t] \subseteq Locks
  BY HasBooks DEF Books, QueueTypeOK, ClientTypeOK
<1>2. CASE Elided(t, held[t] \cup {l}) /\ UNCHANGED mcsVars
  <2>1. held[t] \cup {l} \in SUBSET Locks
    BY <1>1
  <2> QED
    BY <1>2, <2>1, ElidedStep
<1>3. CASE /\ spec_entry[t] = Null /\ GetFreeNodes(t)
           /\ mine' = [mine EXCEPT ![t] = my_free_nodes'[t]]
           /\ node' = [node EXCEPT ![mine'[t]] = Clear(l)]
           /\ Call(t, l, entry)
           /\ UNCHANGED <<tail, now_serving, ptr, num, line, htmVars>>
  <2>1. PICK P, m : P = Pool(t) /\ m = Head(P)
    OBVIOUS
  <2>2. /\ P \in Seq(Nodes) /\ P # <<>> /\ IsInjective(P)
        /\ Range(P) \cap Range(used[t]) = {}
        /\ Range(P) \cup Range(used[t]) = {t} \X (1 .. Len(P) + Len(used[t]))
        /\ \A n \in Range(P) : n \in Nodes /\ Owner(n) = t
    BY <1>3, <2>1, PoolHasNode
  <2>3. m \in Range(P) /\ m = P[1] /\ m \in Nodes /\ m \notin Range(used[t])
    <3>1. m = P[1] /\ 1 \in 1 .. Len(P)
      BY <2>1, <2>2
    <3>2. m \in Range(P)
      BY <2>2, <3>1, RangeOf
    <3> QED
      BY <2>2, <3>1, <3>2
  <2>4. /\ free' = [free EXCEPT ![t] = P] /\ mine' = [mine EXCEPT ![t] = m]
        /\ node' = [node EXCEPT ![m] = Clear(l)]
        /\ pc' = [pc EXCEPT ![t] = entry] /\ lk' = [lk EXCEPT ![t] = l] /\ held' = held
        /\ UNCHANGED <<tail, now_serving, used, ptr, num, line>>
        /\ UNCHANGED <<spec_entry, tries, depth, saved, watch, doomed>>
    <3>1. free' = [free EXCEPT ![t] = P] /\ used' = used /\ my_free_nodes'[t] = m
      BY <1>3, <2>1, <2>2, FreeNodesAre
    <3>2. mine' = [mine EXCEPT ![t] = m] /\ mine'[t] = m
      BY <1>1, <1>3, <3>1 DEF Books, McsTyped
    <3> QED
      BY <1>3, <3>1, <3>2 DEF Call, htmVars
  <2>5. /\ free'[t] = P /\ mine'[t] = m /\ pc'[t] = entry /\ lk'[t] = l
        /\ node'[m] = Clear(l) /\ \A n \in Nodes \ {m} : node'[n] = node[n]
        /\ ClientTypeOK(McsLabels)' /\ HtmTypeOK' /\ OnlyMoves(t)
    <3>1. /\ free'[t] = P /\ mine'[t] = m /\ pc'[t] = entry /\ lk'[t] = l
      BY <1>1, <2>4 DEF Books, QueueTypeOK, ClientTypeOK, McsTyped
    <3>2. node'[m] = Clear(l) /\ \A n \in Nodes \ {m} : node'[n] = node[n]
      BY <1>1, <2>3, <2>4
    <3>3. ClientTypeOK(McsLabels)' /\ HtmTypeOK'
      BY <1>1, <2>4 DEF Books, QueueTypeOK, ClientTypeOK, HtmTypeOK, McsLabels
    <3>4. OnlyMoves(t)
      BY <2>4 DEF OnlyMoves
    <3> QED
      BY <3>1, <3>2, <3>3, <3>4
  <2>6. QueueTypeOK' /\ McsTyped'
    <3>1. McsTyped'
      BY <1>1, <2>2, <2>3, <2>4 DEF Books, McsTyped
    <3>2. node' \in [Nodes -> NodeType]
      BY <1>1, <2>3, <2>4, SetField
    <3>3. \A n \in Range(free'[t]) \cup Range(used'[t]) : n \in Nodes /\ Owner(n) = t
      <4>1. \A n \in Range(used[t]) : n \in Nodes /\ Owner(n) = t
        BY NodeFound DEF NodesAreFound, IInv, ThreadBook
      <4> QED
        BY <2>2, <2>4, <2>5, <4>1
    <3>4. tail' \in [Locks -> Nodes \cup {NoNode}] /\ now_serving' \in [Locks -> Nat]
      BY <1>1, <2>4 DEF Books, QueueTypeOK
    <3> QED
      BY <2>5, <3>1, <3>2, <3>3, <3>4, Typed
  <2>7. /\ ~InTx(t) /\ Owned(t) = held[t] /\ WaitLock(t) = Null
    BY <1>3, Outside DEF WaitLabels
  <2>8. ~InTx(t)'
    BY <2>4, <2>7 DEF InTx
  <2>9. Owned(t)' = Owned(t) /\ WaitLock(t)' = Null
    BY <2>4, <2>5, <2>7, <2>8, OutsideAfter DEF WaitLabels
  <2>10. \A u \in Threads : \A n \in Range(used[u]) : n \in Nodes \ {m}
    <3>1. \A u \in Threads : \A n \in Range(used[u]) : n \in Nodes /\ Owner(n) = u
      BY NodeFound DEF NodesAreFound, IInv, ThreadBook
    <3> QED
      BY <2>2, <2>3, <3>1
  <2>11. \A u \in Threads \ {t} : \A n \in Range(free[u]) : n \in Nodes \ {m}
    <3>1. \A u \in Threads : \A n \in Range(free[u]) : n \in Nodes /\ Owner(n) = u
      BY NodeFound DEF NodesAreFound, IInv, ThreadBook
    <3> QED
      BY <2>2, <2>3, <3>1
  <2>12. \A n \in Nodes \ {m} : CalmNode(n)
    BY <2>5 DEF CalmNode
  <2>13. PoolBook(t)'
    <3>1. /\ {node[n].lock : n \in Range(used[t])} = NodeLocks(t)
          /\ \A o, n \in Range(used[t]) : node[o].lock = node[n].lock => o = n
          /\ IsInjective(used[t])
      BY <1>1 DEF Books, PoolBook
    <3>2. \A n \in Range(used[t]) : node'[n].lock = node[n].lock
      BY <2>5, <2>10
    <3>3. {node'[n].lock : n \in Range(used[t])} = {node[n].lock : n \in Range(used[t])}
      BY <3>2
    <3>4. NodeLocks(t)' = NodeLocks(t) /\ used'[t] = used[t]
      BY <2>4, <2>7, <2>9 DEF NodeLocks
    <3>5. {node'[n].lock : n \in Range(used'[t])} = NodeLocks(t)'
      BY <3>1, <3>3, <3>4
    <3>6. \A o, n \in Range(used'[t]) : node'[o].lock = node'[n].lock => o = n
      BY <3>1, <3>2, <3>4
    <3>7. free'[t] = P
      BY <2>5
    <3>8. IsInjective(free'[t]) /\ IsInjective(used'[t])
      <4>1. IsInjective(P) /\ IsInjective(used[t])
        BY <2>2, <3>1
      <4>2. used'[t] = used[t]
        BY <3>4
      <4> QED
        BY ONLY <3>7, <4>1, <4>2
    <3>9. /\ Range(free'[t]) \cap Range(used'[t]) = {}
          /\ Range(free'[t]) \cup Range(used'[t]) = {t} \X (1 .. Len(free'[t]) + Len(used'[t]))
      BY ONLY <2>2, <3>4, <3>7
    <3> QED
      BY ONLY <3>5, <3>6, <3>8, <3>9 DEF PoolBook
  <2>14. SpecBook(t)'
    BY <1>3, <2>4, <2>5, <2>8 DEF SpecBook
  <2>15. CallBook(t)'
    <3>1. node'[m].next = NoNode /\ node'[m].wait /\ node'[m].lock = l
      BY <2>5 DEF Clear
    <3>2. Owned(t)' \subseteq Locks
      BY <1>1, <2>7, <2>9
    <3> QED
      BY <2>2, <2>3, <2>4, <2>5, <2>9, <3>1, <3>2 DEF CallBook, WaitLabels
  <2> QED
    BY <2>4, <2>5, <2>6, <2>7, <2>9, <2>10, <2>11, <2>12, <2>13, <2>14, <2>15, QuietStep
    DEF ThreadBook
<1> QED
  BY <1>2, <1>3 DEF mcs_lock_common

LEMMA LockStep ==
  ASSUME IInv, LinksInv, NEW t \in Threads, UNCHANGED using, NEW l \in Locks,
         mcs_lock(t, l) \/ mcs_trylock(t, l)
  PROVE  IInv' /\ FifoStep
<1>1. CASE mcs_lock(t, l)
  <2>1. l \notin held[t]
    <3>1. \A k \in held[t] : k < l
      BY <1>1 DEF mcs_lock, MayLock
    <3>2. l \in Nat
      BY LocksAssumption
    <3>3. ~(l < l)
      BY ONLY <3>2
    <3> QED
      BY ONLY <3>1, <3>3
  <2> QED
    BY <1>1, <2>1, LockCommonStep DEF mcs_lock, MayLock
<1>2. CASE mcs_trylock(t, l)
  BY <1>2, LockCommonStep DEF mcs_trylock, MayTrylock
<1> QED
  BY <1>1, <1>2
(* The nodes are as they were but for a flag of h.                          *)
FlagOf(h, fields) ==
  \A n \in Nodes : /\ fields[n].lock = node[n].lock /\ fields[n].next = node[n].next
                   /\ (n # h => fields[n].wait = node[n].wait)

(* The node of an unlock goes back to the pool; fields are the nodes with   *)
(* the flag of the one behind it cleared, if there is one.                  *)
LEMMA DeallocFrame ==
  ASSUME IInv, NEW t \in Threads, UNCHANGED using, pc[t] \in {"cas", "wake"},
         NEW fields \in [Nodes -> NodeType], Dealloc(t, fields),
         NEW h, FlagOf(h, fields),
         tail' \in [Locks -> Nodes \cup {NoNode}],
         UNCHANGED <<spec_entry, tries, depth, saved, watch>>,
         doomed' \in [Threads -> BOOLEAN], \A u \in Threads : doomed[u] => doomed'[u]
  PROVE  /\ QueueTypeOK' /\ McsTyped' /\ OnlyMoves(t) /\ SpecBook(t)'
         /\ Leaves(t, lk[t], mine[t], h) /\ lk[t] \in Locks /\ line' = line
<1>1. Books(t)
  BY HasBooks
<1>2. /\ ~InTx(t) /\ Owned(t) = held[t] /\ WaitLock(t) = Null
      /\ lk[t] \in Locks /\ lk[t] \in held[t]
      /\ mine[t] = UsedNode(t, lk[t]) /\ mine[t] \in Nodes
  BY MineIs DEF WaitLabels
<1>m. PICK m \in Nodes, l \in Locks : m = mine[t] /\ l = lk[t]
  BY <1>2
<1>i. PICK i : i = CHOOSE j \in DOMAIN used[t] : used[t][j] = m
  OBVIOUS
<1>r. PICK r : r = RemoveAt(used[t], i)
  OBVIOUS
<1>3. /\ node' = [fields EXCEPT ![m].next = NoNode]
      /\ used' = [used EXCEPT ![t] = r]
      /\ free' = [free EXCEPT ![t] = <<m>> \o @]
      /\ mine' = [mine EXCEPT ![t] = NoNode] /\ ptr' = [ptr EXCEPT ![t] = NoNode]
      /\ num' = [num EXCEPT ![t] = 0]
      /\ pc' = [pc EXCEPT ![t] = "client"] /\ lk' = [lk EXCEPT ![t] = Null]
      /\ held' = [held EXCEPT ![t] = held[t] \ {l}]
      /\ UNCHANGED <<now_serving, line>>
  BY <1>1, <1>i, <1>m, <1>r DEF Dealloc, dealloc_node, Return, Books, McsTyped
<1>4. i \in 1 .. Len(used[t]) /\ used[t][i] = m
  <2>1. m \in Range(used[t])
    <3>1. lk[t] \in NodeLocks(t)
      BY MineIs
    <3> QED
      BY <1>2, <1>m, <3>1, NodeFound DEF NodesAreFound, IInv, ThreadBook
  <2>2. /\ Range(used[t]) = {used[t][j] : j \in 1 .. Len(used[t])}
        /\ DOMAIN used[t] = 1 .. Len(used[t])
    <3>1. used[t] \in Seq(Nodes)
      BY <1>1 DEF Books, McsTyped
    <3> QED
      BY ONLY <3>1, RangeOf
  <2> QED
    BY <1>i, <2>1, <2>2
<1>5. used[t] \in Seq(Nodes) /\ free[t] \in Seq(Nodes) /\ IsInjective(used[t])
  BY <1>1 DEF Books, McsTyped, PoolBook
<1>6. r \in Seq(Nodes) /\ Range(r) \subseteq Range(used[t])
  BY <1>4, <1>5, <1>r, RemovedRange
<1>7. /\ used'[t] = r /\ free'[t] = <<m>> \o free[t] /\ pc'[t] = "client"
      /\ held'[t] = held[t] \ {l}
      /\ \A n \in Nodes \ {m} : node'[n] = fields[n]
  BY <1>1, <1>3 DEF Books, McsTyped, QueueTypeOK, ClientTypeOK
<1>8. OnlyMoves(t)
  BY <1>3 DEF OnlyMoves
<1>9. McsTyped'
  <2>1. <<m>> \o free[t] \in Seq(Nodes)
    BY <1>5
  <2>2. free' \in [Threads -> Seq(Nodes)]
    BY <1>1, <1>3, <2>1 DEF Books, McsTyped
  <2>3. used' \in [Threads -> Seq(Nodes)]
    BY <1>1, <1>3, <1>6 DEF Books, McsTyped
  <2>4. /\ mine' \in [Threads -> Nodes \cup {NoNode}] /\ ptr' \in [Threads -> Nodes \cup {NoNode}]
        /\ num' \in [Threads -> Nat] /\ line' \in [Locks -> Seq(Threads)]
    BY <1>1, <1>3 DEF Books, McsTyped
  <2> QED
    BY <2>2, <2>3, <2>4 DEF McsTyped
<1>10. QueueTypeOK'
  <2>1. ClientTypeOK(McsLabels)'
    BY <1>1, <1>3 DEF Books, QueueTypeOK, ClientTypeOK
  <2>2. HtmTypeOK'
    BY <1>1 DEF Books, QueueTypeOK, HtmTypeOK
  <2>3. node' \in [Nodes -> NodeType]
    BY <1>3, SetField
  <2>4. \A n \in Range(free'[t]) \cup Range(used'[t]) : n \in Nodes /\ Owner(n) = t
    <3>1. \A n \in Range(free[t]) \cup Range(used[t]) : n \in Nodes /\ Owner(n) = t
      BY NodeFound DEF NodesAreFound, IInv, ThreadBook
    <3>2. m \in Range(used[t])
      BY <1>4, <1>5, RangeOf
    <3>3. Range(<<m>> \o free[t]) = {m} \cup Range(free[t])
      <4>1. m \notin Range(free[t]) /\ IsInjective(free[t])
        BY <1>1, <3>2 DEF Books, PoolBook
      <4> QED
        BY <1>5, <4>1, ConsRange
    <3> QED
      BY <1>6, <1>7, <3>1, <3>2, <3>3
  <2>5. now_serving' \in [Locks -> Nat]
    BY <1>1, <1>3 DEF Books, QueueTypeOK
  <2> QED
    BY <1>8, <1>9, <2>1, <2>2, <2>3, <2>4, <2>5, Typed
<1>11. ~InTx(t)'
  BY <1>2 DEF InTx
<1>12. Owned(t)' = Owned(t) \ {l} /\ WaitLock(t)' = Null
  BY <1>2, <1>7, <1>11, OutsideAfter DEF WaitLabels
<1>13. SpecBook(t)'
  BY <1>1, <1>2, <1>7, <1>11 DEF Books, SpecBook
<1>14. Leaves(t, l, m, h)
  BY <1>2, <1>7, <1>12, <1>i, <1>m, <1>r DEF Leaves, FlagOf
<1> QED
  BY <1>3, <1>8, <1>9, <1>10, <1>13, <1>14, <1>m

LEMMA CasStep ==
  ASSUME IInv, NEW t \in Threads, UNCHANGED using, Cas(t)
  PROVE  IInv' /\ FifoStep
<1>1. Books(t) /\ node \in [Nodes -> NodeType] /\ pc[t] = "cas"
  BY HasBooks DEF Cas
<1>2. UNCHANGED <<spec_entry, tries, depth, saved, watch, doomed>>
  BY DEF Cas, htmVars
<1>3. doomed' \in [Threads -> BOOLEAN] /\ \A u \in Threads : doomed[u] => doomed'[u]
  BY <1>1, <1>2 DEF Books, QueueTypeOK, HtmTypeOK
<1>4. CASE /\ tail[lk[t]] = mine[t] /\ tail' = [tail EXCEPT ![lk[t]] = NoNode]
           /\ Dealloc(t, node)
  <2>1. tail' \in [Locks -> Nodes \cup {NoNode}]
    BY <1>1, <1>4 DEF Books, QueueTypeOK
  <2>2. /\ QueueTypeOK' /\ McsTyped' /\ OnlyMoves(t) /\ SpecBook(t)'
        /\ Leaves(t, lk[t], mine[t], NoNode) /\ lk[t] \in Locks /\ line' = line
    BY <1>1, <1>2, <1>3, <1>4, <2>1, DeallocFrame DEF FlagOf
  <2> QED
    BY <1>4, <2>2, LeaveEmpty
<1>5. CASE Goto(t, "arriver") /\ UNCHANGED mcsVars
  <2>1. /\ pc' = [pc EXCEPT ![t] = "arriver"] /\ UNCHANGED <<lk, held>>
        /\ UNCHANGED <<tail, now_serving, line, free, used, mine, node, ptr, num>>
    BY <1>5 DEF Goto, mcsVars, listVars
  <2> QED
    BY <1>1, <1>2, <1>3, <2>1, GotoStep
    DEF Books, QueueTypeOK, McsTyped, CalmNode, WaitLabels, McsLabels
<1> QED
  BY <1>4, <1>5 DEF Cas

LEMMA WakeStep ==
  ASSUME IInv, NEW t \in Threads, UNCHANGED using, Wake(t)
  PROVE  IInv' /\ FifoStep
<1>h. PICK h : h = node[mine[t]].next
  OBVIOUS
<1>1. Books(t) /\ node \in [Nodes -> NodeType] /\ pc[t] = "wake" /\ h # NoNode /\ h \in Nodes
  <2>1. Books(t) /\ node \in [Nodes -> NodeType] /\ pc[t] = "wake"
    BY HasBooks DEF Wake
  <2>2. h # NoNode
    BY <1>h, <2>1 DEF Books, CallBook
  <2>3. mine[t] \in Nodes
    BY <2>1, MineIs
  <2> QED
    BY <1>h, <2>1, <2>2, <2>3, SuccessorTyped
<1>f. PICK fields : fields = [node EXCEPT ![h].wait = FALSE]
  OBVIOUS
<1>2. /\ Dealloc(t, fields) /\ tail' = tail
      /\ UNCHANGED <<spec_entry, tries, depth, saved, watch>>
      /\ doomed' = [u \in Threads |-> doomed[u] \/ (mine[u] = h /\ watch[u] # {})]
  BY <1>h, <1>f DEF Wake, DoomWaiter
<1>3. fields \in [Nodes -> NodeType] /\ FlagOf(h, fields)
  <2>1. fields \in [Nodes -> NodeType]
    BY <1>1, <1>f, SetField
  <2> QED
    BY <1>1, <1>f, <2>1 DEF NodeType, FlagOf
<1>4. /\ doomed' \in [Threads -> BOOLEAN] /\ \A u \in Threads : doomed[u] => doomed'[u]
      /\ \A u \in Threads : mine[u] = h /\ watch[u] # {} => doomed'[u]
  BY <1>1, <1>2 DEF Books, QueueTypeOK, HtmTypeOK
<1>5. tail' \in [Locks -> Nodes \cup {NoNode}]
  BY <1>1, <1>2 DEF Books, QueueTypeOK
<1>6. /\ QueueTypeOK' /\ McsTyped' /\ OnlyMoves(t) /\ SpecBook(t)'
      /\ Leaves(t, lk[t], mine[t], h) /\ lk[t] \in Locks /\ line' = line
  <2>1. pc[t] \in {"cas", "wake"}
    BY <1>1
  <2>2. Dealloc(t, fields) /\ UNCHANGED <<spec_entry, tries, depth, saved, watch>>
    BY <1>2
  <2> QED
    BY <1>3, <1>4, <1>5, <2>1, <2>2, DeallocFrame
<1> QED
  BY <1>1, <1>2, <1>4, <1>6, <1>h, LeaveToHeir

LEMMA StepKeeps ==
  ASSUME IInv, LinksInv, [Next]_vars
  PROVE  IInv' /\ FifoStep
<1>1. CASE UNCHANGED vars
  <2>0. /\ UNCHANGED <<using, pc, lk, held, tail, now_serving,
                      node, free, used, mine, ptr, num, line>>
        /\ UNCHANGED <<spec_entry, tries, depth, saved, watch, doomed>>
    BY <1>1 DEF vars, mcsVars, listVars, htmVars
  <2>1. IInv'
    <3>1. QueueTypeOK' /\ McsTyped'
      BY <2>0 DEF IInv, QueueTypeOK, ClientTypeOK, HtmTypeOK, McsTyped
    <3>2. \A t \in Threads : Owned(t)' = Owned(t) /\ WaitLock(t)' = WaitLock(t)
      BY <2>0 DEF Owned, WaitLock, InTx
    <3>3. ASSUME NEW t \in Threads PROVE ThreadBook(t)'
      <4>1. SpecBook(t) /\ CallBook(t) /\ PoolBook(t)
        BY DEF IInv, ThreadBook
      <4>2. SpecBook(t)'
        BY <2>0, <4>1 DEF SpecBook, InTx
      <4>3. CallBook(t)'
        <5>1. UsedNode(t, WaitLock(t))' = UsedNode(t, WaitLock(t))
              /\ UsedNode(t, lk[t])' = UsedNode(t, lk[t])
          <6>1. WaitLock(t)' = WaitLock(t) /\ lk'[t] = lk[t] /\ used' = used /\ node' = node
            BY <2>0, <3>2
          <6> QED
            BY ONLY <6>1 DEF UsedNode
        <5> QED
          BY <2>0, <3>2, <4>1, <5>1 DEF CallBook
      <4>4. PoolBook(t)'
        <5>1. NodeLocks(t)' = NodeLocks(t)
          BY <3>2 DEF NodeLocks
        <5>2. free' = free /\ used' = used /\ node' = node
          BY <2>0
        <5>3. {node'[n].lock : n \in Range(used'[t])} = {node[n].lock : n \in Range(used[t])}
          BY ONLY <5>2
        <5>4. {node'[n].lock : n \in Range(used'[t])} = NodeLocks(t)'
          BY ONLY <4>1, <5>1, <5>3 DEF PoolBook
        <5> QED
          BY ONLY <4>1, <5>2, <5>4 DEF PoolBook
      <4> QED
        BY <4>2, <4>3, <4>4 DEF ThreadBook
    <3>4. ASSUME NEW l \in Locks PROVE QueueBook(l)'
      <4>1. \A u \in Threads : SameFor(u, l)
        BY <2>0, <3>2 DEF SameFor, GoesOn, UsedNode
      <4> QED
        BY <2>0, <4>1, QueueKept
    <3> QED
      BY <3>1, <3>3, <3>4 DEF IInv
  <2>2. UNCHANGED Holds /\ line' = line
    BY <1>1 DEF vars, mcsVars, htmVars, Holds, Owned, InTx
  <2> QED
    BY <2>1, <2>2 DEF FifoStep
<1>2. CASE Next
  <2>1. PICK t \in Threads : Step(t) \/ TxAbort(t) \/ \E l \in Locks : ClientCall(t, l)
    BY <1>2 DEF Next
  <2>2. CASE Step(t)
    <3>1. CASE Swap(t)
      BY <2>2, <3>1, SwappedStep DEF Step, Swap
    <3>2. CASE TrySwap(t)
      BY <2>2, <3>2, TrySwapStep DEF Step
    <3>3. CASE Link(t)
      BY <2>2, <3>3, LinkAction DEF Step
    <3>4. CASE AwaitCount(t)
      BY <2>2, <3>4, AwaitCountStep DEF Step
    <3>5. CASE GetCount(t)
      BY <2>2, <3>5, GetCountStep DEF Step
    <3>6. CASE Window(t)
      BY <2>2, <3>6, WindowStep DEF Step
    <3>7. CASE Begin(t)
      BY <2>2, <3>7, BeginStep DEF Step
    <3>8. CASE CheckFlags(t)
      BY <2>2, <3>8, CheckFlagsStep DEF Step
    <3>9. CASE McsFailed(t)
      BY <2>2, <3>9, McsFailedStep DEF Step
    <3>10. CASE Await(t)
      BY <2>2, <3>10, AwaitStep DEF Step
    <3>11. CASE Count(t)
      BY <2>2, <3>11, CountStep DEF Step
    <3>12. CASE Serve(t)
      BY <2>2, <3>12, ServeStep DEF Step
    <3>13. CASE TestNext(t)
      BY <2>2, <3>13, TestNextStep DEF Step
    <3>14. CASE Cas(t)
      BY <2>2, <3>14, CasStep DEF Step
    <3>15. CASE Arriver(t)
      BY <2>2, <3>15, ArriverStep DEF Step
    <3>16. CASE Halt(t)
      BY <2>2, <3>16, HaltStep DEF Step
    <3>17. CASE Wake(t)
      BY <2>2, <3>17, WakeStep DEF Step
    <3> QED
      BY <2>2, <3>1, <3>2, <3>3, <3>4, <3>5, <3>6, <3>7, <3>8, <3>9, <3>10, <3>11, <3>12, <3>13,
         <3>14, <3>15, <3>16, <3>17 DEF Step
  <2>3. CASE TxAbort(t)
    BY <2>3, AbortStep DEF TxAbort
  <2>4. ASSUME NEW l \in Locks, ClientCall(t, l) PROVE IInv' /\ FifoStep
    BY <2>4, LockStep, UnlockStep DEF ClientCall
  <2> QED
    BY <2>1, <2>2, <2>3, <2>4
<1> QED
  BY <1>1, <1>2
-----------------------------------------------------------------------------
(***************************************************************************)
(* The links between the nodes of a list.                                   *)
(***************************************************************************)

(* From the node first on, the links next lead through s, and the links     *)
(* prev back.                                                              *)
Follows(next, first, s) ==
  first = Entry(s, 1) /\ \A i \in DOMAIN s : next[s[i]] = Entry(s, i + 1)

LeadsBack(prev, s) == \A i \in DOMAIN s : prev[s[i]] = Entry(s, i - 1)

LEMMA LinksOf ==
  ASSUME NEW t
  PROVE  ListsAreLinked(t) <=> /\ Follows(list_next, my_free_nodes[t], free[t])
                               /\ Follows(list_next, my_used_nodes[t], used[t])
                               /\ LeadsBack(list_prev, used[t])
BY DEF ListsAreLinked, LeadsAlong, Follows, LeadsBack

LEMMA LinksOfAfter ==
  ASSUME NEW t
  PROVE  ListsAreLinked(t)' <=> /\ Follows(list_next', my_free_nodes'[t], free'[t])
                                /\ Follows(list_next', my_used_nodes'[t], used'[t])
                                /\ LeadsBack(list_prev', used'[t])
BY DEF ListsAreLinked, LeadsAlong, Follows, LeadsBack

LEMMA EntryIs ==
  ASSUME NEW s \in Seq(Nodes), NEW i \in Int
  PROVE  /\ i \in 1 .. Len(s) => Entry(s, i) = s[i] /\ Entry(s, i) \in Nodes
         /\ i \notin 1 .. Len(s) => Entry(s, i) = NoNode
         /\ Entry(s, i) \in Nodes \cup {NoNode}
         /\ Entry(s, i) # NoNode => i \in 1 .. Len(s) /\ Entry(s, i) \in Range(s)
<1>1. DOMAIN s = 1 .. Len(s) /\ \A j \in 1 .. Len(s) : s[j] \in Nodes /\ s[j] \in Range(s)
  BY RangeOf
<1> QED
  BY <1>1, NoNodeIsNoNode DEF Entry

(* The lists whose nodes keep their links.                                  *)
LEMMA LinksSpared ==
  ASSUME NEW s \in Seq(Nodes), NEW f, NEW g, \A n \in Range(s) : g[n] = f[n]
  PROVE  /\ \A first : Follows(f, first, s) => Follows(g, first, s)
         /\ LeadsBack(f, s) => LeadsBack(g, s)
<1>1. \A i \in DOMAIN s : s[i] \in Range(s)
  BY RangeOf
<1> QED
  BY <1>1 DEF Follows, LeadsBack

LEMMA ConsEntry ==
  ASSUME NEW s \in Seq(Nodes), NEW m \in Nodes
  PROVE  /\ <<m>> \o s \in Seq(Nodes) /\ Len(<<m>> \o s) = Len(s) + 1
         /\ Entry(<<m>> \o s, 1) = m /\ Entry(<<m>> \o s, 0) = NoNode
         /\ \A i \in Nat \ {0} : Entry(<<m>> \o s, i + 1) = Entry(s, i)
<1> DEFINE r == <<m>> \o s
<1>1. /\ r \in Seq(Nodes) /\ Len(r) = Len(s) + 1 /\ Len(s) \in Nat
      /\ r[1] = m /\ \A i \in 1 .. Len(s) : r[i + 1] = s[i]
  OBVIOUS
<1> HIDE DEF r
<1>2. Entry(r, 1) = m /\ Entry(r, 0) = NoNode
  BY <1>1, EntryIs
<1>3. ASSUME NEW i \in Nat \ {0} PROVE Entry(r, i + 1) = Entry(s, i)
  <2>1. i + 1 \in 1 .. Len(r) <=> i \in 1 .. Len(s)
    BY <1>1
  <2> QED
    BY <1>1, <2>1, EntryIs
<1> QED
  BY <1>1, <1>2, <1>3 DEF r

(* A node is put in front: the links of the new list.                       *)
LEMMA LinkedInFront ==
  ASSUME NEW s \in Seq(Nodes), NEW m \in Nodes, m \notin Range(s), NEW f, NEW g, NEW first,
         Follows(f, first, s), g[m] = first, \A n \in Range(s) : g[n] = f[n]
  PROVE  Follows(g, m, <<m>> \o s)
<1> DEFINE r == <<m>> \o s
<1>1. /\ r \in Seq(Nodes) /\ Len(r) = Len(s) + 1 /\ Len(s) \in Nat
      /\ r[1] = m /\ \A i \in 1 .. Len(s) : r[i + 1] = s[i]
  OBVIOUS
<1>2. Entry(r, 1) = m /\ \A i \in Nat \ {0} : Entry(r, i + 1) = Entry(s, i)
  BY ConsEntry
<1> HIDE DEF r
<1>3. ASSUME NEW i \in DOMAIN r PROVE g[r[i]] = Entry(r, i + 1)
  <2>1. CASE i = 1
    BY <1>1, <1>2, <2>1 DEF Follows
  <2>2. CASE i # 1
    <3>1. PICK j : j = i - 1
      OBVIOUS
    <3>2. j \in 1 .. Len(s) /\ j + 1 = i /\ j \in Nat \ {0} /\ j \in DOMAIN s
          /\ i \in Nat \ {0}
      BY <1>1, <2>2, <3>1
    <3>3. r[i] = s[j] /\ s[j] \in Range(s)
      BY <1>1, <3>2, RangeOf
    <3>4. g[s[j]] = Entry(s, i)
      BY <3>2, <3>3 DEF Follows
    <3> QED
      BY <1>2, <3>2, <3>3, <3>4
  <2> QED
    BY <2>1, <2>2
<1> QED
  BY <1>2, <1>3 DEF Follows, r

(* The first node is taken away.                                            *)
LEMMA LinkedBehind ==
  ASSUME NEW s \in Seq(Nodes), s # <<>>, IsInjective(s), NEW f, NEW g, NEW first,
         Follows(f, first, s), \A n \in Range(s) \ {s[1]} : g[n] = f[n]
  PROVE  first = s[1] /\ Follows(g, f[s[1]], Tail(s))
<1>1. /\ Tail(s) \in Seq(Nodes) /\ Len(Tail(s)) = Len(s) - 1 /\ Len(s) \in Nat \ {0}
      /\ \A i \in 1 .. Len(Tail(s)) : Tail(s)[i] = s[i + 1]
  OBVIOUS
<1>2. PICK r \in Seq(Nodes) : r = Tail(s)
  BY <1>1
<1>3. ASSUME NEW i \in Nat \ {0} PROVE Entry(r, i) = Entry(s, i + 1)
  <2>1. i \in 1 .. Len(r) <=> i + 1 \in 1 .. Len(s)
    BY <1>1, <1>2
  <2>2. i \in 1 .. Len(r) => r[i] = s[i + 1]
    BY <1>1, <1>2
  <2>3. i \in Int /\ i + 1 \in Int
    OBVIOUS
  <2> QED
    BY <2>1, <2>2, <2>3, EntryIs
<1>4. 1 \in DOMAIN s /\ first = s[1] /\ f[s[1]] = Entry(s, 2)
  <2>1. 1 \in DOMAIN s
    BY <1>1
  <2>2. first = Entry(s, 1) /\ f[s[1]] = Entry(s, 1 + 1)
    BY <2>1 DEF Follows
  <2>3. Entry(s, 1) = s[1] /\ 1 + 1 = 2
    BY <2>1 DEF Entry
  <2> QED
    BY <2>1, <2>2, <2>3
<1>5. \A i, j \in 1 .. Len(s) : s[i] = s[j] => i = j
  BY RangeOf
<1>6. ASSUME NEW i \in DOMAIN r PROVE g[r[i]] = Entry(r, i + 1)
  <2>1. i \in Nat \ {0} /\ i + 1 \in 1 .. Len(s) /\ i + 1 # 1 /\ r[i] = s[i + 1]
        /\ 1 \in 1 .. Len(s) /\ i + 1 \in DOMAIN s
    BY <1>1, <1>2
  <2>2. s[i + 1] \in Range(s) \ {s[1]}
    BY <1>5, <2>1, RangeOf
  <2>3. g[r[i]] = Entry(s, (i + 1) + 1)
    BY <2>1, <2>2 DEF Follows
  <2>4. Entry(r, i + 1) = Entry(s, (i + 1) + 1)
    BY <1>3, <2>1
  <2> QED
    BY <2>3, <2>4
<1>7. Entry(r, 1) = Entry(s, 2)
  BY <1>3
<1> QED
  BY <1>2, <1>4, <1>6, <1>7 DEF Follows

(* The links back, after a node has been put in front.                      *)
LEMMA LinkedBackInFront ==
  ASSUME NEW s \in Seq(Nodes), NEW m \in Nodes, m \notin Range(s), IsInjective(s),
         NEW f \in [Nodes -> Nodes \cup {NoNode}], LeadsBack(f, s)
  PROVE  LeadsBack([Store(f, Entry(s, 1), m) EXCEPT ![m] = NoNode], <<m>> \o s)
<1> DEFINE r == <<m>> \o s
<1>1. /\ r \in Seq(Nodes) /\ Len(r) = Len(s) + 1 /\ Len(s) \in Nat
      /\ r[1] = m /\ \A i \in 1 .. Len(s) : r[i + 1] = s[i]
  OBVIOUS
<1>2. /\ Entry(r, 1) = m /\ Entry(r, 0) = NoNode
      /\ \A i \in Nat \ {0} : Entry(r, i + 1) = Entry(s, i)
  BY ConsEntry
<1> HIDE DEF r
<1>3. PICK e \in Nodes \cup {NoNode} : e = Entry(s, 1)
  BY EntryIs
<1>4. PICK g : g = [Store(f, e, m) EXCEPT ![m] = NoNode]
  OBVIOUS
<1>5. g[m] = NoNode /\ \A n \in Nodes \ {m} : g[n] = IF n = e THEN m ELSE f[n]
  BY <1>3, <1>4, NoNodeIsNoNode DEF Store
<1>6. \A i, j \in 1 .. Len(s) : s[i] = s[j] => i = j
  BY RangeOf
<1>7. ASSUME NEW i \in DOMAIN r PROVE g[r[i]] = Entry(r, i - 1)
  <2>1. CASE i = 1
    <3>1. i - 1 = 0
      BY <2>1
    <3> QED
      BY <1>1, <1>2, <1>5, <2>1, <3>1
  <2>2. CASE i # 1
    <3>1. PICK j : j = i - 1
      OBVIOUS
    <3>2. j \in 1 .. Len(s) /\ j + 1 = i /\ j \in DOMAIN s /\ 1 \in 1 .. Len(s)
      BY <1>1, <2>2, <3>1
    <3>3. r[i] = s[j] /\ s[j] \in Range(s) /\ s[j] \in Nodes \ {m} /\ e = s[1]
      BY <1>1, <1>3, <3>2, RangeOf, EntryIs
    <3>4. CASE j = 1
      BY <1>2, <1>5, <3>1, <3>3, <3>4
    <3>5. CASE j # 1
      <4>1. g[s[j]] = f[s[j]] /\ f[s[j]] = Entry(s, j - 1)
        BY <1>5, <1>6, <3>2, <3>3, <3>5 DEF LeadsBack
      <4>2. j - 1 \in Nat \ {0} /\ (j - 1) + 1 = j
        BY <3>2, <3>5
      <4>3. Entry(r, (j - 1) + 1) = Entry(s, j - 1)
        BY ONLY <1>2, <4>2
      <4> QED
        BY <3>1, <3>3, <4>1, <4>2, <4>3
    <3> QED
      BY <3>4, <3>5
  <2> QED
    BY <2>1, <2>2
<1> QED
  BY <1>3, <1>4, <1>7 DEF LeadsBack, r

(* What taking the node in place k out of a list does to it.                *)
LEMMA RemovedEntry ==
  ASSUME NEW s \in Seq(Nodes), IsInjective(s), NEW k \in 1 .. Len(s), NEW r, r = RemoveAt(s, k)
  PROVE  /\ r \in Seq(Nodes) /\ DOMAIN r = 1 .. Len(s) - 1
         /\ \A i \in Nat : Entry(r, i) = IF i < k THEN Entry(s, i) ELSE Entry(s, i + 1)
<1>1. /\ r \in Seq(Nodes) /\ Len(r) = Len(s) - 1 /\ Len(s) \in Nat /\ k \in Nat
      /\ 1 <= k /\ k <= Len(s) /\ DOMAIN r = 1 .. Len(r)
      /\ \A j \in 1 .. Len(s) - 1 : r[j] = IF j < k THEN s[j] ELSE s[j + 1]
  BY RemovedRange
<1>2. ASSUME NEW i \in Nat
      PROVE  Entry(r, i) = IF i < k THEN Entry(s, i) ELSE Entry(s, i + 1)
  <2>1. CASE i < k
    <3>1. i \in 1 .. Len(r) <=> i \in 1 .. Len(s)
      BY <1>1, <2>1
    <3>2. i \in 1 .. Len(r) => r[i] = s[i]
      BY <1>1, <2>1
    <3>3. Entry(r, i) = Entry(s, i)
      BY <1>1, <3>1, <3>2, EntryIs
    <3> QED
      BY <2>1, <3>3
  <2>2. CASE ~(i < k)
    <3>1. i \in 1 .. Len(r) <=> i + 1 \in 1 .. Len(s)
      BY <1>1, <2>2
    <3>2. i \in 1 .. Len(r) => r[i] = s[i + 1]
      BY <1>1, <2>2
    <3>3. Entry(r, i) = Entry(s, i + 1)
      BY <1>1, <3>1, <3>2, EntryIs
    <3> QED
      BY <2>2, <3>3
  <2> QED
    BY <2>1, <2>2
<1> QED
  BY <1>1, <1>2

(* The links around the place k lead past it.                               *)
LEMMA LinkedPast ==
  ASSUME NEW s \in Seq(Nodes), IsInjective(s), NEW k \in 1 .. Len(s), NEW f, NEW first,
         Follows(f, first, s), NEW g,
         \A n \in Range(s) \ {s[k]} :
           g[n] = IF n = Entry(s, k - 1) THEN Entry(s, k + 1) ELSE f[n]
  PROVE  Follows(g, IF k = 1 THEN Entry(s, k + 1) ELSE first, RemoveAt(s, k))
<1>r. PICK r : r = RemoveAt(s, k)
  OBVIOUS
<1>1. /\ r \in Seq(Nodes) /\ DOMAIN r = 1 .. Len(s) - 1 /\ k \in Nat \ {0} /\ k <= Len(s)
      /\ Len(s) \in Nat /\ DOMAIN s = 1 .. Len(s)
  BY <1>r, RemovedEntry
<1>e. \A i \in Nat : Entry(r, i) = IF i < k THEN Entry(s, i) ELSE Entry(s, i + 1)
  BY <1>r, RemovedEntry
<1>2. \A i, j \in 1 .. Len(s) : s[i] = s[j] => i = j
  BY RangeOf
<1>3. ASSUME NEW j \in 1 .. Len(s), j # k
      PROVE  g[s[j]] = IF j = k - 1 THEN Entry(s, k + 1) ELSE Entry(s, j + 1)
  <2>1. s[j] \in Range(s) \ {s[k]}
    BY <1>2, <1>3, RangeOf
  <2>2. s[j] = Entry(s, k - 1) <=> j = k - 1
    <3>1. CASE k = 1
      <4>1. k - 1 \notin 1 .. Len(s) /\ k - 1 \in Int /\ j # k - 1
        BY <3>1
      <4>2. Entry(s, k - 1) = NoNode /\ s[j] # NoNode
        BY <4>1, EntryIs, NoNodeIsNoNode
      <4> QED
        BY <4>1, <4>2
    <3>2. CASE k # 1
      <4>1. k - 1 \in 1 .. Len(s)
        BY <1>1, <3>2
      <4>2. Entry(s, k - 1) = s[k - 1]
        BY <4>1, EntryIs
      <4> QED
        BY <1>2, <4>1, <4>2
    <3> QED
      BY <3>1, <3>2
  <2>3. f[s[j]] = Entry(s, j + 1)
    BY <1>1 DEF Follows
  <2> QED
    BY <2>1, <2>2, <2>3
<1>4. ASSUME NEW i \in DOMAIN r PROVE g[r[i]] = Entry(r, i + 1)
  <2>1. i \in 1 .. Len(s) - 1 /\ i \in Nat /\ i + 1 \in Nat /\ i + 1 + 1 \in Nat
        /\ i \in 1 .. Len(s) /\ i + 1 \in 1 .. Len(s)
    BY <1>1
  <2>2. CASE i < k
    <3>0. i # k /\ (i = k - 1 <=> ~(i + 1 < k))
      BY <1>1, <2>1, <2>2
    <3>1. r[i] = s[i]
      <4>1. r[i] = Entry(r, i)
        BY DEF Entry
      <4>2. Entry(r, i) = Entry(s, i)
        BY <1>1, <1>e, <2>1, <2>2
      <4>3. Entry(s, i) = s[i]
        BY <1>1, <2>1 DEF Entry
      <4> QED
        BY <4>1, <4>2, <4>3
    <3>2. CASE i = k - 1
      <4>1. i + 1 = k /\ ~(i + 1 < k) /\ (i + 1) + 1 = k + 1
        BY <1>1, <2>1, <3>2
      <4>2. g[s[i]] = Entry(s, k + 1)
        BY <1>3, <2>1, <3>0, <3>2
      <4>3. Entry(r, i + 1) = Entry(s, (i + 1) + 1)
        BY <1>1, <1>e, <2>1, <4>1
      <4> QED
        BY <3>1, <4>1, <4>2, <4>3
    <3>3. CASE i # k - 1
      <4>1. g[s[i]] = Entry(s, i + 1)
        BY <1>3, <2>1, <3>0, <3>3
      <4>2. Entry(r, i + 1) = Entry(s, i + 1)
        BY <1>1, <1>e, <2>1, <3>0, <3>3
      <4> QED
        BY <3>1, <4>1, <4>2
    <3> QED
      BY <3>2, <3>3
  <2>3. CASE ~(i < k)
    <3>1. r[i] = s[i + 1]
      <4>1. r[i] = Entry(r, i)
        BY DEF Entry
      <4>2. Entry(r, i) = Entry(s, i + 1)
        BY <1>1, <1>e, <2>1, <2>3
      <4>3. Entry(s, i + 1) = s[i + 1]
        BY <1>1, <2>1 DEF Entry
      <4> QED
        BY <4>1, <4>2, <4>3
    <3>2. i + 1 # k /\ i + 1 # k - 1 /\ ~(i + 1 < k)
      BY <1>1, <2>1, <2>3
    <3>3. g[s[i + 1]] = Entry(s, (i + 1) + 1)
      BY <1>3, <2>1, <3>2
    <3>4. Entry(r, i + 1) = Entry(s, (i + 1) + 1)
      BY <1>1, <1>e, <2>1, <3>2
    <3> QED
      BY <3>1, <3>3, <3>4
  <2> QED
    BY <2>2, <2>3
<1>5. Entry(r, 1) = IF k = 1 THEN Entry(s, k + 1) ELSE first
  <2>1. CASE k = 1
    <3>1. ~(1 < k) /\ 1 + 1 = k + 1
      BY <2>1
    <3>2. Entry(r, 1) = Entry(s, 1 + 1)
      BY <1>1, <1>e, <3>1
    <3> QED
      BY <2>1, <3>1, <3>2
  <2>2. CASE k # 1
    <3>1. 1 < k
      BY <1>1, <2>2
    <3>2. Entry(r, 1) = Entry(s, 1)
      BY <1>1, <1>e, <3>1
    <3> QED
      BY <2>2, <3>2 DEF Follows
  <2> QED
    BY <2>1, <2>2
<1> QED
  BY <1>r, <1>4, <1>5 DEF Follows

LEMMA LinkedBackPast ==
  ASSUME NEW s \in Seq(Nodes), IsInjective(s), NEW k \in 1 .. Len(s), NEW f, LeadsBack(f, s),
         NEW g,
         \A n \in Range(s) \ {s[k]} :
           g[n] = IF n = Entry(s, k + 1) THEN Entry(s, k - 1) ELSE f[n]
  PROVE  LeadsBack(g, RemoveAt(s, k))
<1>r. PICK r : r = RemoveAt(s, k)
  OBVIOUS
<1>1. /\ r \in Seq(Nodes) /\ DOMAIN r = 1 .. Len(s) - 1 /\ k \in Nat \ {0} /\ k <= Len(s)
      /\ Len(s) \in Nat /\ DOMAIN s = 1 .. Len(s)
  BY <1>r, RemovedEntry
<1>e. \A i \in Nat : Entry(r, i) = IF i < k THEN Entry(s, i) ELSE Entry(s, i + 1)
  BY <1>r, RemovedEntry
<1>2. \A i, j \in 1 .. Len(s) : s[i] = s[j] => i = j
  BY RangeOf
<1>3. ASSUME NEW j \in 1 .. Len(s), j # k
      PROVE  g[s[j]] = IF j = k + 1 THEN Entry(s, k - 1) ELSE Entry(s, j - 1)
  <2>1. s[j] \in Range(s) \ {s[k]}
    BY <1>2, <1>3, RangeOf
  <2>2. s[j] = Entry(s, k + 1) <=> j = k + 1
    <3>1. CASE k = Len(s)
      <4>1. k + 1 \notin 1 .. Len(s) /\ k + 1 \in Int /\ j # k + 1
        BY <1>1, <3>1
      <4>2. Entry(s, k + 1) = NoNode /\ s[j] # NoNode
        BY <4>1, EntryIs, NoNodeIsNoNode
      <4> QED
        BY <4>1, <4>2
    <3>2. CASE k # Len(s)
      <4>1. k + 1 \in 1 .. Len(s)
        <5>1. \A a, b \in Nat : a <= b /\ a # b => a + 1 \in 1 .. b
          OBVIOUS
        <5> QED
          BY <1>1, <3>2, <5>1
      <4>2. Entry(s, k + 1) = s[k + 1]
        BY <4>1, EntryIs
      <4> QED
        BY <1>2, <4>1, <4>2
    <3> QED
      BY <3>1, <3>2
  <2>3. f[s[j]] = Entry(s, j - 1)
    BY <1>1 DEF LeadsBack
  <2> QED
    BY <2>1, <2>2, <2>3
<1>4. ASSUME NEW i \in DOMAIN r PROVE g[r[i]] = Entry(r, i - 1)
  <2>1. i \in 1 .. Len(s) - 1 /\ i \in Nat /\ i - 1 \in Nat /\ (i + 1) - 1 = i
        /\ i \in 1 .. Len(s) /\ i + 1 \in 1 .. Len(s) /\ (i - 1) + 1 = i
    BY <1>1
  <2>2. CASE i < k
    <3>1. i # k /\ i # k + 1 /\ i - 1 < k
      BY <1>1, <2>1, <2>2
    <3>2. r[i] = s[i]
      <4>1. r[i] = Entry(r, i)
        BY DEF Entry
      <4>2. Entry(r, i) = Entry(s, i)
        BY <1>1, <1>e, <2>1, <2>2
      <4>3. Entry(s, i) = s[i]
        BY <1>1, <2>1 DEF Entry
      <4> QED
        BY <4>1, <4>2, <4>3
    <3>3. g[s[i]] = Entry(s, i - 1)
      BY <1>3, <2>1, <3>1
    <3>4. Entry(r, i - 1) = Entry(s, i - 1)
      BY <1>1, <1>e, <2>1, <3>1
    <3> QED
      BY <3>2, <3>3, <3>4
  <2>3. CASE ~(i < k)
    <3>1. r[i] = s[i + 1]
      <4>1. r[i] = Entry(r, i)
        BY DEF Entry
      <4>2. Entry(r, i) = Entry(s, i + 1)
        BY <1>1, <1>e, <2>1, <2>3
      <4>3. Entry(s, i + 1) = s[i + 1]
        BY <1>1, <2>1 DEF Entry
      <4> QED
        BY <4>1, <4>2, <4>3
    <3>2. i + 1 # k
      BY <1>1, <2>1, <2>3
    <3>3. CASE i = k
      <4>1. g[s[i + 1]] = Entry(s, k - 1)
        BY <1>3, <2>1, <3>2, <3>3
      <4>2. i - 1 < k
        BY <1>1, <3>3
      <4>3. Entry(r, i - 1) = Entry(s, i - 1)
        BY <1>1, <1>e, <2>1, <4>2
      <4> QED
        BY <3>1, <3>3, <4>1, <4>3
    <3>4. CASE i # k
      <4>1. ~(i - 1 < k) /\ i + 1 # k + 1
        BY <1>1, <2>1, <2>3, <3>4
      <4>2. g[s[i + 1]] = Entry(s, (i + 1) - 1)
        BY <1>3, <2>1, <3>2, <4>1
      <4>3. Entry(r, i - 1) = Entry(s, (i - 1) + 1)
        BY <1>1, <1>e, <2>1, <4>1
      <4> QED
        BY <2>1, <3>1, <4>2, <4>3
    <3> QED
      BY <3>3, <3>4
  <2> QED
    BY <2>2, <2>3
<1> QED
  BY <1>r, <1>4 DEF LeadsBack

(***************************************************************************)
(* The steps keep the links.                                                *)
(***************************************************************************)
LEMMA ListsAre ==
  ASSUME IInv, LinksInv, NEW t \in Threads
  PROVE  /\ free[t] \in Seq(Nodes) /\ used[t] \in Seq(Nodes)
         /\ IsInjective(free[t]) /\ IsInjective(used[t])
         /\ Range(free[t]) \cap Range(used[t]) = {}
         /\ Range(free[t]) \subseteq Nodes /\ Range(used[t]) \subseteq Nodes
         /\ \A n \in Range(free[t]) \cup Range(used[t]) : n \in Nodes /\ Owner(n) = t
         /\ Follows(list_next, my_free_nodes[t], free[t])
         /\ Follows(list_next, my_used_nodes[t], used[t])
         /\ LeadsBack(list_prev, used[t])
<1>1. McsTyped /\ PoolBook(t) /\ ListsAreLinked(t)
  BY DEF IInv, ThreadBook, LinksInv
<1>2. \A n \in Range(free[t]) \cup Range(used[t]) : n \in Nodes /\ Owner(n) = t
  BY <1>1, NodeFound DEF NodesAreFound
<1> QED
  BY <1>1, <1>2, LinksOf DEF McsTyped, PoolBook

LEMMA LinksTyped ==
  LinksInv => /\ my_free_nodes \in [Threads -> Nodes \cup {NoNode}]
              /\ my_used_nodes \in [Threads -> Nodes \cup {NoNode}]
              /\ list_next \in [Nodes -> Nodes \cup {NoNode}]
              /\ list_prev \in [Nodes -> Nodes \cup {NoNode}]
BY DEF LinksInv, LinksTypeOK

(* The lists of a thread, and the links of its nodes, are as they were.     *)
ListsSpared(u) ==
  /\ my_free_nodes'[u] = my_free_nodes[u] /\ my_used_nodes'[u] = my_used_nodes[u]
  /\ free'[u] = free[u] /\ used'[u] = used[u]
  /\ \A n \in Range(free[u]) \cup Range(used[u]) :
       list_next'[n] = list_next[n] /\ list_prev'[n] = list_prev[n]

LEMMA SparedAreLinked ==
  ASSUME IInv, LinksInv, NEW u \in Threads, ListsSpared(u)
  PROVE  ListsAreLinked(u)'
<1>1. Follows(list_next', my_free_nodes'[u], free'[u])
  BY ListsAre, LinksSpared DEF ListsSpared
<1>2. Follows(list_next', my_used_nodes'[u], used'[u])
  BY ListsAre, LinksSpared DEF ListsSpared
<1>3. LeadsBack(list_prev', used'[u])
  BY ListsAre, LinksSpared DEF ListsSpared
<1> QED
  BY <1>1, <1>2, <1>3, LinksOfAfter

(* Only the lists of t and the links of its nodes change.                   *)
LEMMA OnlyMine ==
  ASSUME IInv, LinksInv, NEW t \in Threads, LinksTypeOK', ListsAreLinked(t)',
         \A u \in Threads \ {t} :
           /\ my_free_nodes'[u] = my_free_nodes[u] /\ my_used_nodes'[u] = my_used_nodes[u]
           /\ free'[u] = free[u] /\ used'[u] = used[u],
         \A n \in Nodes :
           Owner(n) # t => list_next'[n] = list_next[n] /\ list_prev'[n] = list_prev[n]
  PROVE  LinksInv'
<1>1. ASSUME NEW u \in Threads \ {t} PROVE ListsAreLinked(u)'
  <2>1. \A n \in Range(free[u]) \cup Range(used[u]) : n \in Nodes /\ Owner(n) = u
    BY ListsAre
  <2>2. ListsSpared(u)
    BY <2>1 DEF ListsSpared
  <2> QED
    BY <2>2, SparedAreLinked
<1> QED
  BY <1>1 DEF LinksInv

LEMMA SameLinks ==
  ASSUME LinksInv, UNCHANGED listVars
  PROVE  LinksInv'
<1>1. /\ my_free_nodes' = my_free_nodes /\ my_used_nodes' = my_used_nodes
      /\ list_next' = list_next /\ list_prev' = list_prev /\ free' = free /\ used' = used
  BY DEF listVars
<1>2. LinksTypeOK'
  BY <1>1 DEF LinksInv, LinksTypeOK
<1>3. \A t \in Threads : ListsAreLinked(t)'
  BY <1>1 DEF LinksInv, ListsAreLinked, LeadsAlong
<1> QED
  BY <1>2, <1>3 DEF LinksInv

(* The new nodes are the free list.                                        *)
LEMMA AllocLinks ==
  ASSUME IInv, LinksInv, NEW t \in Threads, spec_entry[t] = Null, pc[t] = "client",
         NEW l \in Locks \ held[t], GetFreeNodes(t)
  PROVE  LinksInv'
<1>1. CASE UNCHANGED listVars
  BY <1>1, SameLinks
<1>2. CASE alloc_more_nodes(t) /\ my_free_nodes[t] = NoNode
  <2>1. PICK s, k : s = NewNodes(t) /\ k = Len(used[t])
    OBVIOUS
  <2>2. /\ s \in Seq(Nodes) /\ s # <<>> /\ Range(s) \cap Range(used[t]) = {}
        /\ \A n \in Range(s) : n \in Nodes /\ Owner(n) = t
    <3>1. Pool(t) # <<>>
      BY PoolHasNode
    <3>2. free[t] = <<>>
      BY <1>2, <3>1, FreeNodesAre
    <3>3. Pool(t) = s
      BY <2>1, <3>2 DEF Pool
    <3> QED
      BY <3>3, PoolHasNode
  <2>3. k \in Nat /\ NumNodes \in Nat \ {0}
    <3>1. used[t] \in Seq(Nodes)
      BY ListsAre
    <3> QED
      BY <2>1, <3>1
  <2>4. /\ Len(s) = NumNodes /\ DOMAIN s = 1 .. NumNodes
        /\ \A i \in 1 .. NumNodes : s[i] = <<t, k + i>>
    BY <2>1, <2>2 DEF NewNodes
  <2>5. /\ list_next' = [n \in Nodes |-> IF n \notin Range(s) THEN list_next[n]
                                         ELSE IF n = s[NumNodes] THEN NoNode ELSE <<t, n[2] + 1>>]
        /\ list_prev' = [n \in Nodes |-> IF n \in Range(s) THEN NoNode ELSE list_prev[n]]
        /\ my_free_nodes' = [my_free_nodes EXCEPT ![t] = s[1]]
        /\ free' = [free EXCEPT ![t] = s]
        /\ my_used_nodes' = my_used_nodes /\ used' = used
    BY <1>2, <2>1 DEF alloc_more_nodes
  <2>6. Range(s) = {s[i] : i \in 1 .. NumNodes}
    BY <2>2, <2>4, RangeOf
  <2>7. free'[t] = s /\ my_free_nodes'[t] = s[1] /\ s[1] \in Nodes
    <3>1. free \in [Threads -> Seq(Nodes)] /\ my_free_nodes \in [Threads -> Nodes \cup {NoNode}]
      BY LinksTyped DEF IInv, McsTyped
    <3>2. 1 \in 1 .. NumNodes
      BY <2>3
    <3> QED
      BY <2>2, <2>4, <2>5, <3>1, <3>2
  <2>8. ASSUME NEW i \in 1 .. NumNodes PROVE list_next'[s[i]] = Entry(s, i + 1)
    <3>1. s[i] \in Range(s) /\ s[i] \in Nodes /\ s[i] = <<t, k + i>> /\ s[i][2] = k + i
      BY <2>2, <2>4, <2>6
    <3>2. CASE i = NumNodes
      <4>1. i + 1 \notin DOMAIN s
        BY <2>4, <3>2
      <4>2. list_next'[s[i]] = NoNode
        BY <2>5, <3>1, <3>2
      <4> QED
        BY <4>1, <4>2 DEF Entry
    <3>3. CASE i # NumNodes
      <4>1. i + 1 \in 1 .. NumNodes /\ NumNodes \in 1 .. NumNodes /\ (k + i) + 1 = k + (i + 1)
            /\ k + i # k + NumNodes
        BY <2>3, <3>3
      <4>2. s[i + 1] = <<t, k + (i + 1)>> /\ s[NumNodes] = <<t, k + NumNodes>>
        BY <2>4, <4>1
      <4>3. s[i] # s[NumNodes]
        BY <3>1, <4>1, <4>2
      <4>4. list_next'[s[i]] = <<t, (k + i) + 1>>
        BY <2>5, <3>1, <4>3
      <4> QED
        BY <2>4, <4>1, <4>2, <4>4 DEF Entry
    <3> QED
      BY <3>2, <3>3
  <2>9. Follows(list_next', my_free_nodes'[t], free'[t])
    <3>1. Entry(s, 1) = s[1]
      BY <2>3, <2>4 DEF Entry
    <3> QED
      BY <2>4, <2>7, <2>8, <3>1 DEF Follows
  <2>10. \A n \in Nodes \ Range(s) : list_next'[n] = list_next[n] /\ list_prev'[n] = list_prev[n]
    BY <2>5
  <2>11. Range(used[t]) \subseteq Nodes \ Range(s)
    BY <2>2, ListsAre
  <2>12. Follows(list_next', my_used_nodes'[t], used'[t])
    <3>1. \A n \in Range(used[t]) : list_next'[n] = list_next[n]
      BY <2>10, <2>11
    <3>2. Follows(list_next', my_used_nodes[t], used[t])
      BY <3>1, ListsAre, LinksSpared
    <3> QED
      BY <2>5, <3>2
  <2>13. LeadsBack(list_prev', used'[t])
    <3>1. \A n \in Range(used[t]) : list_prev'[n] = list_prev[n]
      BY <2>10, <2>11
    <3>2. LeadsBack(list_prev', used[t])
      BY <3>1, ListsAre, LinksSpared
    <3> QED
      BY <2>5, <3>2
  <2>14. ListsAreLinked(t)'
    BY <2>9, <2>12, <2>13, LinksOfAfter
  <2>15. LinksTypeOK'
    <3>1. \A n \in Nodes : list_next'[n] \in Nodes \cup {NoNode}
      <4>1. ASSUME NEW n \in Range(s) PROVE list_next'[n] \in Nodes \cup {NoNode}
        <5>1. PICK i \in 1 .. NumNodes : n = s[i]
          BY <2>6
        <5>2. i + 1 \in Int
          OBVIOUS
        <5> QED
          BY <2>2, <2>8, <5>1, <5>2, EntryIs
      <4>2. list_next \in [Nodes -> Nodes \cup {NoNode}]
        BY LinksTyped
      <4> QED
        BY <2>10, <4>1, <4>2
    <3>2. list_next' \in [Nodes -> Nodes \cup {NoNode}]
      BY <2>5, <3>1
    <3>3. list_prev' \in [Nodes -> Nodes \cup {NoNode}]
      BY <2>5, LinksTyped
    <3>4. /\ my_free_nodes' \in [Threads -> Nodes \cup {NoNode}]
          /\ my_used_nodes' \in [Threads -> Nodes \cup {NoNode}]
      BY <2>5, <2>7, LinksTyped
    <3> QED
      BY <3>2, <3>3, <3>4 DEF LinksTypeOK
  <2>16. \A u \in Threads \ {t} :
           /\ my_free_nodes'[u] = my_free_nodes[u] /\ my_used_nodes'[u] = my_used_nodes[u]
           /\ free'[u] = free[u] /\ used'[u] = used[u]
    BY <2>5
  <2>17. \A n \in Nodes : Owner(n) # t =>
           list_next'[n] = list_next[n] /\ list_prev'[n] = list_prev[n]
    BY <2>2, <2>10
  <2> QED
    BY <2>14, <2>15, <2>16, <2>17, OnlyMine
<1> QED
  BY <1>1, <1>2 DEF GetFreeNodes

(* The first free node becomes the first used one.                          *)
LEMMA UseLinks ==
  ASSUME IInv, LinksInv, NEW t \in Threads, free[t] # <<>>, mine[t] = free[t][1], UseNode(t)
  PROVE  LinksInv'
<1>1. PICK a, b, m : a = free[t] /\ b = used[t] /\ m = mine[t]
  OBVIOUS
<1>2. /\ a \in Seq(Nodes) /\ b \in Seq(Nodes) /\ IsInjective(a) /\ IsInjective(b)
      /\ Range(a) \cap Range(b) = {} /\ Range(a) \subseteq Nodes /\ Range(b) \subseteq Nodes
      /\ \A n \in Range(a) \cup Range(b) : n \in Nodes /\ Owner(n) = t
      /\ Follows(list_next, my_free_nodes[t], a) /\ Follows(list_next, my_used_nodes[t], b)
      /\ LeadsBack(list_prev, b) /\ a # <<>> /\ m = a[1]
  BY <1>1, ListsAre
<1>3. m \in Range(a) /\ m \in Nodes /\ m \notin Range(b) /\ Owner(m) = t
  <2>1. 1 \in 1 .. Len(a)
    BY <1>2
  <2>2. m \in Range(a)
    BY <1>2, <2>1, RangeOf
  <2> QED
    BY <1>2, <2>2
<1>4. PICK e : e = my_used_nodes[t]
  OBVIOUS
<1>5. e = Entry(b, 1) /\ e \in Nodes \cup {NoNode} /\ (e # NoNode => Owner(e) = t)
  <2>1. e = Entry(b, 1)
    BY <1>2, <1>4 DEF Follows
  <2>2. /\ Entry(b, 1) \in Nodes \cup {NoNode}
        /\ Entry(b, 1) # NoNode => Entry(b, 1) \in Range(b)
    BY <1>2, EntryIs
  <2> QED
    BY <1>2, <2>1, <2>2
<1>6. /\ my_free_nodes' = [my_free_nodes EXCEPT ![t] = list_next[m]]
      /\ list_next' = [list_next EXCEPT ![m] = e]
      /\ list_prev' = [Store(list_prev, e, m) EXCEPT ![m] = NoNode]
      /\ my_used_nodes' = [my_used_nodes EXCEPT ![t] = m]
      /\ free' = [free EXCEPT ![t] = Tail(a)]
      /\ used' = [used EXCEPT ![t] = <<m>> \o b]
  BY <1>1, <1>4 DEF UseNode, IInv, McsTyped
<1>7. /\ my_free_nodes \in [Threads -> Nodes \cup {NoNode}]
      /\ my_used_nodes \in [Threads -> Nodes \cup {NoNode}]
      /\ list_next \in [Nodes -> Nodes \cup {NoNode}]
      /\ list_prev \in [Nodes -> Nodes \cup {NoNode}]
  BY LinksTyped
<1>8. /\ my_free_nodes'[t] = list_next[m] /\ my_used_nodes'[t] = m
      /\ free'[t] = Tail(a) /\ used'[t] = <<m>> \o b
      /\ list_next'[m] = e /\ \A n \in Nodes \ {m} : list_next'[n] = list_next[n]
  BY <1>3, <1>6, <1>7 DEF IInv, McsTyped
<1>9. Follows(list_next', my_free_nodes'[t], free'[t])
  <2>1. \A n \in Range(a) \ {a[1]} : list_next'[n] = list_next[n]
    BY <1>2, <1>8
  <2>2. Follows(list_next', list_next[a[1]], Tail(a))
    BY <1>2, <2>1, LinkedBehind
  <2> QED
    BY <1>2, <1>8, <2>2
<1>10. Follows(list_next', my_used_nodes'[t], used'[t])
  <2>1. \A n \in Range(b) : list_next'[n] = list_next[n]
    BY <1>2, <1>3, <1>8
  <2>2. Follows(list_next', m, <<m>> \o b)
    BY <1>2, <1>3, <1>4, <1>8, <2>1, LinkedInFront
  <2> QED
    BY <1>8, <2>2
<1>11. LeadsBack(list_prev', used'[t])
  <2>1. LeadsBack([Store(list_prev, Entry(b, 1), m) EXCEPT ![m] = NoNode], <<m>> \o b)
    BY <1>2, <1>3, <1>7, LinkedBackInFront
  <2> QED
    BY <1>5, <1>6, <1>8, <2>1
<1>12. ListsAreLinked(t)'
  BY <1>9, <1>10, <1>11, LinksOfAfter
<1>13. LinksTypeOK'
  <2>1. list_next' \in [Nodes -> Nodes \cup {NoNode}]
    BY <1>5, <1>6, <1>7
  <2>2. list_prev' \in [Nodes -> Nodes \cup {NoNode}]
    BY <1>3, <1>6, <1>7 DEF Store
  <2>3. /\ my_free_nodes' \in [Threads -> Nodes \cup {NoNode}]
        /\ my_used_nodes' \in [Threads -> Nodes \cup {NoNode}]
    BY <1>3, <1>6, <1>7
  <2> QED
    BY <2>1, <2>2, <2>3 DEF LinksTypeOK
<1>14. \A n \in Nodes : Owner(n) # t =>
         list_next'[n] = list_next[n] /\ list_prev'[n] = list_prev[n]
  <2>1. ASSUME NEW n \in Nodes, Owner(n) # t PROVE n # m /\ n # e
    BY <1>3, <1>5, <2>1, NoNodeIsNoNode
  <2>2. \A n \in Nodes \ {m, e} : list_prev'[n] = list_prev[n]
    BY <1>5, <1>6, <1>7 DEF Store
  <2> QED
    BY <1>8, <2>1, <2>2
<1>15. \A u \in Threads \ {t} :
         /\ my_free_nodes'[u] = my_free_nodes[u] /\ my_used_nodes'[u] = my_used_nodes[u]
         /\ free'[u] = free[u] /\ used'[u] = used[u]
  BY <1>6
<1> QED
  BY <1>12, <1>13, <1>14, <1>15, OnlyMine

(* A used node, wherever it is, becomes the first free one.                 *)
LEMMA DeallocLinks ==
  ASSUME IInv, LinksInv, NEW t \in Threads, mine[t] \in Range(used[t]), dealloc_node(t)
  PROVE  LinksInv'
<1>1. PICK a, b, m : a = free[t] /\ b = used[t] /\ m = mine[t]
  OBVIOUS
<1>2. /\ a \in Seq(Nodes) /\ b \in Seq(Nodes) /\ IsInjective(a) /\ IsInjective(b)
      /\ Range(a) \cap Range(b) = {} /\ Range(a) \subseteq Nodes /\ Range(b) \subseteq Nodes
      /\ \A n \in Range(a) \cup Range(b) : n \in Nodes /\ Owner(n) = t
      /\ Follows(list_next, my_free_nodes[t], a) /\ Follows(list_next, my_used_nodes[t], b)
      /\ LeadsBack(list_prev, b) /\ m \in Range(b) /\ m \in Nodes /\ m \notin Range(a)
  BY <1>1, ListsAre
<1>k. PICK k : k = CHOOSE i \in DOMAIN b : b[i] = m
  OBVIOUS
<1>3. k \in 1 .. Len(b) /\ b[k] = m
  <2>1. Range(b) = {b[j] : j \in 1 .. Len(b)} /\ DOMAIN b = 1 .. Len(b)
    BY <1>2, RangeOf
  <2> QED
    BY <1>k, <1>2, <2>1
<1>4. PICK p, x : p = list_prev[m] /\ x = list_next[m]
  OBVIOUS
<1>5. /\ p = Entry(b, k - 1) /\ x = Entry(b, k + 1)
      /\ p \in Nodes \cup {NoNode} /\ x \in Nodes \cup {NoNode}
      /\ p # NoNode => p \in Range(b)
      /\ x # NoNode => x \in Range(b)
      /\ p = NoNode <=> k = 1
  <2>1. k \in DOMAIN b /\ k - 1 \in Int /\ k + 1 \in Int /\ (k - 1 \in 1 .. Len(b) <=> k # 1)
    BY <1>2, <1>3
  <2>2. p = Entry(b, k - 1) /\ x = Entry(b, k + 1)
    BY <1>2, <1>3, <1>4, <2>1 DEF Follows, LeadsBack
  <2> QED
    BY <1>2, <2>1, <2>2, EntryIs, NoNodeIsNoNode
<1>6. PICK first : first = my_free_nodes[t]
  OBVIOUS
<1>7. /\ my_used_nodes' = IF p = NoNode THEN [my_used_nodes EXCEPT ![t] = x] ELSE my_used_nodes
      /\ list_next' = [Store(list_next, p, x) EXCEPT ![m] = first]
      /\ list_prev' = Store(list_prev, x, p)
      /\ my_free_nodes' = [my_free_nodes EXCEPT ![t] = m]
      /\ used' = [used EXCEPT ![t] = RemoveAt(b, k)]
      /\ free' = [free EXCEPT ![t] = <<m>> \o a]
  BY <1>1, <1>k, <1>4, <1>6 DEF dealloc_node, IInv, McsTyped
<1>8. /\ my_free_nodes \in [Threads -> Nodes \cup {NoNode}]
      /\ my_used_nodes \in [Threads -> Nodes \cup {NoNode}]
      /\ list_next \in [Nodes -> Nodes \cup {NoNode}]
      /\ list_prev \in [Nodes -> Nodes \cup {NoNode}]
      /\ first \in Nodes \cup {NoNode}
  BY <1>6, LinksTyped
<1>9. /\ my_free_nodes'[t] = m
      /\ my_used_nodes'[t] = IF k = 1 THEN Entry(b, k + 1) ELSE my_used_nodes[t]
      /\ free'[t] = <<m>> \o a /\ used'[t] = RemoveAt(b, k)
      /\ list_next'[m] = first
      /\ \A n \in Nodes \ {m} : list_next'[n] = IF n = p THEN x ELSE list_next[n]
      /\ \A n \in Nodes : list_prev'[n] = IF n = x THEN p ELSE list_prev[n]
  <2>1. my_free_nodes'[t] = m /\ free'[t] = <<m>> \o a /\ used'[t] = RemoveAt(b, k)
    BY <1>7, <1>8 DEF IInv, McsTyped
  <2>2. my_used_nodes'[t] = IF k = 1 THEN Entry(b, k + 1) ELSE my_used_nodes[t]
    BY <1>5, <1>7, <1>8
  <2>3. list_next'[m] = first
        /\ \A n \in Nodes \ {m} : list_next'[n] = IF n = p THEN x ELSE list_next[n]
    BY <1>2, <1>5, <1>7, <1>8, NoNodeIsNoNode DEF Store
  <2>4. \A n \in Nodes : list_prev'[n] = IF n = x THEN p ELSE list_prev[n]
    BY <1>5, <1>7, <1>8, NoNodeIsNoNode DEF Store
  <2> QED
    BY <2>1, <2>2, <2>3, <2>4
<1>10. Follows(list_next', my_free_nodes'[t], free'[t])
  <2>1. \A n \in Range(a) : list_next'[n] = list_next[n]
    <3>1. ASSUME NEW n \in Range(a) PROVE n \in Nodes \ {m} /\ n # p
      BY <1>2, <1>5, NoNodeIsNoNode
    <3> QED
      BY <1>9, <3>1
  <2>2. Follows(list_next', m, <<m>> \o a)
    BY <1>2, <1>6, <1>9, <2>1, LinkedInFront
  <2> QED
    BY <1>9, <2>2
<1>11. Follows(list_next', my_used_nodes'[t], used'[t])
  <2>1. \A n \in Range(b) \ {b[k]} :
          list_next'[n] = IF n = Entry(b, k - 1) THEN Entry(b, k + 1) ELSE list_next[n]
    BY <1>2, <1>3, <1>5, <1>9
  <2>2. Follows(list_next', IF k = 1 THEN Entry(b, k + 1) ELSE my_used_nodes[t],
                RemoveAt(b, k))
    BY <1>2, <1>3, <2>1, LinkedPast
  <2> QED
    BY <1>9, <2>2
<1>12. LeadsBack(list_prev', used'[t])
  <2>1. \A n \in Range(b) \ {b[k]} :
          list_prev'[n] = IF n = Entry(b, k + 1) THEN Entry(b, k - 1) ELSE list_prev[n]
    BY <1>2, <1>5, <1>9
  <2>2. LeadsBack(list_prev', RemoveAt(b, k))
    BY <1>2, <1>3, <2>1, LinkedBackPast
  <2> QED
    BY <1>9, <2>2
<1>13. ListsAreLinked(t)'
  BY <1>10, <1>11, <1>12, LinksOfAfter
<1>14. LinksTypeOK'
  <2>1. list_next' \in [Nodes -> Nodes \cup {NoNode}]
    BY <1>2, <1>5, <1>7, <1>8 DEF Store
  <2>2. list_prev' \in [Nodes -> Nodes \cup {NoNode}]
    BY <1>5, <1>7, <1>8 DEF Store
  <2>3. /\ my_free_nodes' \in [Threads -> Nodes \cup {NoNode}]
        /\ my_used_nodes' \in [Threads -> Nodes \cup {NoNode}]
    BY <1>2, <1>5, <1>7, <1>8
  <2> QED
    BY <2>1, <2>2, <2>3 DEF LinksTypeOK
<1>15. \A n \in Nodes : Owner(n) # t =>
         list_next'[n] = list_next[n] /\ list_prev'[n] = list_prev[n]
  <2>1. ASSUME NEW n \in Nodes, Owner(n) # t PROVE n # m /\ n # p /\ n # x
    BY <1>2, <1>5, <2>1, NoNodeIsNoNode
  <2> QED
    BY <1>9, <2>1
<1>16. \A u \in Threads \ {t} :
         /\ my_free_nodes'[u] = my_free_nodes[u] /\ my_used_nodes'[u] = my_used_nodes[u]
         /\ free'[u] = free[u] /\ used'[u] = used[u]
  BY <1>7
<1> QED
  BY <1>13, <1>14, <1>15, <1>16, OnlyMine

LEMMA LinksKept ==
  ASSUME IInv, LinksInv, [Next]_vars
  PROVE  LinksInv'
<1>1. CASE UNCHANGED vars
  BY <1>1, SameLinks DEF vars, mcsVars
<1>2. ASSUME NEW t \in Threads, Step(t) PROVE LinksInv'
  <2>1. ASSUME Swapped(t), pc[t] \in {"swap", "try_swap"} PROVE LinksInv'
    <3>1. free[t] # <<>> /\ mine[t] = free[t][1] /\ UseNode(t)
      BY <2>1 DEF IInv, ThreadBook, CallBook, Swapped
    <3> QED
      BY <3>1, UseLinks
  <2>2. ASSUME NEW fields, Dealloc(t, fields), pc[t] \in {"cas", "wake"} PROVE LinksInv'
    <3>1. lk[t] \in NodeLocks(t) /\ mine[t] = UsedNode(t, lk[t])
      BY <2>2, MineIs DEF WaitLabels
    <3>2. mine[t] \in Range(used[t])
      BY <3>1, NodeFound DEF NodesAreFound, IInv, ThreadBook
    <3> QED
      BY <2>2, <3>2, DeallocLinks DEF Dealloc
  <2>3. CASE Swap(t)
    BY <2>1, <2>3 DEF Swap
  <2>4. CASE TrySwap(t)
    BY <2>1, <2>4, SameLinks DEF TrySwap
  <2>5. CASE Cas(t)
    BY <2>2, <2>5, SameLinks DEF Cas, mcsVars
  <2>6. CASE Wake(t)
    BY <2>2, <2>6 DEF Wake
  <2>7. CASE Link(t) \/ GetCount(t) \/ Count(t) \/ Halt(t)
    BY <2>7, SameLinks DEF Link, GetCount, Count, Halt
  <2>8. CASE AwaitCount(t) \/ Window(t) \/ Begin(t) \/ CheckFlags(t) \/ McsFailed(t)
    BY <2>8, SameLinks DEF AwaitCount, Window, Begin, CheckFlags, McsFailed, mcsVars
  <2>9. CASE Await(t) \/ Serve(t) \/ TestNext(t) \/ Arriver(t)
    BY <2>9, SameLinks DEF Await, Serve, TestNext, Arriver, Succeed, mcsVars
  <2> QED
    BY <1>2, <2>3, <2>4, <2>5, <2>6, <2>7, <2>8, <2>9 DEF Step
<1>3. ASSUME NEW t \in Threads, TxAbort(t) PROVE LinksInv'
  BY <1>3, SameLinks DEF TxAbort, mcsVars
<1>4. ASSUME NEW t \in Threads, NEW l \in Locks, ClientCall(t, l) PROVE LinksInv'
  <2>1. ASSUME NEW entry, mcs_lock_common(t, l, entry), pc[t] = "client", l \notin held[t]
        PROVE  LinksInv'
    BY <2>1, AllocLinks, SameLinks DEF mcs_lock_common, mcsVars
  <2>2. CASE mcs_lock(t, l)
    <3>1. l \notin held[t]
      <4>1. \A k \in held[t] : k < l
        BY <2>2 DEF mcs_lock, MayLock
      <4>2. l \in Nat
        BY LocksAssumption
      <4>3. ~(l < l)
        BY ONLY <4>2
      <4> QED
        BY ONLY <4>1, <4>3
    <3> QED
      BY <2>1, <2>2, <3>1 DEF mcs_lock, MayLock
  <2>3. CASE mcs_trylock(t, l)
    BY <2>1, <2>3 DEF mcs_trylock, MayTrylock
  <2>4. CASE mcs_unlock(t, l)
    BY <2>4, SameLinks DEF mcs_unlock, mcsVars
  <2> QED
    BY <1>4, <2>2, <2>3, <2>4 DEF ClientCall
<1> QED
  BY <1>1, <1>2, <1>3, <1>4 DEF Next

-----------------------------------------------------------------------------
(***************************************************************************)
(* At the start nobody has a node, and every queue is empty.                *)
(***************************************************************************)
LEMMA InitInvariant == Init => IInv /\ F!Init
<1> SUFFICES ASSUME Init PROVE IInv /\ F!Init
  OBVIOUS
<1>1. /\ using \in {"mcs", "mcs_tm"} /\ using \in McsTypes
      /\ pc = [t \in Threads |-> "client"] /\ lk = [t \in Threads |-> Null]
      /\ held = [t \in Threads |-> {}]
  BY McsTypesAssumption DEF Init, ClientInit
<1>2. /\ spec_entry = [t \in Threads |-> Null] /\ tries = [t \in Threads |-> 0]
      /\ depth = [t \in Threads |-> 0] /\ saved = [t \in Threads |-> NoCheckpoint]
      /\ watch = [t \in Threads |-> {}] /\ doomed = [t \in Threads |-> FALSE]
  BY DEF Init, HtmInit
<1>3. /\ tail = [l \in Locks |-> NoNode] /\ now_serving = [l \in Locks |-> 0]
      /\ node = [n \in Nodes |-> Clear(Null)]
      /\ free = [t \in Threads |-> <<>>] /\ used = [t \in Threads |-> <<>>]
      /\ mine = [t \in Threads |-> NoNode] /\ ptr = [t \in Threads |-> NoNode]
      /\ num = [t \in Threads |-> 0] /\ line = [l \in Locks |-> <<>>]
  BY DEF Init, McsInit
<1>4. McsTyped
  BY <1>3 DEF McsTyped
<1>5. QueueTypeOK
  <2>1. ClientTypeOK(McsLabels)
    BY <1>1 DEF ClientTypeOK
  <2>2. HtmTypeOK
    BY <1>2 DEF HtmTypeOK, NoCheckpoint
  <2>3. node \in [Nodes -> NodeType]
    <3>1. Clear(Null) \in NodeType
      BY DEF Clear, NodeType
    <3> QED
      BY <1>3, <3>1
  <2>4. \A t \in Threads : Range(free[t]) = {} /\ Range(used[t]) = {}
    BY <1>3, Singleton
  <2>5. /\ tail \in [Locks -> Nodes \cup {NoNode}] /\ now_serving \in [Locks -> Nat]
        /\ \A t \in Threads : mine[t] = NoNode /\ ptr[t] = NoNode /\ num[t] = 0
        /\ \A l \in Locks : line[l] \in Seq(Threads)
    BY <1>3
  <2> QED
    BY <1>1, <2>1, <2>2, <2>3, <2>4, <2>5 DEF QueueTypeOK, NodeType
<1>6. \A t \in Threads : ~InTx(t) /\ Owned(t) = {} /\ WaitLock(t) = Null /\ NodeLocks(t) = {}
  <2> SUFFICES ASSUME NEW t \in Threads
               PROVE  ~InTx(t) /\ Owned(t) = {} /\ WaitLock(t) = Null /\ NodeLocks(t) = {}
    OBVIOUS
  <2>1. ~InTx(t)
    BY <1>2 DEF InTx
  <2>2. Owned(t) = {}
    BY <1>1, <2>1 DEF Owned
  <2>3. WaitLock(t) = Null
    BY <1>1, <2>1 DEF WaitLock, WaitLabels
  <2> QED
    BY <2>1, <2>2, <2>3 DEF NodeLocks
<1>7. ASSUME NEW t \in Threads PROVE ThreadBook(t)
  <2>1. SpecBook(t)
    BY <1>1, <1>2, <1>6 DEF SpecBook
  <2>2. CallBook(t)
    BY <1>1, <1>6 DEF CallBook
  <2>3. PoolBook(t)
    <3>1. /\ free[t] = <<>> /\ used[t] = <<>> /\ Range(<<>>) = {} /\ IsInjective(<<>>)
          /\ Len(<<>>) = 0
      BY <1>3, Singleton
    <3>2. {t} \X (1 .. 0 + 0) = {}
      OBVIOUS
    <3> QED
      BY <1>6, <3>1, <3>2 DEF PoolBook
  <2> QED
    BY <2>1, <2>2, <2>3 DEF ThreadBook
<1>8. ASSUME NEW l \in Locks PROVE QueueBook(l)
  <2>1. line[l] = <<>> /\ tail[l] = NoNode /\ Len(line[l]) = 0 /\ Range(line[l]) = {}
        /\ IsInjective(line[l])
    BY <1>3, Singleton
  <2>2. l # Null
    OBVIOUS
  <2>3. LineBook(l)
    BY <1>6, <2>1, <2>2 DEF LineBook
  <2>4. TailBook(l)
    BY <1>6, <2>1 DEF TailBook
  <2>5. LinkBook(l)
    BY <1>6, <2>1 DEF LinkBook
  <2> QED
    BY <2>3, <2>4, <2>5 DEF QueueBook
<1>9. F!Init
  BY <1>3, <1>6 DEF F!Init
<1> QED
  BY <1>4, <1>5, <1>7, <1>8, <1>9 DEF IInv

LEMMA InitLinks == Init => LinksInv
<1> SUFFICES ASSUME Init PROVE LinksInv
  OBVIOUS
<1>1. /\ my_free_nodes = [t \in Threads |-> NoNode] /\ my_used_nodes = [t \in Threads |-> NoNode]
      /\ list_next = [n \in Nodes |-> NoNode] /\ list_prev = [n \in Nodes |-> NoNode]
      /\ free = [t \in Threads |-> <<>>] /\ used = [t \in Threads |-> <<>>]
  BY DEF Init, McsInit
<1>2. LinksTypeOK
  BY <1>1 DEF LinksTypeOK
<1>3. ASSUME NEW t \in Threads PROVE ListsAreLinked(t)
  <2>1. /\ free[t] = <<>> /\ used[t] = <<>> /\ DOMAIN <<>> = {}
        /\ my_free_nodes[t] = NoNode /\ my_used_nodes[t] = NoNode
    BY <1>1
  <2> QED
    BY <2>1 DEF ListsAreLinked, LeadsAlong, Entry
<1> QED
  BY <1>2, <1>3 DEF LinksInv

(***************************************************************************)
(* What the books say about the nodes and the queues.                       *)
(***************************************************************************)
LEMMA BooksMatch == IInv /\ LinksInv => NodesMatchLocks
<1> SUFFICES ASSUME IInv, LinksInv, NEW t \in Threads
             PROVE  /\ {node[n].lock : n \in Range(used[t])} = {l \in Locks : t \in Arrived(l)}
                    /\ Len(used[t]) = Cardinality({l \in Locks : t \in Arrived(l)})
                    /\ IsInjective(free[t] \o used[t])
  BY DEF NodesMatchLocks, LinksInv
<1>1. McsTyped /\ PoolBook(t) /\ free[t] \in Seq(Nodes) /\ used[t] \in Seq(Nodes)
  BY DEF IInv, ThreadBook, McsTyped
<1>2. Owned(t) \subseteq Locks /\ WaitLock(t) \in Locks \cup {Null}
  BY DEF IInv, QueueTypeOK, ClientTypeOK, HtmTypeOK, Owned, WaitLock
<1>3. \A l \in Locks : t \in Range(line[l]) <=> WaitLock(t) = l
  BY DEF IInv, QueueBook, LineBook
<1>4. {l \in Locks : t \in Arrived(l)} = NodeLocks(t)
  BY <1>2, <1>3 DEF Arrived, NodeLocks
<1>5. IsInjective(free[t] \o used[t])
  BY <1>1, JoinRange DEF PoolBook
<1> QED
  BY <1>1, <1>4, <1>5, UsedCount DEF PoolBook

(* The queue of a lock, given by its holder and its line.                   *)
LinkedInOrder(queue, l) ==
  /\ tail[l] = IF queue = <<>> THEN NoNode ELSE UsedNode(Last(queue), l)
  /\ \A i \in 1 .. Len(queue) - 1 :
       LET n == UsedNode(queue[i], l) heir == queue[i + 1] IN
       \/ node[n].next = UsedNode(heir, l)
       \/ node[n].next = NoNode /\ pc[heir] = "link" /\ ptr[heir] = n

LEMMA LinkOrNot ==
  ASSUME NEW n, NEW heir, NEW l, Linked(n, heir, l)
  PROVE  \/ node[n].next = UsedNode(heir, l)
         \/ node[n].next = NoNode /\ pc[heir] = "link" /\ ptr[heir] = n
BY DEF Linked

LEMMA BooksLink == IInv => QueueIsLinked
<1> SUFFICES ASSUME IInv, NEW l \in Locks
             PROVE  \E holder : /\ SetToSeq({t \in Threads : l \in Owned(t)}) = holder
                                /\ Len(holder) <= 1
                                /\ LinkedInOrder(holder \o line[l], l)
  BY DEF QueueIsLinked, LinkedInOrder
<1>1. LineBook(l) /\ TailBook(l) /\ LinkBook(l)
  BY DEF IInv, QueueBook
<1>2. PICK s : s = line[l]
  OBVIOUS
<1>3. /\ s \in Seq(Threads) /\ Len(s) \in Nat /\ (s = <<>> <=> Len(s) = 0)
      /\ s # <<>> => Last(s) = s[Len(s)]
  BY <1>2, InLine
<1>4. \A i \in 1 .. Len(s) - 1 : Linked(UsedNode(s[i], l), s[i + 1], l)
  BY <1>1, <1>2 DEF LinkBook
<1>5. CASE Unheld(l)
  <2>1. SetToSeq({t \in Threads : l \in Owned(t)}) = <<>>
    <3>1. {t \in Threads : l \in Owned(t)} = {}
      BY <1>5 DEF Unheld
    <3> QED
      BY <3>1, ShortList
  <2>2. <<>> \o s = s /\ Len(<<>>) <= 1
    BY <1>3
  <2>3. tail[l] = IF s = <<>> THEN NoNode ELSE UsedNode(Last(s), l)
    BY <1>1, <1>2, <1>5 DEF TailBook
  <2>4. LinkedInOrder(s, l)
    BY <1>4, <2>3, LinkOrNot DEF LinkedInOrder
  <2> QED
    BY <1>2, <2>1, <2>2, <2>4
<1>6. CASE ~Unheld(l)
  <2>1. PICK t \in Threads : l \in Owned(t)
    BY <1>6 DEF Unheld
  <2>2. SetToSeq({u \in Threads : l \in Owned(u)}) = <<t>>
    <3>1. {u \in Threads : l \in Owned(u)} = {t}
      BY <1>1, <2>1 DEF LineBook
    <3> QED
      BY <3>1, ShortList
  <2>3. PICK r : r = <<t>> \o s
    OBVIOUS
  <2>4. /\ r \in Seq(Threads) /\ Len(r) = Len(s) + 1 /\ r[1] = t /\ r # <<>>
        /\ \A i \in 1 .. Len(s) : r[i + 1] = s[i]
    BY <1>3, <2>3
  <2>5. tail[l] = UsedNode(Last(r), l)
    <3>1. CASE s = <<>>
      <4>1. Last(r) = t
        BY <1>3, <2>4, <3>1 DEF Last
      <4> QED
        BY <1>1, <1>2, <2>1, <3>1, <4>1 DEF TailBook
    <3>2. CASE s # <<>>
      <4>1. Len(s) \in 1 .. Len(s) /\ Last(r) = r[Len(s) + 1]
        BY <1>3, <2>4, <3>2 DEF Last
      <4>2. Last(r) = Last(s)
        BY <1>3, <2>4, <3>2, <4>1
      <4> QED
        BY <1>1, <1>2, <3>2, <4>2 DEF TailBook
    <3> QED
      BY <3>1, <3>2
  <2>6. ASSUME NEW i \in 1 .. Len(r) - 1 PROVE Linked(UsedNode(r[i], l), r[i + 1], l)
    <3>1. CASE i = 1
      <4>1. s # <<>> /\ r[i] = t /\ r[i + 1] = s[1]
        BY <1>3, <2>4, <2>6, <3>1
      <4>2. Linked(UsedNode(t, l), s[1], l)
        BY <1>1, <1>2, <2>1, <4>1 DEF LinkBook
      <4> QED
        BY <4>1, <4>2
    <3>2. CASE i # 1
      <4>1. i - 1 \in 1 .. Len(s) - 1 /\ i - 1 \in 1 .. Len(s) /\ i \in 1 .. Len(s)
            /\ (i - 1) + 1 = i
        BY <1>3, <2>4, <2>6, <3>2
      <4>2. r[i] = s[i - 1] /\ r[i + 1] = s[i]
        BY <2>4, <4>1
      <4>3. Linked(UsedNode(s[i - 1], l), s[i], l)
        BY <1>4, <4>1
      <4> QED
        BY <4>2, <4>3
    <3> QED
      BY <3>1, <3>2
  <2>7. LinkedInOrder(r, l)
    BY <2>4, <2>5, <2>6, LinkOrNot DEF LinkedInOrder
  <2>8. Len(<<t>>) <= 1
    OBVIOUS
  <2> QED
    BY <1>2, <2>2, <2>3, <2>7, <2>8
<1> QED
  BY <1>5, <1>6

-----------------------------------------------------------------------------
(***************************************************************************)
(* The theorems.                                                           *)
(***************************************************************************)

(* IInv and LinksInv are invariants of both queue locks: the nodes in use,    *)
(* the tail and the speculations agree with who holds and who waits, and the *)
(* links lead through the lists (txlock.c:435-490, 492-652).                *)
THEOREM Invariance == Spec => [](IInv /\ LinksInv)
<1>1. Init => IInv /\ LinksInv
  BY InitInvariant, InitLinks
<1>2. IInv /\ LinksInv /\ [Next]_vars => IInv' /\ LinksInv'
  BY StepKeeps, LinksKept
<1> QED
  BY <1>1, <1>2, PTL DEF Spec

(* Nodes, lists and the state of the transactions stay of their types; in     *)
(* particular no thread has another one's node on its lists and no pool       *)
(* outgrows what alloc_more_nodes gives it (txlock.c:475-490).               *)
THEOREM TypeCorrect == Spec => []TypeOK
<1>1. IInv /\ LinksInv => TypeOK
  BY DEF IInv, LinksInv, TypeOK
<1> QED
  BY <1>1, Invariance, PTL

(* The assertions of mcs_unlock_common hold (txlock.c:612, 615): an unlock      *)
(* finds the node of its lock, no node is on two lists, and no link is lost   *)
(* when a node is taken out of the middle of a list (txlock.c:435-473).     *)
THEOREM NodesStayMatched == Spec => []NodesMatchLocks
BY BooksMatch, Invariance, PTL

(* The queue is whole at every step, from the holder's node to the tail, but *)
(* for the links that are about to be written (txlock.c:519, 539, 627).     *)
THEOREM QueueStaysLinked == Spec => []QueueIsLinked
BY BooksLink, Invariance, PTL

(* The write of wait lets the thread go on that has waited longest, and no    *)
(* other, when nobody holds the lock any more (txlock.c:535, 563, 647).     *)
THEOREM HeadGoesFirst == Spec => []OnlyHeadGoesOn
<1>1. IInv => OnlyHeadGoesOn
  <2> SUFFICES ASSUME IInv, NEW t \in Threads, NEW l \in Locks, t \in Range(line[l]),
                      ~node[UsedNode(t, l)].wait
               PROVE  Head(line[l]) = t /\ \A u \in Threads : l \notin Owned(u)
    BY DEF OnlyHeadGoesOn
  <2>1. t = line[l][1] /\ Unheld(l)
    BY DEF IInv, QueueBook, LineBook, GoesOn
  <2>2. Head(line[l]) = line[l][1]
    BY InLine
  <2> QED
    BY <2>1, <2>2 DEF Unheld
<1> QED
  BY <1>1, Invariance, PTL

(* A speculating waiter that has been told to go on is doomed by that very    *)
(* write, and so goes back to take its lock (txlock.c:553, 647).            *)
THEOREM TurnIsNoticed == Spec => []TurnEndsSpeculation
<1>1. IInv => TurnEndsSpeculation
  BY DEF IInv, ThreadBook, SpecBook, TurnEndsSpeculation
<1> QED
  BY <1>1, Invariance, PTL

(* The program's own code runs with spec_entry set exactly while it runs in   *)
(* a transaction (txutil.h:133, 148), so that an elided call is always undone. *)
THEOREM FlagIsTrue == Spec => []FlagMatchesHardware
<1>1. IInv => FlagMatchesHardware
  BY DEF IInv, ThreadBook, SpecBook, FlagMatchesHardware
<1> QED
  BY <1>1, Invariance, PTL

(* Both queue locks are first-come-first-served: a thread gets a lock in the  *)
(* order of the swaps into its tail (txlock.c:514, 519), a try-lock only one *)
(* that nobody holds or waits for, and speculating changes none of it.      *)
THEOREM ImplementsFifo == Spec => FifoSpec
<1>1. IInv /\ LinksInv /\ [Next]_vars => [F!Next]_<<Holds, line>>
  BY StepKeeps DEF FifoStep
<1> QED
  BY <1>1, InitInvariant, Invariance, PTL DEF Spec, FifoSpec, F!Spec, Holds
=============================================================================
