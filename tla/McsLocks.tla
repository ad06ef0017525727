------------------------------ MODULE McsLocks ------------------------------
(***************************************************************************)
(* The library with one of the two queue locks in use.                      *)
(***************************************************************************)
EXTENDS McsLock

CONSTANT McsTypes   \* the lock types that the environment may choose

ASSUME McsTypesAssumption == McsTypes \subseteq {"mcs", "mcs_tm"}

vars == <<using, pc, lk, held, mcsVars, htmVars>>

Init == using \in McsTypes /\ ClientInit /\ McsInit /\ HtmInit

(* The process has not been ended by a failed assertion.                   *)
Running == \A t \in Threads : pc[t] # "failed"

(* The program calls tl_lock, tl_trylock or tl_unlock.                     *)
ClientCall(t, l) ==
  /\ Running
  /\ UNCHANGED using
  /\ mcs_lock(t, l) \/ mcs_trylock(t, l) \/ mcs_unlock(t, l)

(* What a thread does inside the function that it has called.              *)
Step(t) ==
  /\ Running
  /\ UNCHANGED using
  /\ \/ Swap(t)
     \/ TrySwap(t)
     \/ Link(t)
     \/ AwaitCount(t)
     \/ GetCount(t)
     \/ Window(t)
     \/ Begin(t)
     \/ CheckFlags(t)
     \/ McsFailed(t)
     \/ Await(t)
     \/ Count(t)
     \/ Serve(t)
     \/ TestNext(t)
     \/ Cas(t)
     \/ Arriver(t)
     \/ Halt(t)
     \/ Wake(t)

TxAbort(t) == Running /\ Abort(t) /\ UNCHANGED <<using, mcsVars>>

Next ==
  \E t \in Threads :
    \/ Step(t)
    \/ TxAbort(t)
    \/ \E l \in Locks : ClientCall(t, l)

Spec == Init /\ [][Next]_vars

(* The program gives back a lock that t really holds.                      *)
RealUnlock(t, l) == Running /\ UNCHANGED using /\ ~InTx(t) /\ mcs_unlock(t, l)

(* A thread inside a lock function keeps running, a transaction that nobody *)
(* commits aborts at an interrupt, and the program ends every critical      *)
(* section that it really entered, even if it makes other calls in it.     *)
FairSpec ==
  /\ Spec
  /\ \A t \in Threads :
       /\ WF_vars(Step(t))
       /\ WF_vars(TxAbort(t))
       /\ \A l \in Locks : SF_vars(RealUnlock(t, l))
-----------------------------------------------------------------------------
(* The links of the lists of nodes are of their types: they lead to nodes.   *)
LinksTypeOK ==
  /\ my_free_nodes \in [Threads -> Nodes \cup {NoNode}]
  /\ my_used_nodes \in [Threads -> Nodes \cup {NoNode}]
  /\ list_next \in [Nodes -> Nodes \cup {NoNode}]
  /\ list_prev \in [Nodes -> Nodes \cup {NoNode}]

(* Every other variable is of its type.                                    *)
QueueTypeOK ==
  /\ using \in McsTypes
  /\ ClientTypeOK(McsLabels)
  /\ HtmTypeOK
  /\ tail \in [Locks -> Nodes \cup {NoNode}]
  /\ now_serving \in [Locks -> Nat]
  /\ node \in [Nodes -> [next : Nodes \cup {NoNode}, wait : BOOLEAN, speculate : BOOLEAN,
                         cnt : Nat, lock : Locks \cup {Null}]]
  /\ \A t \in Threads :
       /\ \A n \in Range(free[t]) \cup Range(used[t]) : n \in Nodes /\ Owner(n) = t
       /\ mine[t] \in Nodes \cup {NoNode}
       /\ ptr[t] \in Nodes \cup {NoNode}
       /\ num[t] \in Nat
  /\ \A l \in Locks : line[l] \in Seq(Threads)

(* Every variable is of its type.                                          *)
TypeOK == QueueTypeOK /\ LinksTypeOK

(* The threads that have a node in the queue of l.                         *)
Arrived(l) == Range(line[l]) \cup {t \in Threads : l \in Owned(t)}

(* Entry i of list s, or NoNode where it has none.                         *)
Entry(s, i) == IF i \in DOMAIN s THEN s[i] ELSE NoNode

(* From the node first on, list_next leads through s and no further.        *)
LeadsAlong(first, s) ==
  /\ first = Entry(s, 1)
  /\ \A i \in DOMAIN s : list_next[s[i]] = Entry(s, i + 1)

(* The links of the lists of t lead through free[t] and used[t], and back    *)
(* through used[t].                                                        *)
ListsAreLinked(t) ==
  /\ LeadsAlong(my_free_nodes[t], free[t])
  /\ LeadsAlong(my_used_nodes[t], used[t])
  /\ \A i \in DOMAIN used[t] : list_prev[used[t][i]] = Entry(used[t], i - 1)

(* A thread's used nodes are those of the locks that it really holds or     *)
(* waits for, one each, no node is on two lists, and the links keep both     *)
(* lists whole whatever the order in which locks are given back: an unlock   *)
(* finds its node (the assertions of txlock.c:612, 615) and no node is lost. *)
NodesMatchLocks ==
  \A t \in Threads :
    /\ {node[n].lock : n \in Range(used[t])} = {l \in Locks : t \in Arrived(l)}
    /\ Len(used[t]) = Cardinality({l \in Locks : t \in Arrived(l)})
    /\ IsInjective(free[t] \o used[t])
    /\ ListsAreLinked(t)

(* The queue of l, from the node of the real holder (or of the thread that  *)
(* has been told to go on) to the tail: every thread in line is linked       *)
(* behind the one before it, or about to be (txlock.c:519, 539, 627).       *)
QueueIsLinked ==
  \A l \in Locks :
    LET holder == SetToSeq({t \in Threads : l \in Owned(t)})
        queue == holder \o line[l]
    IN
    /\ Len(holder) <= 1
    /\ tail[l] = IF queue = <<>> THEN NoNode ELSE UsedNode(Last(queue), l)
    /\ \A i \in 1 .. Len(queue) - 1 :
         LET n == UsedNode(queue[i], l) heir == queue[i + 1] IN
         \/ node[n].next = UsedNode(heir, l)
         \/ node[n].next = NoNode /\ pc[heir] = "link" /\ ptr[heir] = n

(* Only the head of the line is told to go on, and only when nobody holds   *)
(* the lock.                                                               *)
OnlyHeadGoesOn ==
  \A t \in Threads, l \in Locks :
    t \in Range(line[l]) /\ ~node[UsedNode(t, l)].wait =>
      Head(line[l]) = t /\ \A u \in Threads : l \notin Owned(u)

(* A waiter that has been told to go on is not left speculating: the write  *)
(* of wait has doomed its transaction (txlock.c:553, 647).                  *)
TurnEndsSpeculation ==
  \A t \in Threads :
    InTx(t) /\ pc[t] = "client" /\ ~node[mine[t]].wait => doomed[t]

(* Calls are elided (txlock.c:493, 669) only by a thread whose transaction   *)
(* undoes what it then does with locks it did not take.                    *)
FlagMatchesHardware ==
  \A t \in Threads : pc[t] = "client" => (spec_entry[t] # Null <=> InTx(t))

(* The assertion of txlock.c:565: a thread that is told to go on has the     *)
(* number after the one that was served last.  A number read from a node     *)
(* that its owner has reused breaks it, and if the node is behind the reader *)
(* in the same queue, the two threads wait for each other's number.         *)
NumberIsNext ==
  \A t \in Threads : tm /\ pc[t] = "await" /\ ~node[mine[t]].wait =>
    now_serving[lk[t]] = num[t] - 1

(* Both queue locks implement the first-come-first-served mutex.           *)
F == INSTANCE FifoMutex WITH holds <- [t \in Threads |-> Owned(t)], queue <- line

FifoSpec == F!Spec

(* No starvation: under mcs, who is about to swap its node into the queue    *)
(* gets the lock.  Under mcs_tm two threads can wait for each other (the     *)
(* comment of NumberIsNext).                                               *)
EveryCallerServed ==
  \A t \in Threads, l \in Locks :
    ~tm /\ pc[t] = "swap" /\ lk[t] = l ~> l \in Owned(t)
=============================================================================
