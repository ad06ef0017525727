-------------------------- MODULE TicketLocksProofs --------------------------
(***************************************************************************)
(* The two ticket locks, for any threads, any locks, any width of the       *)
(* counters that is larger than the number of threads, and any window of    *)
(* speculation.  The theorems are at the end.  For one lock, a step does    *)
(* one of five things to its places: nothing, or a thread takes the last    *)
(* one, goes from the first one into the lock, takes the lock at once, or   *)
(* leaves it.  Each keeps the account of the places and is a step of the    *)
(* first-come-first-served mutex or none; each action is then shown to be   *)
(* one of them for its own lock and to leave the other locks alone.         *)
(***************************************************************************)
EXTENDS TicketLocks, FiniteSetTheorems, SequenceTheorems, TLAPS

(* What FifoMutex sees.                                                    *)
Holds == [t \in Threads |-> Owned(t)]

Queues == [l \in Locks |-> Queue(l)]

USE TicketRangeAssumption DEF Null

-----------------------------------------------------------------------------
(***************************************************************************)
(* Counters that wrap around.                                              *)
(***************************************************************************)
LEMMA SuccType == \A a \in Tickets : Succ(a) \in Tickets
BY DEF Tickets, Succ

LEMMA DistType == \A a, b \in Tickets : Dist(a, b) \in 0 .. TicketRange - 1
BY DEF Tickets, Dist

LEMMA DistZero == \A a, b \in Tickets : Dist(a, b) = 0 <=> a = b
BY DEF Tickets, Dist

LEMMA DistInjective == \A a, b, c \in Tickets : Dist(a, c) = Dist(b, c) => a = b
BY DEF Tickets, Dist

(* One more ticket is given out.                                           *)
LEMMA DistGrows ==
  \A a, b \in Tickets : Dist(a, b) < TicketRange - 1 => Dist(Succ(a), b) = Dist(a, b) + 1
BY DEF Tickets, Dist, Succ

(* One more ticket has been served.                                        *)
LEMMA DistShrinks ==
  \A a, b \in Tickets : a # b => Dist(a, Succ(b)) = Dist(a, b) - 1
BY DEF Tickets, Dist, Succ

-----------------------------------------------------------------------------
(***************************************************************************)
(* The account of the places of one lock.                                  *)
(***************************************************************************)
PlacesTyped(l) ==
  /\ IsFiniteSet(Holders(l)) /\ IsFiniteSet(Waiters(l))
  /\ Cardinality(Holders(l)) \in Nat /\ Cardinality(Waiters(l)) \in Nat
  /\ next[l] \in Tickets /\ now[l] \in Tickets
  /\ Dist(next[l], now[l]) \in 0 .. TicketRange - 1
  /\ \A t \in Waiters(l) : ticket[t] \in Tickets /\ Place(t, l) \in 0 .. TicketRange - 1

PlacesAreTyped == TypeOK => \A l \in Locks : PlacesTyped(l)

LEMMA PlacesType == PlacesAreTyped
<1> SUFFICES ASSUME TypeOK, NEW l \in Locks PROVE PlacesTyped(l)
  BY DEF PlacesAreTyped
<1>1. Holders(l) \in SUBSET Threads /\ Waiters(l) \in SUBSET Threads
  BY DEF Holders, Waiters
<1>2. /\ IsFiniteSet(Holders(l)) /\ IsFiniteSet(Waiters(l))
      /\ Cardinality(Holders(l)) \in Nat /\ Cardinality(Waiters(l)) \in Nat
  BY <1>1, FS_Subset, FS_CardinalityType
<1>3. next[l] \in Tickets /\ now[l] \in Tickets /\ \A t \in Waiters(l) : ticket[t] \in Tickets
  BY <1>1 DEF TypeOK, TicketTypeOK
<1> QED
  BY <1>2, <1>3, DistType DEF PlacesTyped, Place

LEMMA PlacesTypeAfter == PlacesAreTyped'
BY PlacesType, PTL

(* The queue lists the waiters by their places.                            *)
QueueListed(l) ==
  /\ Queue(l) \in Seq(Threads) /\ Len(Queue(l)) = Cardinality(Waiters(l))
  /\ \A i \in 1 .. Len(Queue(l)) :
       Queue(l)[i] \in Waiters(l) /\ Place(Queue(l)[i], l) = Cardinality(Holders(l)) + i - 1
  /\ \A t \in Waiters(l), i \in 1 .. Len(Queue(l)) :
       Place(t, l) = Cardinality(Holders(l)) + i - 1 => Queue(l)[i] = t

(* A waiter at a place has that many waiters before it, less the holder.     *)
LEMMA CountBefore ==
  ASSUME TypeOK, NEW l \in Locks, TicketBook(l), NEW t \in Waiters(l)
  PROVE  Cardinality(Before(t, l)) = Place(t, l) - Cardinality(Holders(l))
<1> DEFINE h == Cardinality(Holders(l))
           p == Place(t, l)
           B == Before(t, l)
           f == [u \in B |-> Place(u, l)]
<1>1. PlacesTyped(l) /\ h \in Nat /\ p \in Nat /\ h <= p
  BY PlacesType DEF PlacesAreTyped, PlacesTyped, TicketBook
<1>2. IsFiniteSet(B)
  <2>1. B \in SUBSET Waiters(l)
    BY DEF Before
  <2> QED
    BY <1>1, <2>1, FS_Subset DEF PlacesTyped
<1>3. f \in [B -> h .. p - 1]
  <2> SUFFICES ASSUME NEW u \in B PROVE Place(u, l) \in h .. p - 1
    OBVIOUS
  <2>1. u \in Waiters(l) /\ Place(u, l) < p /\ Place(u, l) \in h .. Dist(next[l], now[l]) - 1
    BY DEF Before, Place, TicketBook
  <2> HIDE DEF h, p, B
  <2> QED
    BY <1>1, <2>1
<1>4. \A u, v \in B : f[u] = f[v] => u = v
  <2> SUFFICES ASSUME NEW u \in B, NEW v \in B, Place(u, l) = Place(v, l) PROVE u = v
    OBVIOUS
  <2>1. u \in Waiters(l) /\ v \in Waiters(l)
    BY DEF Before
  <2>2. ticket[u] = ticket[v]
    BY <1>1, <2>1, DistInjective DEF PlacesTyped, Place
  <2> QED
    BY <2>1, <2>2 DEF TicketBook
<1>5. \A d \in h .. p - 1 : \E u \in B : f[u] = d
  <2> SUFFICES ASSUME NEW d \in h .. p - 1 PROVE \E u \in B : Place(u, l) = d
    OBVIOUS
  <2>1. d \in h .. Dist(next[l], now[l]) - 1 /\ d < p
    BY <1>1 DEF TicketBook, PlacesTyped
  <2>2. PICK u \in Waiters(l) : Place(u, l) = d
    BY <2>1 DEF TicketBook
  <2> QED
    BY <2>1, <2>2 DEF Before, Place
<1> HIDE DEF h, p, B, f
<1>6. f \in Bijection(B, h .. p - 1)
  BY <1>3, <1>4, <1>5 DEF Bijection, Injection, Surjection, IsInjective
<1>7. ExistsBijection(B, h .. p - 1)
  BY <1>6 DEF ExistsBijection
<1>8. Cardinality(h .. p - 1) = Cardinality(B)
  BY <1>2, <1>7, FS_Bijection
<1>9. Cardinality(h .. p - 1) = p - h
  <2>1. h \in Int /\ p - 1 \in Int
    BY <1>1
  <2>2. Cardinality(h .. p - 1) = IF h > p - 1 THEN 0 ELSE (p - 1) - h + 1
    BY <2>1, FS_Interval
  <2> QED
    BY <1>1, <2>2
<1> QED
  BY <1>8, <1>9 DEF B, h, p

QueuesAreListed == TypeOK => \A l \in Locks : TicketBook(l) => QueueListed(l)

LEMMA QueueLists == QueuesAreListed
<1> SUFFICES ASSUME TypeOK, NEW l \in Locks, TicketBook(l) PROVE QueueListed(l)
  BY DEF QueuesAreListed
<1> DEFINE h == Cardinality(Holders(l))
           n == Cardinality(Waiters(l))
           At(i) == CHOOSE t \in Waiters(l) : Cardinality(Before(t, l)) = i - 1
<1>1. PlacesTyped(l) /\ h \in Nat /\ n \in Nat /\ Waiters(l) \subseteq Threads
  BY PlacesType DEF PlacesAreTyped, PlacesTyped, Waiters
<1>2. ASSUME NEW i \in 1 .. n
      PROVE  At(i) \in Waiters(l) /\ Place(At(i), l) = h + i - 1
  <2>1. h + i - 1 \in h .. Dist(next[l], now[l]) - 1
    BY <1>1 DEF TicketBook
  <2>2. PICK u \in Waiters(l) : Place(u, l) = h + i - 1
    BY <2>1 DEF TicketBook
  <2>3. Cardinality(Before(u, l)) = i - 1
    BY <1>1, <2>2, CountBefore
  <2>4. At(i) \in Waiters(l) /\ Cardinality(Before(At(i), l)) = i - 1
    BY <2>3
  <2>5. PICK v \in Waiters(l) : v = At(i)
    BY <2>4
  <2>6. Place(v, l) - h = i - 1 /\ Place(v, l) \in Nat
    BY <1>1, <2>4, <2>5, CountBefore DEF PlacesTyped
  <2> HIDE DEF At, h
  <2> QED
    BY <1>1, <2>5, <2>6
<1>3. Queue(l) = [i \in 1 .. n |-> At(i)]
  BY DEF Queue
<1>4. Queue(l) \in Seq(Threads) /\ Len(Queue(l)) = n /\ \A i \in 1 .. n : Queue(l)[i] = At(i)
  <2> HIDE DEF At, n
  <2>1. \A i \in 1 .. n : At(i) \in Threads
    BY <1>1, <1>2
  <2> QED
    BY <1>1, <1>3, <2>1
<1>5. ASSUME NEW t \in Waiters(l), NEW u \in Waiters(l), Place(t, l) = Place(u, l) PROVE t = u
  <2>1. ticket[t] = ticket[u]
    BY <1>1, <1>5, DistInjective DEF PlacesTyped, Place
  <2> QED
    BY <2>1 DEF TicketBook
<1> HIDE DEF At, h, n
<1>6. ASSUME NEW t \in Waiters(l), NEW i \in 1 .. n, Place(t, l) = h + i - 1
      PROVE  Queue(l)[i] = t
  BY <1>2, <1>4, <1>5, <1>6
<1> QED
  BY <1>2, <1>4, <1>6 DEF QueueListed, h, n

LEMMA QueueListsAfter == QueuesAreListed'
BY QueueLists, PTL

-----------------------------------------------------------------------------
(***************************************************************************)
(* What a step may do to the places of a lock.                             *)
(***************************************************************************)

(* Nothing.                                                                *)
LEMMA PlacesStay ==
  ASSUME TypeOK, TypeOK', NEW l \in Locks, TicketBook(l),
         Holders(l)' = Holders(l), Waiters(l)' = Waiters(l),
         next'[l] = next[l], now'[l] = now[l],
         \A u \in Waiters(l) : ticket'[u] = ticket[u]
  PROVE  TicketBook(l)' /\ Queue(l)' = Queue(l)
<1>1. \A u \in Waiters(l) : Place(u, l)' = Place(u, l)
  BY DEF Place
<1>2. TicketBook(l)'
  BY <1>1 DEF TicketBook
<1>3. QueueListed(l) /\ QueueListed(l)'
  BY <1>2, QueueLists, QueueListsAfter DEF QueuesAreListed
<1>4. \A i \in 1 .. Len(Queue(l)) : Queue(l)'[i] = Queue(l)[i]
  BY <1>1, <1>3 DEF QueueListed
<1>5. Queue(l)' = Queue(l)
  BY <1>3, <1>4, SeqEqual DEF QueueListed
<1> QED
  BY <1>2, <1>5

(* t takes the last place.                                                 *)
LEMMA LastPlaceTaken ==
  ASSUME TypeOK, TypeOK', NEW l \in Locks, TicketBook(l), Holders(l) \cap Waiters(l) = {},
         NEW t \in Threads, t \notin Holders(l), t \notin Waiters(l),
         Holders(l)' = Holders(l), Waiters(l)' = Waiters(l) \cup {t},
         next'[l] = Succ(next[l]), now'[l] = now[l], ticket'[t] = next[l],
         \A u \in Waiters(l) : ticket'[u] = ticket[u]
  PROVE  TicketBook(l)' /\ Queue(l)' = Append(Queue(l), t)
<1> DEFINE h == Cardinality(Holders(l))
           w == Cardinality(Waiters(l))
           n == Dist(next[l], now[l])
<1>1. PlacesTyped(l) /\ h \in {0, 1} /\ w \in Nat /\ n = h + w
  BY PlacesType DEF PlacesAreTyped, PlacesTyped, TicketBook
<1>2. Cardinality(Waiters(l)') = w + 1 /\ Cardinality(Holders(l)') = h
  BY <1>1, FS_AddElement DEF PlacesTyped
<1>3. n + 1 < TicketRange
  <2> DEFINE U == Holders(l) \cup Waiters(l)
  <2>1. Cardinality(U) = h + w
    <3>1. IsFiniteSet(Holders(l)) /\ IsFiniteSet(Waiters(l))
      BY <1>1 DEF PlacesTyped
    <3>2. Cardinality(U) = h + w - Cardinality(Holders(l) \cap Waiters(l))
      BY <3>1, FS_Union
    <3>3. Cardinality(Holders(l) \cap Waiters(l)) = 0
      BY FS_EmptySet
    <3> HIDE DEF U, h, w
    <3> QED
      BY <1>1, <3>2, <3>3
  <2>2. IsFiniteSet(Threads \ {t}) /\ Cardinality(Threads \ {t}) = Cardinality(Threads) - 1
    BY FS_RemoveElement
  <2>3. U \in SUBSET (Threads \ {t})
    BY DEF Holders, Waiters
  <2>4. Cardinality(U) <= Cardinality(Threads \ {t})
    BY <2>2, <2>3, FS_Subset
  <2>5. Cardinality(Threads) \in Nat
    BY FS_CardinalityType
  <2> HIDE DEF U
  <2> QED
    BY <1>1, <2>1, <2>2, <2>4, <2>5
<1>4. Dist(next[l], now[l])' = n + 1
  BY <1>1, <1>3, DistGrows DEF PlacesTyped
<1>5. /\ Place(t, l)' = n
      /\ \A u \in Waiters(l) : Place(u, l)' = Place(u, l) /\ Place(u, l) \in h .. n - 1
  BY DEF Place, TicketBook
<1> HIDE DEF h, w, n
<1>6. /\ Cardinality(Holders(l)') \in {0, 1}
      /\ Dist(next[l], now[l])' = Cardinality(Holders(l)') + Cardinality(Waiters(l)')
  BY <1>1, <1>2, <1>4
<1>7. \A u \in Waiters(l)' : Place(u, l)' \in h .. n
  BY <1>1, <1>5
<1>8. \A d \in h .. n : \E u \in Waiters(l)' : Place(u, l)' = d
  <2>1. \A d \in h .. n - 1 : \E u \in Waiters(l) : Place(u, l) = d
    BY DEF TicketBook, h, n
  <2>2. \A d \in h .. n : d = n \/ d \in h .. n - 1
    BY <1>1
  <2> QED
    BY <1>5, <2>1, <2>2
<1>9. \A u, v \in Waiters(l)' : ticket'[u] = ticket'[v] => u = v
  <2>1. \A u \in Waiters(l) : ticket[u] # next[l]
    <3> SUFFICES ASSUME NEW u \in Waiters(l), ticket[u] = next[l] PROVE FALSE
      OBVIOUS
    <3>1. Place(u, l) = n
      BY DEF Place, n
    <3> QED
      BY <1>1, <1>5, <3>1
  <2> QED
    BY <2>1 DEF TicketBook
<1>10. TicketBook(l)'
  <2>1. (n + 1) - 1 = n
    BY <1>1
  <2> QED
    BY <1>2, <1>4, <1>6, <1>7, <1>8, <1>9, <2>1 DEF TicketBook
<1>11. QueueListed(l) /\ QueueListed(l)'
  BY <1>10, QueueLists, QueueListsAfter DEF QueuesAreListed
<1>12. Queue(l)' = Append(Queue(l), t)
  <2> DEFINE q == Queue(l)
             r == Queue(l)'
  <2>1. q \in Seq(Threads) /\ r \in Seq(Threads) /\ Len(q) = w /\ Len(r) = w + 1
    BY <1>2, <1>11 DEF QueueListed, w
  <2>2. \A v \in Waiters(l)', j \in 1 .. Len(r) : Place(v, l)' = h + j - 1 => r[j] = v
    BY <1>2, <1>11 DEF QueueListed
  <2>3. ASSUME NEW i \in 1 .. w PROVE r[i] = q[i]
    <3>1. PICK u \in Waiters(l) : u = q[i] /\ Place(u, l) = h + i - 1
      BY <1>11, <2>1 DEF QueueListed, h
    <3>2. u \in Waiters(l)' /\ Place(u, l)' = h + i - 1
      BY <1>5, <3>1
    <3>3. i \in 1 .. Len(r)
      BY <1>1, <2>1
    <3>4. r[i] = u
      <4> HIDE DEF r
      <4> QED
        BY <2>2, <3>2, <3>3
    <3> QED
      BY <3>1, <3>4
  <2>4. r[w + 1] = t
    <3>1. Place(t, l)' = h + (w + 1) - 1 /\ t \in Waiters(l)' /\ w + 1 \in 1 .. Len(r)
      BY <1>1, <1>5, <2>1
    <3> HIDE DEF r
    <3> QED
      BY <2>2, <3>1
  <2> HIDE DEF q, r
  <2>5. /\ Append(q, t) \in Seq(Threads) /\ Len(Append(q, t)) = w + 1
        /\ \A i \in 1 .. w : Append(q, t)[i] = q[i]
        /\ Append(q, t)[w + 1] = t
    BY <2>1, AppendProperties
  <2>6. \A i \in 1 .. w + 1 : r[i] = Append(q, t)[i]
    <3>1. \A i \in 1 .. w + 1 : i \in 1 .. w \/ i = w + 1
      BY <1>1
    <3> QED
      BY <2>3, <2>4, <2>5, <3>1
  <2>7. r = Append(q, t)
    BY <2>1, <2>5, <2>6, SeqEqual
  <2> QED
    BY <2>7 DEF q, r
<1> QED
  BY <1>10, <1>12

(* t goes from the first place into the lock, which is free.               *)
LEMMA FirstPlaceServed ==
  ASSUME TypeOK, TypeOK', NEW l \in Locks, TicketBook(l),
         NEW t \in Waiters(l), t \notin Holders(l), ticket[t] = now[l],
         Holders(l)' = Holders(l) \cup {t}, Waiters(l)' = Waiters(l) \ {t},
         next'[l] = next[l], now'[l] = now[l],
         \A u \in Waiters(l) \ {t} : ticket'[u] = ticket[u]
  PROVE  /\ TicketBook(l)' /\ Holders(l) = {}
         /\ Queue(l) # <<>> /\ Head(Queue(l)) = t /\ Queue(l)' = Tail(Queue(l))
<1> DEFINE w == Cardinality(Waiters(l))
           n == Dist(next[l], now[l])
<1>1. PlacesTyped(l) /\ w \in Nat /\ n \in Nat /\ Cardinality(Holders(l)) \in {0, 1}
  BY PlacesType DEF PlacesAreTyped, PlacesTyped, TicketBook
<1>2. Place(t, l) = 0
  BY <1>1, DistZero DEF Place, PlacesTyped
<1>3. Cardinality(Holders(l)) = 0 /\ Holders(l) = {} /\ n = w
  <2>1. Cardinality(Holders(l)) = 0
    BY <1>1, <1>2 DEF TicketBook
  <2> QED
    BY <1>1, <2>1, FS_EmptySet DEF PlacesTyped, TicketBook
<1>4. /\ Cardinality(Holders(l)') = 1 /\ Cardinality(Waiters(l)') = w - 1
      /\ Dist(next[l], now[l])' = n
  <2>1. Cardinality({t}) = 1 /\ Holders(l)' = {t}
    BY <1>3, FS_Singleton
  <2>2. IsFiniteSet(Waiters(l))
    BY <1>1 DEF PlacesTyped
  <2>3. Cardinality(Waiters(l) \ {t}) = w - 1
    BY <2>2, FS_RemoveElement
  <2> QED
    BY <2>1, <2>3
<1>5. /\ \A u \in Waiters(l) : Place(u, l) \in 0 .. n - 1
      /\ \A d \in 0 .. n - 1 : \E u \in Waiters(l) : Place(u, l) = d
      /\ \A u, v \in Waiters(l) : ticket[u] = ticket[v] => u = v
  BY <1>3 DEF TicketBook
<1>6. \A u \in Waiters(l)' : Place(u, l)' = Place(u, l) /\ u \in Waiters(l) /\ u # t
  BY DEF Place
<1>7. w \in Nat \ {0}
  BY <1>1, <1>3, <1>5
<1> HIDE DEF w, n
<1>8. \A u \in Waiters(l)' : Place(u, l)' \in 1 .. n - 1
  <2> SUFFICES ASSUME NEW u \in Waiters(l)' PROVE Place(u, l) \in 1 .. n - 1
    BY <1>6
  <2>1. u \in Waiters(l) /\ ticket[u] # now[l] /\ ticket[u] \in Tickets
    BY <1>1, <1>5, <1>6 DEF PlacesTyped
  <2>2. Place(u, l) # 0
    BY <1>1, <2>1, DistZero DEF Place, PlacesTyped
  <2> QED
    BY <1>1, <1>5, <2>1, <2>2
<1>9. \A d \in 1 .. n - 1 : \E u \in Waiters(l)' : Place(u, l)' = d
  <2> SUFFICES ASSUME NEW d \in 1 .. n - 1 PROVE \E u \in Waiters(l)' : Place(u, l)' = d
    OBVIOUS
  <2>1. d \in 0 .. n - 1
    OBVIOUS
  <2>2. PICK u \in Waiters(l) : Place(u, l) = d
    BY <1>5, <2>1
  <2>3. u # t
    BY <1>2, <2>2
  <2> QED
    BY <1>6, <2>2, <2>3
<1>10. TicketBook(l)'
  <2>1. n = 1 + (w - 1)
    BY <1>1, <1>3
  <2>2. \A u, v \in Waiters(l)' : ticket'[u] = ticket'[v] => u = v
    BY <1>5
  <2> QED
    BY <1>4, <1>8, <1>9, <2>1, <2>2 DEF TicketBook
<1>11. QueueListed(l) /\ QueueListed(l)'
  BY <1>10, QueueLists, QueueListsAfter DEF QueuesAreListed
<1>12. Queue(l) # <<>> /\ Head(Queue(l)) = t /\ Queue(l)' = Tail(Queue(l))
  <2> DEFINE q == Queue(l)
             r == Queue(l)'
  <2>1. q \in Seq(Threads) /\ r \in Seq(Threads) /\ Len(q) = w /\ Len(r) = w - 1
    BY <1>4, <1>11 DEF QueueListed, w
  <2>2. q[1] = t
    <3>1. Place(t, l) = 0 + 1 - 1 /\ 1 \in 1 .. Len(q)
      BY <1>2, <1>7, <2>1
    <3> QED
      BY <1>3, <1>11, <3>1 DEF QueueListed
  <2>3. ASSUME NEW i \in 1 .. w - 1 PROVE r[i] = q[i + 1]
    <3>1. i + 1 \in 1 .. Len(q) /\ i \in 1 .. Len(r)
      BY <1>1, <2>1
    <3>2. PICK u \in Waiters(l) : u = q[i + 1] /\ Place(u, l) = 0 + (i + 1) - 1
      BY <1>3, <1>11, <3>1 DEF QueueListed
    <3>3. u \in Waiters(l)' /\ Place(u, l)' = 1 + i - 1
      <4>1. Place(u, l) = i /\ i # 0
        BY <3>2
      <4>2. u # t
        BY <1>2, <4>1
      <4> QED
        BY <1>6, <3>2, <4>1, <4>2
    <3>4. r[i] = u
      BY <1>4, <1>11, <3>1, <3>3 DEF QueueListed
    <3> QED
      BY <3>2, <3>4
  <2> HIDE DEF q, r
  <2>4. q # <<>> /\ Head(q) = t
    BY <1>7, <2>1, <2>2
  <2>5. /\ Tail(q) \in Seq(Threads) /\ Len(Tail(q)) = w - 1
        /\ \A i \in 1 .. w - 1 : Tail(q)[i] = q[i + 1]
    BY <2>1, <2>4, HeadTailProperties
  <2>6. r = Tail(q)
    BY <2>1, <2>3, <2>5, SeqEqual
  <2> QED
    BY <2>4, <2>6 DEF q, r
<1> QED
  BY <1>3, <1>10, <1>12

(* t takes a lock that nobody holds and for which nobody waits.             *)
LEMMA FreeLockTaken ==
  ASSUME TypeOK, TypeOK', NEW l \in Locks, TicketBook(l),
         NEW t \in Threads, now[l] = next[l],
         Holders(l)' = Holders(l) \cup {t}, Waiters(l)' = Waiters(l),
         next'[l] = Succ(next[l]), now'[l] = now[l]
  PROVE  /\ TicketBook(l)' /\ Holders(l) = {}
         /\ Queue(l) = <<>> /\ Queue(l)' = Queue(l)
<1>1. PlacesTyped(l) /\ Dist(next[l], now[l]) = 0
  BY PlacesType, DistZero DEF PlacesAreTyped, PlacesTyped
<1>2. Cardinality(Holders(l)) = 0 /\ Cardinality(Waiters(l)) = 0
  BY <1>1 DEF TicketBook, PlacesTyped
<1>3. Holders(l) = {} /\ Waiters(l) = {}
  BY <1>1, <1>2, FS_EmptySet DEF PlacesTyped
<1>4. Cardinality(Holders(l)') = 1 /\ Cardinality(Waiters(l)') = 0
  <2>1. Holders(l)' = {t} /\ Cardinality({t}) = 1
    BY <1>3, FS_Singleton
  <2> QED
    BY <1>2, <2>1
<1>5. Dist(next[l], now[l])' = 1
  BY <1>1, DistGrows DEF PlacesTyped
<1>6. TicketBook(l)'
  BY <1>3, <1>4, <1>5 DEF TicketBook
<1>7. QueueListed(l) /\ QueueListed(l)'
  BY <1>6, QueueLists, QueueListsAfter DEF QueuesAreListed
<1> QED
  BY <1>2, <1>3, <1>4, <1>6, <1>7 DEF QueueListed

(* The holder t leaves the lock to the first waiter.                       *)
LEMMA LockLeft ==
  ASSUME TypeOK, TypeOK', NEW l \in Locks, TicketBook(l), NEW t \in Holders(l),
         Holders(l)' = Holders(l) \ {t}, Waiters(l)' = Waiters(l),
         next'[l] = next[l], now'[l] = Succ(now[l]),
         \A u \in Waiters(l) : ticket'[u] = ticket[u]
  PROVE  TicketBook(l)' /\ Queue(l)' = Queue(l)
<1> DEFINE w == Cardinality(Waiters(l))
           n == Dist(next[l], now[l])
<1>1. PlacesTyped(l) /\ w \in Nat /\ n \in Nat /\ Cardinality(Holders(l)) = 1 /\ n = 1 + w
  BY PlacesType, FS_EmptySet DEF PlacesAreTyped, PlacesTyped, TicketBook
<1>2. Cardinality(Holders(l)') = 0 /\ Cardinality(Waiters(l)') = w
  <2>1. IsFiniteSet(Holders(l))
    BY <1>1 DEF PlacesTyped
  <2>2. Cardinality(Holders(l) \ {t}) = Cardinality(Holders(l)) - 1
    BY <2>1, FS_RemoveElement
  <2> QED
    BY <1>1, <2>2
<1>3. Dist(next[l], now[l])' = n - 1
  <2>1. next[l] # now[l]
    BY <1>1, DistZero DEF PlacesTyped
  <2> QED
    BY <1>1, <2>1, DistShrinks DEF PlacesTyped
<1>4. \A u \in Waiters(l) : Place(u, l) \in 1 .. n - 1 /\ Place(u, l)' = Place(u, l) - 1
  <2> SUFFICES ASSUME NEW u \in Waiters(l)
               PROVE  Place(u, l) \in 1 .. n - 1 /\ Place(u, l)' = Place(u, l) - 1
    OBVIOUS
  <2>1. Place(u, l) \in 1 .. n - 1
    BY <1>1 DEF TicketBook
  <2>2. ticket[u] \in Tickets /\ now[l] \in Tickets
    BY <1>1 DEF PlacesTyped
  <2>3. ticket[u] # now[l]
    BY <2>1, <2>2, DistZero DEF Place
  <2> QED
    BY <2>1, <2>2, <2>3, DistShrinks DEF Place
<1> HIDE DEF w, n
<1>5. TicketBook(l)'
  <2>1. \A u \in Waiters(l)' : Place(u, l)' \in 0 .. (n - 1) - 1
    BY <1>1, <1>4
  <2>2. \A d \in 0 .. (n - 1) - 1 : \E u \in Waiters(l)' : Place(u, l)' = d
    <3> SUFFICES ASSUME NEW d \in 0 .. (n - 1) - 1
                 PROVE  \E u \in Waiters(l) : Place(u, l)' = d
      OBVIOUS
    <3>1. d + 1 \in 1 .. n - 1
      BY <1>1
    <3>2. PICK u \in Waiters(l) : Place(u, l) = d + 1
      BY <1>1, <3>1 DEF TicketBook, n
    <3> QED
      BY <1>4, <3>2
  <2>3. \A u, v \in Waiters(l)' : ticket'[u] = ticket'[v] => u = v
    BY DEF TicketBook
  <2>4. n - 1 = 0 + w
    BY <1>1
  <2> QED
    BY <1>2, <1>3, <2>1, <2>2, <2>3, <2>4 DEF TicketBook
<1>6. QueueListed(l) /\ QueueListed(l)'
  BY <1>5, QueueLists, QueueListsAfter DEF QueuesAreListed
<1>7. Len(Queue(l)) = w /\ Len(Queue(l)') = w
  BY <1>2, <1>6 DEF QueueListed, w
<1>8. ASSUME NEW i \in 1 .. w PROVE Queue(l)'[i] = Queue(l)[i]
  <2>1. PICK u \in Waiters(l) : u = Queue(l)[i] /\ Place(u, l) = 1 + i - 1
    BY <1>1, <1>6, <1>7 DEF QueueListed
  <2>2. u \in Waiters(l)' /\ Place(u, l)' = 0 + i - 1
    BY <1>4, <2>1
  <2> QED
    BY <1>2, <1>6, <1>7, <2>1, <2>2 DEF QueueListed
<1>9. Queue(l)' = Queue(l)
  BY <1>6, <1>7, <1>8, SeqEqual DEF QueueListed
<1> QED
  BY <1>5, <1>9

-----------------------------------------------------------------------------
(***************************************************************************)
(* What a step of one thread leaves to the others.                          *)
(***************************************************************************)

(* The transactions of other threads hear of a counter that has changed.    *)
Warns(t) ==
  \A u \in Threads \ {t} :
    /\ doomed[u] => doomed'[u]
    /\ InTx(u) /\ ~doomed'[u] => \A l \in watch[u] : now'[l] = now[l]

(* A step in which only t moves.                                           *)
OnlyMoves(t) ==
  /\ UNCHANGED using /\ Warns(t)
  /\ \A u \in Threads \ {t} :
       /\ pc'[u] = pc[u] /\ lk'[u] = lk[u] /\ held'[u] = held[u] /\ ticket'[u] = ticket[u]
       /\ spec_entry'[u] = spec_entry[u] /\ depth'[u] = depth[u] /\ saved'[u] = saved[u]
       /\ watch'[u] = watch[u]

(* t has a place in no queue.                                              *)
WaitsNowhere(t) == \A l \in Locks : t \notin Waiters(l)

(* t has a place in the queue of l only.                                   *)
WaitsAt(t, l) == \A k \in Locks : t \in Waiters(k) <=> k = l

LEMMA OthersKeep ==
  ASSUME IInv, NEW t \in Threads, NEW u \in Threads \ {t}, OnlyMoves(t)
  PROVE  /\ SpeculationBook(u)' /\ Owned(u)' = Owned(u)
         /\ \A l \in Locks : u \in Waiters(l)' <=> u \in Waiters(l)
<1>1. /\ SpeculationBook(u) /\ InTx(u)' = InTx(u) /\ using' = using
      /\ pc'[u] = pc[u] /\ lk'[u] = lk[u] /\ held'[u] = held[u] /\ ticket'[u] = ticket[u]
      /\ spec_entry'[u] = spec_entry[u] /\ saved'[u] = saved[u] /\ watch'[u] = watch[u]
      /\ doomed[u] => doomed'[u]
      /\ InTx(u) /\ ~doomed'[u] => \A l \in watch[u] : now'[l] = now[l]
  BY DEF IInv, OnlyMoves, Warns, InTx
<1>2. SpeculationBook(u)'
  BY <1>1 DEF SpeculationBook
<1> QED
  BY <1>1, <1>2 DEF Owned, Waiters

LEMMA BooksKept ==
  ASSUME IInv, NEW t \in Threads, TypeOK', OnlyMoves(t), SpeculationBook(t)',
         ~misled' => \A l \in Locks : TicketBook(l)'
  PROVE  IInv'
<1>1. \A u \in Threads : SpeculationBook(u)'
  BY OthersKeep
<1> QED
  BY <1>1 DEF IInv

(* Who holds a lock and who waits for it, after the step.                   *)
LEMMA SetsAfter ==
  ASSUME IInv, NEW t \in Threads, NEW l \in Locks, OnlyMoves(t)
  PROVE  /\ Holders(l)' = IF l \in Owned(t)' THEN Holders(l) \cup {t} ELSE Holders(l) \ {t}
         /\ Waiters(l)' = IF t \in Waiters(l)' THEN Waiters(l) \cup {t} ELSE Waiters(l) \ {t}
<1>1. \A u \in Threads \ {t} : l \in Owned(u)' <=> l \in Owned(u)
  BY OthersKeep
<1>2. \A u \in Threads \ {t} : u \in Waiters(l)' <=> u \in Waiters(l)
  BY OthersKeep
<1>3. Holders(l) \subseteq Threads /\ Holders(l)' \subseteq Threads
  BY DEF Holders
<1>4. Waiters(l) \subseteq Threads /\ Waiters(l)' \subseteq Threads
  BY DEF Waiters
<1>5. \A u \in Threads : /\ u \in Holders(l) <=> l \in Owned(u)
                         /\ u \in Holders(l)' <=> l \in Owned(u)'
  BY DEF Holders
<1>6. Holders(l)' = IF l \in Owned(t)' THEN Holders(l) \cup {t} ELSE Holders(l) \ {t}
  BY <1>1, <1>3, <1>5
<1> QED
  BY <1>2, <1>4, <1>6

(* Nobody waits for a lock that it holds.                                  *)
LEMMA WaitersHoldNot ==
  ASSUME IInv, NEW l \in Locks PROVE Holders(l) \cap Waiters(l) = {}
<1> SUFFICES ASSUME NEW u \in Threads, l \in Owned(u), u \in Waiters(l) PROVE FALSE
  BY DEF Holders
<1>1. SpeculationBook(u)
  BY DEF IInv
<1> QED
  BY <1>1 DEF SpeculationBook, Owned, Waiters

(* A lock from which t does not take anything.                             *)
LEMMA LockNotTouched ==
  ASSUME IInv, ~misled, NEW t \in Threads, NEW l \in Locks, TypeOK', OnlyMoves(t),
         l \in Owned(t)' <=> l \in Owned(t), t \in Waiters(l)' <=> t \in Waiters(l),
         next'[l] = next[l], now'[l] = now[l],
         t \in Waiters(l) => ticket'[t] = ticket[t]
  PROVE  TicketBook(l)' /\ Queue(l)' = Queue(l)
<1>1. Holders(l)' = Holders(l) /\ Waiters(l)' = Waiters(l)
  BY SetsAfter DEF Holders
<1>2. \A u \in Waiters(l) : ticket'[u] = ticket[u]
  BY DEF Waiters, OnlyMoves
<1> QED
  BY <1>1, <1>2, PlacesStay DEF IInv

-----------------------------------------------------------------------------
(***************************************************************************)
(* The kinds of step.  Each keeps the invariant and, while no try-lock has   *)
(* lied, is a step of FifoMutex or none.                                   *)
(***************************************************************************)
FifoStep == ~misled' => [F!Next]_<<Holds, Queues>>

(* t keeps its locks and its place.                                        *)
LEMMA QuietStep ==
  ASSUME IInv, NEW t \in Threads, TypeOK', OnlyMoves(t), SpeculationBook(t)',
         Owned(t)' = Owned(t), \A l \in Locks : t \in Waiters(l)' <=> t \in Waiters(l),
         UNCHANGED <<next, now, misled>>,
         WaitsNowhere(t) \/ ticket'[t] = ticket[t]
  PROVE  IInv' /\ FifoStep
<1>1. ASSUME ~misled, NEW l \in Locks PROVE TicketBook(l)' /\ Queue(l)' = Queue(l)
  BY <1>1, LockNotTouched DEF WaitsNowhere
<1>2. UNCHANGED Holds
  BY OthersKeep DEF Holds
<1>3. ~misled => UNCHANGED Queues
  BY <1>1 DEF Queues
<1> QED
  BY <1>1, <1>2, <1>3, BooksKept DEF FifoStep

(* A try-lock lies.                                                        *)
LEMMA LyingStep ==
  ASSUME IInv, NEW t \in Threads, TypeOK', OnlyMoves(t), SpeculationBook(t)', misled'
  PROVE  IInv' /\ FifoStep
BY BooksKept DEF FifoStep

(* t takes the last place of l.                                            *)
LEMMA ArriveStep ==
  ASSUME IInv, NEW t \in Threads, TypeOK', OnlyMoves(t), SpeculationBook(t)',
         NEW l \in Locks, Owned(t)' = Owned(t), l \notin Owned(t),
         WaitsNowhere(t), WaitsAt(t, l)', ticket'[t] = next[l],
         next' = [next EXCEPT ![l] = Succ(@)], UNCHANGED <<now, misled>>
  PROVE  IInv' /\ FifoStep
<1>1. /\ next'[l] = Succ(next[l]) /\ \A k \in Locks \ {l} : next'[k] = next[k]
      /\ DOMAIN next = Locks
  BY DEF IInv, TypeOK, TicketTypeOK
<1>2. ASSUME ~misled, NEW k \in Locks \ {l} PROVE TicketBook(k)' /\ Queue(k)' = Queue(k)
  <2>1. t \notin Waiters(k)' /\ t \notin Waiters(k)
    BY DEF WaitsAt, WaitsNowhere
  <2> QED
    BY <1>1, <1>2, <2>1, LockNotTouched
<1>3. ASSUME ~misled PROVE TicketBook(l)' /\ Queue(l)' = Append(Queue(l), t)
  <2>1. t \in Waiters(l)' /\ t \notin Waiters(l) /\ t \notin Holders(l)
    BY DEF WaitsAt, WaitsNowhere, Holders
  <2>2. Holders(l)' = Holders(l) /\ Waiters(l)' = Waiters(l) \cup {t}
    BY <2>1, SetsAfter DEF Holders
  <2>3. \A u \in Waiters(l) : ticket'[u] = ticket[u]
    BY <2>1 DEF Waiters, OnlyMoves
  <2>4. TypeOK /\ TicketBook(l) /\ Holders(l) \cap Waiters(l) = {}
    BY <1>3, WaitersHoldNot DEF IInv
  <2> QED
    BY <1>1, <2>1, <2>2, <2>3, <2>4, LastPlaceTaken
<1>4. IInv'
  BY <1>2, <1>3, BooksKept
<1>5. ASSUME ~misled PROVE F!Enqueue(t, l)
  <2>1. UNCHANGED Holds
    BY OthersKeep DEF Holds
  <2>2. Queues' = [Queues EXCEPT ![l] = Append(@, t)]
    BY <1>2, <1>3, <1>5 DEF Queues
  <2> QED
    BY <2>1, <2>2 DEF F!Enqueue, Holds, Queues
<1> QED
  BY <1>4, <1>5 DEF FifoStep, F!Next

(* Its turn has come: t goes from the first place of l into l.              *)
LEMMA EnterStep ==
  ASSUME IInv, NEW t \in Threads, TypeOK', OnlyMoves(t), SpeculationBook(t)',
         NEW l \in Locks, Owned(t)' = Owned(t) \cup {l}, l \notin Owned(t),
         WaitsAt(t, l), WaitsNowhere(t)', ticket[t] = now[l],
         UNCHANGED <<next, now, misled>>
  PROVE  IInv' /\ FifoStep
<1>1. ASSUME ~misled, NEW k \in Locks \ {l} PROVE TicketBook(k)' /\ Queue(k)' = Queue(k)
  <2>1. t \notin Waiters(k)' /\ t \notin Waiters(k)
    BY DEF WaitsAt, WaitsNowhere
  <2> QED
    BY <1>1, <2>1, LockNotTouched
<1>2. ASSUME ~misled
      PROVE  /\ TicketBook(l)' /\ Holders(l) = {}
             /\ Queue(l) # <<>> /\ Head(Queue(l)) = t /\ Queue(l)' = Tail(Queue(l))
  <2>1. t \notin Waiters(l)' /\ t \in Waiters(l) /\ t \notin Holders(l)
    BY DEF WaitsAt, WaitsNowhere, Holders
  <2>2. Holders(l)' = Holders(l) \cup {t} /\ Waiters(l)' = Waiters(l) \ {t}
    BY <2>1, SetsAfter
  <2>3. \A u \in Waiters(l) \ {t} : ticket'[u] = ticket[u]
    BY DEF Waiters, OnlyMoves
  <2>4. TypeOK /\ TicketBook(l)
    BY <1>2 DEF IInv
  <2> QED
    BY <2>1, <2>2, <2>3, <2>4, FirstPlaceServed
<1>3. IInv'
  BY <1>1, <1>2, BooksKept
<1>4. ASSUME ~misled PROVE F!Acquire(t, l)
  <2>1. Holds' = [Holds EXCEPT ![t] = @ \cup {l}]
    BY OthersKeep DEF Holds
  <2>2. Queues' = [Queues EXCEPT ![l] = Tail(@)]
    BY <1>1, <1>2, <1>4 DEF Queues
  <2>3. \A u \in Threads : l \notin Owned(u)
    BY <1>2, <1>4 DEF Holders
  <2> QED
    BY <1>2, <1>4, <2>1, <2>2, <2>3 DEF F!Acquire, F!Free, Holds, Queues
<1> QED
  BY <1>3, <1>4 DEF FifoStep, F!Next

(* A try-lock finds l free.                                                *)
LEMMA TryStep ==
  ASSUME IInv, NEW t \in Threads, TypeOK', OnlyMoves(t), SpeculationBook(t)',
         NEW l \in Locks, Owned(t)' = Owned(t) \cup {l}, l \notin Owned(t),
         WaitsNowhere(t), WaitsNowhere(t)', now[l] = next[l],
         next' = [next EXCEPT ![l] = Succ(@)], UNCHANGED <<now, misled>>
  PROVE  IInv' /\ FifoStep
<1>1. next'[l] = Succ(next[l]) /\ \A k \in Locks \ {l} : next'[k] = next[k]
  BY DEF IInv, TypeOK, TicketTypeOK
<1>2. ASSUME ~misled, NEW k \in Locks \ {l} PROVE TicketBook(k)' /\ Queue(k)' = Queue(k)
  <2>1. t \notin Waiters(k)' /\ t \notin Waiters(k)
    BY DEF WaitsNowhere
  <2> QED
    BY <1>1, <1>2, <2>1, LockNotTouched
<1>3. ASSUME ~misled
      PROVE  /\ TicketBook(l)' /\ Holders(l) = {}
             /\ Queue(l) = <<>> /\ Queue(l)' = Queue(l)
  <2>1. t \notin Waiters(l)' /\ t \notin Waiters(l)
    BY DEF WaitsNowhere
  <2>2. Holders(l)' = Holders(l) \cup {t} /\ Waiters(l)' = Waiters(l)
    BY <2>1, SetsAfter
  <2>3. TypeOK /\ TicketBook(l)
    BY <1>3 DEF IInv
  <2> QED
    BY <1>1, <2>2, <2>3, FreeLockTaken
<1>4. IInv'
  BY <1>2, <1>3, BooksKept
<1>5. ASSUME ~misled PROVE F!TryAcquire(t, l)
  <2>1. Holds' = [Holds EXCEPT ![t] = @ \cup {l}]
    BY OthersKeep DEF Holds
  <2>2. UNCHANGED Queues
    BY <1>2, <1>3, <1>5 DEF Queues
  <2>3. \A u \in Threads : l \notin Owned(u)
    BY <1>3, <1>5 DEF Holders
  <2> QED
    BY <1>3, <1>5, <2>1, <2>2, <2>3 DEF F!TryAcquire, F!Free, Holds, Queues
<1> QED
  BY <1>4, <1>5 DEF FifoStep, F!Next

(* The holder t serves the next ticket of l.                               *)
LEMMA LeaveStep ==
  ASSUME IInv, NEW t \in Threads, TypeOK', OnlyMoves(t), SpeculationBook(t)',
         NEW l \in Locks, Owned(t)' = Owned(t) \ {l}, l \in Owned(t),
         WaitsNowhere(t), WaitsNowhere(t)',
         now' = [now EXCEPT ![l] = Succ(@)], UNCHANGED <<next, misled>>
  PROVE  IInv' /\ FifoStep
<1>1. now'[l] = Succ(now[l]) /\ \A k \in Locks \ {l} : now'[k] = now[k]
  BY DEF IInv, TypeOK, TicketTypeOK
<1>2. ASSUME ~misled, NEW k \in Locks \ {l} PROVE TicketBook(k)' /\ Queue(k)' = Queue(k)
  <2>1. t \notin Waiters(k)' /\ t \notin Waiters(k)
    BY DEF WaitsNowhere
  <2> QED
    BY <1>1, <1>2, <2>1, LockNotTouched
<1>3. ASSUME ~misled PROVE TicketBook(l)' /\ Queue(l)' = Queue(l)
  <2>1. t \notin Waiters(l)' /\ t \notin Waiters(l) /\ t \in Holders(l)
    BY DEF WaitsNowhere, Holders
  <2>2. Holders(l)' = Holders(l) \ {t} /\ Waiters(l)' = Waiters(l)
    BY <2>1, SetsAfter
  <2>3. \A u \in Waiters(l) : ticket'[u] = ticket[u]
    BY <2>1 DEF Waiters, OnlyMoves
  <2>4. TypeOK /\ TicketBook(l)
    BY <1>3 DEF IInv
  <2> QED
    BY <1>1, <2>1, <2>2, <2>3, <2>4, LockLeft
<1>4. IInv'
  BY <1>2, <1>3, BooksKept
<1>5. ASSUME ~misled PROVE F!Release(t, l)
  <2>1. Holds' = [Holds EXCEPT ![t] = @ \ {l}]
    BY OthersKeep DEF Holds
  <2>2. UNCHANGED Queues
    BY <1>2, <1>3, <1>5 DEF Queues
  <2> QED
    BY <2>1, <2>2 DEF F!Release, Holds, Queues
<1> QED
  BY <1>4, <1>5 DEF FifoStep, F!Next

-----------------------------------------------------------------------------
(***************************************************************************)
(* Steps outside transactions, common to both lock types.                   *)
(***************************************************************************)
Labels == IF using = "ticket" THEN TicketLabels ELSE TicketTmLabels

WaitLabels == {"wait", "dist", "enter", "check", "abort"}

(* t goes to a label, with an argument, believing that it holds locks.      *)
Moves(t, label, l, locks) ==
  /\ pc' = [pc EXCEPT ![t] = label]
  /\ lk' = [lk EXCEPT ![t] = l]
  /\ held' = [held EXCEPT ![t] = locks]

LEMMA MovesForms ==
  ASSUME TypeOK, NEW t \in Threads
  PROVE  /\ \A label, l : Call(t, l, label) => Moves(t, label, l, held[t])
         /\ \A label : Goto(t, label) => Moves(t, label, lk[t], held[t])
         /\ Acquired(t) => Moves(t, "client", Null, held[t] \cup {lk[t]})
         /\ Refused(t) => Moves(t, "client", Null, held[t])
         /\ \A locks : CallReturning(t, locks) => Moves(t, pc[t], lk[t], locks)
BY DEF TypeOK, ClientTypeOK, Moves, Call, Goto, Acquired, Refused, Return, CallReturning

(* Variables of which a move outside transactions needs no more.            *)
OthersTyped(t) ==
  /\ tries' \in [Threads -> Nat] /\ doomed' \in [Threads -> BOOLEAN]
  /\ TicketTypeOK' /\ misled' \in BOOLEAN
  /\ \A u \in Threads \ {t} : ticket'[u] = ticket[u]

LEMMA RealMove ==
  ASSUME IInv, NEW t \in Threads, ~InTx(t),
         NEW label \in Labels \cup {"client"}, NEW l \in Locks \cup {Null},
         NEW locks \in SUBSET Locks, NEW e \in Locks \cup {Null},
         Moves(t, label, l, locks), spec_entry' = [spec_entry EXCEPT ![t] = e],
         UNCHANGED <<using, depth, saved, watch>>, OthersTyped(t), Warns(t),
         label # "client" => l \in Locks \ locks, label # "check",
         e # Null => label = "abort" /\ using # "ticket"
  PROVE  /\ TypeOK' /\ OnlyMoves(t) /\ SpeculationBook(t)'
         /\ Owned(t) = held[t] /\ Owned(t)' = locks
         /\ IF label \in WaitLabels THEN WaitsAt(t, l)' ELSE WaitsNowhere(t)'
<1> USE DEF Moves
<1>1. TypeOK'
  BY DEF IInv, TypeOK, ClientTypeOK, HtmTypeOK, OthersTyped, Labels
<1>2. OnlyMoves(t)
  BY DEF OnlyMoves, OthersTyped, IInv, TypeOK, ClientTypeOK, HtmTypeOK
<1>3. /\ pc'[t] = label /\ lk'[t] = l /\ held'[t] = locks /\ spec_entry'[t] = e
      /\ ~InTx(t)'
  BY DEF IInv, TypeOK, ClientTypeOK, HtmTypeOK, InTx
<1>4. SpeculationBook(t)'
  BY <1>3 DEF SpeculationBook
<1>5. Owned(t) = held[t] /\ Owned(t)' = locks
  BY <1>3 DEF Owned
<1>6. IF label \in WaitLabels THEN WaitsAt(t, l)' ELSE WaitsNowhere(t)'
  BY <1>3 DEF Waiters, WaitLabels, WaitsAt, WaitsNowhere
<1> QED
  BY <1>1, <1>2, <1>4, <1>5, <1>6

(* Where a thread waits that is in no transaction.                         *)
LEMMA RealPlace ==
  ASSUME NEW t \in Threads, ~InTx(t), NEW l, lk[t] = l
  PROVE  IF pc[t] \in WaitLabels THEN WaitsAt(t, l) ELSE WaitsNowhere(t)
BY DEF Waiters, WaitLabels, WaitsAt, WaitsNowhere

(* Outside transactions and functions, spec_entry is null.                 *)
LEMMA FlagIsNull ==
  ASSUME IInv, NEW t \in Threads, ~InTx(t), pc[t] # "abort"
  PROVE  spec_entry[t] = Null /\ spec_entry = [spec_entry EXCEPT ![t] = Null]
BY DEF IInv, SpeculationBook, TypeOK, HtmTypeOK

(* In a function, a thread is outside transactions unless it is to check     *)
(* its turn.                                                               *)
LEMMA FunctionsAreReal ==
  ASSUME IInv, NEW t \in Threads, pc[t] \notin {"client", "check"}
  PROVE  /\ ~InTx(t) /\ Owned(t) = held[t] /\ held[t] \in SUBSET Locks
         /\ lk[t] \in Locks /\ lk[t] \notin held[t] /\ lk[t] \notin Owned(t)
BY DEF IInv, SpeculationBook, Owned, TypeOK, ClientTypeOK

(* A transaction hears of every counter as long as none changes.           *)
LEMMA NobodyToWarn ==
  ASSUME IInv, NEW t \in Threads, UNCHANGED <<doomed, now>>
  PROVE  Warns(t)
BY DEF Warns

(* In the calls of ticket there are no transactions to warn.               *)
LEMMA NoTransactions ==
  ASSUME IInv, using = "ticket", NEW t \in Threads, UNCHANGED htmVars
  PROVE  Warns(t)
BY DEF IInv, SpeculationBook, Warns, htmVars

(* A thread takes the last place in the queue of its lock.                  *)
LEMMA TakeKeeps ==
  ASSUME IInv, NEW t \in Threads, pc[t] = "take", TakeTicket(t), Goto(t, "wait"),
         UNCHANGED <<using, misled, htmVars>>
  PROVE  IInv' /\ FifoStep
<1>1. PICK l \in Locks : l = lk[t]
  BY FunctionsAreReal
<1>2. PICK locks \in SUBSET Locks : locks = held[t]
  BY FunctionsAreReal
<1>3. TypeOK /\ ~InTx(t) /\ Owned(t) = locks /\ l \notin locks /\ WaitsNowhere(t)
  BY <1>1, <1>2, FunctionsAreReal, RealPlace DEF IInv, WaitLabels
<1>4. /\ ticket' = [ticket EXCEPT ![t] = next[l]] /\ next' = [next EXCEPT ![l] = Succ(@)]
      /\ UNCHANGED <<using, depth, saved, watch, doomed, now, misled>>
  BY <1>1 DEF TakeTicket, htmVars
<1>5. Moves(t, "wait", l, locks) /\ spec_entry' = [spec_entry EXCEPT ![t] = Null]
  <2>1. Moves(t, "wait", lk[t], held[t])
    BY <1>3, MovesForms
  <2>2. spec_entry' = [spec_entry EXCEPT ![t] = Null]
    BY <1>3, FlagIsNull DEF htmVars
  <2> QED
    BY <1>1, <1>2, <2>1, <2>2
<1>6. OthersTyped(t) /\ Warns(t) /\ ticket'[t] = next[l]
  <2>1. next[l] \in Tickets /\ Succ(next[l]) \in Tickets
    BY <1>3, SuccType DEF TypeOK, TicketTypeOK
  <2>2. TicketTypeOK' /\ ticket'[t] = next[l] /\ \A u \in Threads \ {t} : ticket'[u] = ticket[u]
    BY <1>3, <1>4, <2>1 DEF TypeOK, TicketTypeOK
  <2> QED
    BY <1>3, <1>4, <2>2, NobodyToWarn DEF OthersTyped, htmVars, TypeOK, HtmTypeOK
<1>7. /\ "wait" \in Labels \cup {"client"} /\ "wait" \in WaitLabels
      /\ Null \in Locks \cup {Null} /\ l \in Locks \cup {Null}
  BY DEF Labels, TicketLabels, TicketTmLabels, WaitLabels
<1>8. TypeOK' /\ OnlyMoves(t) /\ SpeculationBook(t)' /\ Owned(t)' = locks /\ WaitsAt(t, l)'
  BY <1>3, <1>4, <1>5, <1>6, <1>7, RealMove
<1> QED
  BY <1>3, <1>4, <1>6, <1>8, ArriveStep

(* A thread whose turn has come enters its lock.                           *)
LEMMA WaitKeeps ==
  ASSUME IInv, NEW t \in Threads, pc[t] = "wait", MyTurn(t), Acquired(t), DropTicket(t),
         UNCHANGED <<using, misled, htmVars, next, now>>
  PROVE  IInv' /\ FifoStep
<1>1. PICK l \in Locks : l = lk[t]
  BY FunctionsAreReal
<1>2. PICK locks \in SUBSET Locks : locks = held[t]
  BY FunctionsAreReal
<1>3. /\ TypeOK /\ ~InTx(t) /\ Owned(t) = locks /\ l \notin locks /\ WaitsAt(t, l)
      /\ ticket[t] = now[l] /\ UNCHANGED <<using, depth, saved, watch, doomed, next, now, misled>>
  BY <1>1, <1>2, FunctionsAreReal, RealPlace DEF IInv, WaitLabels, MyTurn, htmVars
<1>4. /\ Moves(t, "client", Null, locks \cup {l}) /\ locks \cup {l} \in SUBSET Locks
      /\ spec_entry' = [spec_entry EXCEPT ![t] = Null]
  BY <1>1, <1>2, <1>3, MovesForms, FlagIsNull DEF htmVars
<1>5. OthersTyped(t) /\ Warns(t)
  <2>1. TicketTypeOK' /\ \A u \in Threads \ {t} : ticket'[u] = ticket[u]
    BY <1>3 DEF DropTicket, TypeOK, TicketTypeOK, Tickets
  <2> QED
    BY <1>3, <2>1, NobodyToWarn DEF OthersTyped, htmVars, TypeOK, HtmTypeOK
<1>6. /\ "client" \in Labels \cup {"client"} /\ "client" \notin WaitLabels
      /\ Null \in Locks \cup {Null}
  BY DEF WaitLabels
<1>7. /\ TypeOK' /\ OnlyMoves(t) /\ SpeculationBook(t)' /\ Owned(t)' = locks \cup {l}
      /\ WaitsNowhere(t)'
  BY <1>3, <1>4, <1>5, <1>6, RealMove
<1> QED
  BY <1>3, <1>7, EnterStep

(* A thread goes on, or fails to start a transaction, without a change of    *)
(* its place: it waited before and waits after, or neither.                 *)
LEMMA GotoStep ==
  ASSUME IInv, NEW t \in Threads, pc[t] \notin {"client", "check"},
         NEW label \in Labels \ {"check"}, Goto(t, label),
         pc[t] \in WaitLabels <=> label \in WaitLabels,
         NEW e \in Locks \cup {Null}, spec_entry' = [spec_entry EXCEPT ![t] = e],
         e # Null => label = "abort" /\ using # "ticket",
         UNCHANGED <<using, depth, saved, watch, doomed, next, now, misled>>,
         tries' \in [Threads -> Nat], ticket' = ticket
  PROVE  IInv' /\ FifoStep
<1>1. PICK l \in Locks : l = lk[t]
  BY FunctionsAreReal
<1>2. PICK locks \in SUBSET Locks : locks = held[t]
  BY FunctionsAreReal
<1>3. /\ TypeOK /\ ~InTx(t) /\ Owned(t) = locks /\ l \notin locks
      /\ IF pc[t] \in WaitLabels THEN WaitsAt(t, l) ELSE WaitsNowhere(t)
  BY <1>1, <1>2, FunctionsAreReal, RealPlace DEF IInv
<1>4. Moves(t, label, l, locks)
  <2>1. Moves(t, label, lk[t], held[t])
    BY <1>3, MovesForms
  <2> QED
    BY <1>1, <1>2, <2>1
<1>5. OthersTyped(t) /\ Warns(t)
  BY <1>3, NobodyToWarn DEF OthersTyped, TypeOK, HtmTypeOK, TicketTypeOK
<1>6. label \in Labels \cup {"client"} /\ l \in Locks \cup {Null}
  OBVIOUS
<1>7. /\ TypeOK' /\ OnlyMoves(t) /\ SpeculationBook(t)' /\ Owned(t)' = locks
      /\ IF label \in WaitLabels THEN WaitsAt(t, l)' ELSE WaitsNowhere(t)'
  BY <1>3, <1>4, <1>5, <1>6, RealMove
<1>8. \A k \in Locks : t \in Waiters(k)' <=> t \in Waiters(k)
  BY <1>3, <1>7 DEF WaitsAt, WaitsNowhere
<1> QED
  BY <1>3, <1>7, <1>8, QuietStep

(* A call that is not elided enters its function.                          *)
LEMMA CallStep ==
  ASSUME IInv, NEW t \in Threads, ~InTx(t), pc[t] = "client",
         NEW l \in Locks, l \notin held[t],
         NEW label \in Labels \ WaitLabels, Call(t, l, label),
         UNCHANGED <<using, spec_entry, depth, saved, watch, doomed, ticketVars, misled>>,
         tries' \in [Threads -> Nat]
  PROVE  IInv' /\ FifoStep
<1>1. PICK locks \in SUBSET Locks : locks = held[t]
  BY DEF IInv, TypeOK, ClientTypeOK
<1>2. TypeOK /\ Owned(t) = locks /\ l \notin locks /\ WaitsNowhere(t)
  BY <1>1, RealPlace DEF IInv, WaitLabels, Owned
<1>3. Moves(t, label, l, locks) /\ spec_entry' = [spec_entry EXCEPT ![t] = Null]
  <2>1. Moves(t, label, l, held[t])
    BY <1>2, MovesForms
  <2>2. spec_entry' = [spec_entry EXCEPT ![t] = Null]
    BY FlagIsNull
  <2> QED
    BY <1>1, <2>1, <2>2
<1>4. OthersTyped(t) /\ Warns(t)
  BY <1>2, NobodyToWarn DEF OthersTyped, ticketVars, TypeOK, HtmTypeOK, TicketTypeOK
<1>5. /\ label \in Labels \cup {"client"} /\ l \in Locks \cup {Null} /\ label \notin WaitLabels
      /\ Null \in Locks \cup {Null} /\ label # "check"
  BY DEF WaitLabels
<1>6. TypeOK' /\ OnlyMoves(t) /\ SpeculationBook(t)' /\ Owned(t)' = locks /\ WaitsNowhere(t)'
  BY <1>1, <1>2, <1>3, <1>4, <1>5, RealMove
<1>7. \A k \in Locks : t \in Waiters(k)' <=> t \in Waiters(k)
  BY <1>2, <1>6 DEF WaitsNowhere
<1> QED
  BY <1>2, <1>6, <1>7, QuietStep DEF ticketVars

(* The two steps of a try-lock, of ticket and of ticket_tm: the latter       *)
(* reports also the lock that it did not get.                              *)
LEMMA TryKeeps ==
  ASSUME IInv, NEW t \in Threads, UNCHANGED <<using, htmVars>>,
         \/ /\ TryTicket(t, "try", "try_swap", Acquired(t), Refused(t))
            /\ UNCHANGED misled
         \/ /\ TryTicket(t, "try", "try_swap", Acquired(t), Acquired(t))
            /\ misled' = (misled \/ (pc[t] = "try_swap" /\ ~NobodyQueues(t)))
  PROVE  IInv' /\ FifoStep
<1>1. pc[t] \in {"try", "try_swap"}
  BY DEF TryTicket
<1>2. PICK l \in Locks : l = lk[t]
  BY <1>1, FunctionsAreReal
<1>3. PICK locks \in SUBSET Locks : locks = held[t]
  BY <1>1, FunctionsAreReal
<1>4. /\ TypeOK /\ ~InTx(t) /\ Owned(t) = locks /\ l \notin locks /\ WaitsNowhere(t)
      /\ UNCHANGED <<using, depth, saved, watch, doomed>> /\ now' = now
  BY <1>1, <1>2, <1>3, FunctionsAreReal, RealPlace DEF IInv, WaitLabels, htmVars, TryTicket
<1>5. spec_entry' = [spec_entry EXCEPT ![t] = Null]
  BY <1>1, <1>4, FlagIsNull DEF htmVars
<1>6. OthersTyped(t) /\ Warns(t)
  <2>1. now[l] \in Tickets /\ Succ(next[l]) \in Tickets
    BY <1>4, SuccType DEF TypeOK, TicketTypeOK
  <2>2. TicketTypeOK' /\ \A u \in Threads \ {t} : ticket'[u] = ticket[u]
    BY <1>2, <1>4, <2>1 DEF TryTicket, DropTicket, TypeOK, TicketTypeOK, Tickets
  <2> QED
    BY <1>4, <2>2, NobodyToWarn DEF OthersTyped, htmVars, TypeOK, HtmTypeOK
<1>7. /\ {"client", "try_swap"} \subseteq Labels \cup {"client"}
      /\ "client" \notin WaitLabels /\ "try_swap" \notin WaitLabels
      /\ Null \in Locks \cup {Null} /\ l \in Locks \cup {Null} /\ locks \cup {l} \in SUBSET Locks
  BY DEF Labels, TicketLabels, TicketTmLabels, WaitLabels
<1>8. ASSUME Moves(t, "client", Null, locks) \/ Moves(t, "try_swap", l, locks),
             UNCHANGED <<next, misled>>
      PROVE  IInv' /\ FifoStep
  <2>1. TypeOK' /\ OnlyMoves(t) /\ SpeculationBook(t)' /\ Owned(t)' = locks /\ WaitsNowhere(t)'
    BY <1>4, <1>5, <1>6, <1>7, <1>8, RealMove
  <2>2. \A k \in Locks : t \in Waiters(k)' <=> t \in Waiters(k)
    BY <1>4, <2>1 DEF WaitsNowhere
  <2> QED
    BY <1>4, <1>8, <2>1, <2>2, QuietStep
<1>9. ASSUME Moves(t, "client", Null, locks \cup {l}),
             misled' \/ (/\ now[l] = next[l] /\ UNCHANGED misled
                         /\ next' = [next EXCEPT ![l] = Succ(@)])
      PROVE  IInv' /\ FifoStep
  <2>1. /\ TypeOK' /\ OnlyMoves(t) /\ SpeculationBook(t)' /\ Owned(t)' = locks \cup {l}
        /\ WaitsNowhere(t)'
    BY <1>4, <1>5, <1>6, <1>7, <1>9, RealMove
  <2>2. CASE misled'
    BY <2>1, <2>2, LyingStep
  <2>3. CASE /\ now[l] = next[l] /\ UNCHANGED misled
             /\ next' = [next EXCEPT ![l] = Succ(@)]
    BY <1>4, <2>1, <2>3, TryStep
  <2> QED
    BY <1>9, <2>2, <2>3
<1>10. /\ Acquired(t) => Moves(t, "client", Null, locks \cup {l})
       /\ Refused(t) => Moves(t, "client", Null, locks)
       /\ Goto(t, "try_swap") => Moves(t, "try_swap", l, locks)
  BY <1>2, <1>3, <1>4, MovesForms
<1>11. CASE pc[t] = "try"
  <2>1. Goto(t, "try_swap") /\ UNCHANGED <<next, misled>>
    BY <1>4, <1>11 DEF TryTicket, TypeOK
  <2> QED
    BY <1>8, <1>10, <2>1
<1>12. CASE pc[t] = "try_swap" /\ NobodyQueues(t)
  <2>1. /\ Acquired(t) /\ now[l] = next[l] /\ misled' = misled
        /\ next' = [next EXCEPT ![l] = Succ(@)]
    BY <1>2, <1>4, <1>12 DEF TryTicket, NobodyQueues, TypeOK
  <2> QED
    BY <1>9, <1>10, <2>1
<1>13. CASE pc[t] = "try_swap" /\ ~NobodyQueues(t)
  <2>1. next' = next
    BY <1>13 DEF TryTicket
  <2>2. CASE Refused(t) /\ UNCHANGED misled
    BY <1>8, <1>10, <2>1, <2>2
  <2>3. CASE Acquired(t) /\ misled' = (misled \/ (pc[t] = "try_swap" /\ ~NobodyQueues(t)))
    <3>1. misled' = TRUE
      BY <1>13, <2>3
    <3> QED
      BY <1>9, <1>10, <2>3, <3>1
  <2> QED
    BY <1>13, <2>2, <2>3 DEF TryTicket
<1> QED
  BY <1>1, <1>11, <1>12, <1>13

(* The holder serves the next ticket, and of ticket_tm it warns the          *)
(* transactions that have read the counter.                                *)
LEMMA UnlockKeeps ==
  ASSUME IInv, NEW t \in Threads, NEW l \in Locks, ~InTx(t), MayUnlock(t, l), Serve(l),
         CallReturning(t, held[t] \ {l}),
         UNCHANGED <<using, misled, spec_entry, tries, depth, saved, watch>>,
         (using = "ticket" /\ UNCHANGED doomed) \/ Doom({l})
  PROVE  IInv' /\ FifoStep
<1>1. PICK locks \in SUBSET Locks : locks = held[t]
  BY DEF IInv, TypeOK, ClientTypeOK
<1>2. PICK k \in Locks \cup {Null} : k = lk[t]
  BY DEF IInv, TypeOK, ClientTypeOK
<1>3. /\ TypeOK /\ Owned(t) = locks /\ l \in locks /\ pc[t] = "client" /\ WaitsNowhere(t)
      /\ now' = [now EXCEPT ![l] = Succ(@)] /\ UNCHANGED <<next, ticket>>
  BY <1>1, RealPlace DEF IInv, WaitLabels, Owned, MayUnlock, Serve
<1>4. Moves(t, "client", k, locks \ {l}) /\ spec_entry' = [spec_entry EXCEPT ![t] = Null]
  <2>1. Moves(t, pc[t], lk[t], held[t] \ {l})
    BY <1>3, MovesForms
  <2>2. spec_entry' = [spec_entry EXCEPT ![t] = Null]
    BY <1>3, FlagIsNull
  <2> QED
    BY <1>1, <1>2, <1>3, <2>1, <2>2
<1>5. now'[l] = Succ(now[l]) /\ \A m \in Locks \ {l} : now'[m] = now[m]
  BY <1>3 DEF TypeOK, TicketTypeOK
<1>6. Warns(t) /\ doomed' \in [Threads -> BOOLEAN]
  <2>1. CASE using = "ticket" /\ UNCHANGED doomed
    BY <1>3, <2>1, NoTransactions DEF htmVars, TypeOK, HtmTypeOK
  <2>2. CASE Doom({l})
    <3>1. /\ doomed' \in [Threads -> BOOLEAN] /\ watch \in [Threads -> SUBSET Locks]
          /\ \A u \in Threads : doomed'[u] = (doomed[u] \/ watch[u] \cap {l} # {})
      BY <1>3, <2>2 DEF Doom, TypeOK, HtmTypeOK
    <3>2. ASSUME NEW u \in Threads, ~doomed'[u], NEW m \in watch[u] PROVE now'[m] = now[m]
      BY <1>5, <3>1, <3>2
    <3> QED
      BY <3>1, <3>2 DEF Warns
  <2> QED
    BY <2>1, <2>2
<1>7. OthersTyped(t)
  <2>1. Succ(now[l]) \in Tickets
    BY <1>3, SuccType DEF TypeOK, TicketTypeOK
  <2>2. TicketTypeOK'
    BY <1>3, <2>1 DEF TypeOK, TicketTypeOK
  <2> QED
    BY <1>3, <1>6, <2>2 DEF OthersTyped, TypeOK, HtmTypeOK
<1>8. /\ "client" \in Labels \cup {"client"} /\ "client" \notin WaitLabels
      /\ Null \in Locks \cup {Null} /\ locks \ {l} \in SUBSET Locks
  BY DEF WaitLabels
<1>9. /\ TypeOK' /\ OnlyMoves(t) /\ SpeculationBook(t)' /\ Owned(t)' = locks \ {l}
      /\ WaitsNowhere(t)'
  BY <1>3, <1>4, <1>6, <1>7, <1>8, RealMove
<1> QED
  BY <1>3, <1>9, LeaveStep

-----------------------------------------------------------------------------
(***************************************************************************)
(* Steps in transactions, of ticket_tm only.                               *)
(***************************************************************************)

(* Where a thread waits that speculates.                                   *)
PlaceInTx ==
  \A t \in Threads : SpeculationBook(t) /\ InTx(t) => WaitsAt(t, saved[t].lk)

LEMMA SpeculatorWaits == PlaceInTx
BY DEF PlaceInTx, SpeculationBook, WaitsAt, Waiters

LEMMA SpeculatorWaitsAfter == PlaceInTx'
BY SpeculatorWaits, PTL

(* t goes on in its transaction.                                           *)
LEMMA TxStep ==
  ASSUME IInv, NEW t \in Threads, InTx(t), TypeOK', OnlyMoves(t), SpeculationBook(t)',
         InTx(t)', saved'[t] = saved[t],
         UNCHANGED <<next, now, misled, ticket>>
  PROVE  IInv' /\ FifoStep
<1>1. Owned(t)' = Owned(t)
  BY DEF Owned
<1>2. WaitsAt(t, saved[t].lk) /\ WaitsAt(t, saved[t].lk)'
  BY SpeculatorWaits, SpeculatorWaitsAfter DEF PlaceInTx, IInv
<1>3. \A l \in Locks : t \in Waiters(l)' <=> t \in Waiters(l)
  BY <1>2 DEF WaitsAt
<1> QED
  BY <1>1, <1>3, QuietStep

(* An elided call changes only what the thread believes, in its transaction. *)
LEMMA ElidedKeeps ==
  ASSUME IInv, NEW t \in Threads, pc[t] = "client", NEW locks \in SUBSET Locks,
         Elided(t, locks), UNCHANGED <<using, ticketVars, misled>>
  PROVE  IInv' /\ FifoStep
<1>1. /\ TypeOK /\ SpeculationBook(t) /\ InTx(t)
      /\ UNCHANGED <<pc, lk, spec_entry, tries, depth, saved, watch, doomed, next, now, ticket>>
      /\ held' = [held EXCEPT ![t] = locks]
  BY DEF IInv, SpeculationBook, Elided, CallReturning, htmVars, ticketVars
<1>2. TypeOK'
  BY <1>1 DEF TypeOK, ClientTypeOK, TicketTypeOK, HtmTypeOK
<1>3. OnlyMoves(t)
  BY <1>1, NobodyToWarn DEF OnlyMoves, TypeOK, ClientTypeOK
<1>4. SpeculationBook(t)' /\ InTx(t)'
  BY <1>1 DEF SpeculationBook, InTx
<1> QED
  BY <1>1, <1>2, <1>3, <1>4, TxStep

(* t begins to speculate, with the place that it has.                      *)
LEMMA BeginKeeps ==
  ASSUME IInv, NEW t \in Threads, using = "ticket_tm", pc[t] = "enter",
         spec_entry' = [spec_entry EXCEPT ![t] = lk[t]], UNCHANGED tries,
         XBegin(t), Goto(t, "check"), UNCHANGED <<using, ticketVars, misled>>
  PROVE  IInv' /\ FifoStep
<1>1. PICK l \in Locks : l = lk[t]
  BY FunctionsAreReal
<1>2. PICK locks \in SUBSET Locks : locks = held[t]
  BY FunctionsAreReal
<1>3. /\ TypeOK /\ SpeculationBook(t) /\ ~InTx(t) /\ Owned(t) = locks /\ l \in Locks \ locks
      /\ WaitsAt(t, l) /\ l # Null
  BY <1>1, <1>2, FunctionsAreReal, RealPlace, LocksAssumption DEF IInv, WaitLabels
<1>4. /\ spec_entry' = [spec_entry EXCEPT ![t] = l] /\ depth' = [depth EXCEPT ![t] = @ + 1]
      /\ saved' = [saved EXCEPT ![t] = [held |-> locks, lk |-> l, tries |-> tries[t]]]
      /\ pc' = [pc EXCEPT ![t] = "check"]
      /\ UNCHANGED <<lk, held, watch, doomed, next, now, ticket, misled, using>>
  BY <1>1, <1>2, <1>3 DEF XBegin, Goto, ticketVars
<1>5. TypeOK'
  <2>1. tries[t] \in Nat /\ depth[t] + 1 \in Nat
    BY <1>3 DEF TypeOK, HtmTypeOK
  <2>2. [held |-> locks, lk |-> l, tries |-> tries[t]]
          \in [held : SUBSET Locks, lk : Locks \cup {Null}, tries : Nat]
    BY <2>1
  <2>3. HtmTypeOK'
    BY <1>3, <1>4, <2>1, <2>2 DEF TypeOK, HtmTypeOK
  <2>4. ClientTypeOK(IF using = "ticket" THEN TicketLabels ELSE TicketTmLabels)'
    BY <1>3, <1>4 DEF TypeOK, ClientTypeOK, TicketTmLabels
  <2> QED
    BY <1>3, <1>4, <2>3, <2>4 DEF TypeOK, TicketTypeOK
<1>6. OnlyMoves(t)
  BY <1>3, <1>4, NobodyToWarn DEF OnlyMoves, TypeOK, ClientTypeOK, HtmTypeOK
<1>7. /\ InTx(t)' /\ spec_entry'[t] = l /\ pc'[t] = "check" /\ lk'[t] = l /\ held'[t] = locks
      /\ saved'[t].lk = l /\ saved'[t].held = locks
  BY <1>1, <1>2, <1>3, <1>4 DEF InTx, TypeOK, ClientTypeOK, HtmTypeOK
<1>8. SpeculationBook(t)'
  BY <1>3, <1>4, <1>7 DEF SpeculationBook
<1>9. Owned(t)' = locks
  BY <1>7 DEF Owned
<1>10. \A k \in Locks : t \in Waiters(k)' <=> t \in Waiters(k)
  BY <1>3, <1>7, <1>8, SpeculatorWaitsAfter DEF PlaceInTx, WaitsAt
<1> QED
  BY <1>3, <1>4, <1>5, <1>6, <1>8, <1>9, <1>10, QuietStep

(* t has found that it is not its turn, and will hear when it is.           *)
LEMMA CheckKeeps ==
  ASSUME IInv, NEW t \in Threads, pc[t] = "check", ~MyTurn(t), Watch(t, lk[t]), Acquired(t),
         UNCHANGED <<spec_entry, tries, using, ticketVars, misled>>
  PROVE  IInv' /\ FifoStep
<1>1. PICK l \in Locks : l = saved[t].lk /\ l = lk[t]
  BY DEF IInv, SpeculationBook
<1>2. TypeOK /\ SpeculationBook(t) /\ InTx(t) /\ ticket[t] # now[l]
  BY <1>1 DEF IInv, SpeculationBook, MyTurn
<1>3. /\ watch' = [watch EXCEPT ![t] = @ \cup {l}]
      /\ pc' = [pc EXCEPT ![t] = "client"] /\ lk' = [lk EXCEPT ![t] = Null]
      /\ held' = [held EXCEPT ![t] = @ \cup {l}]
      /\ UNCHANGED <<spec_entry, tries, depth, saved, doomed, next, now, ticket, misled, using>>
  BY <1>1, <1>2 DEF Watch, Acquired, Return, ticketVars, TypeOK, ClientTypeOK
<1>4. TypeOK'
  BY <1>2, <1>3 DEF TypeOK, ClientTypeOK, HtmTypeOK, TicketTypeOK
<1>5. OnlyMoves(t)
  BY <1>2, <1>3, NobodyToWarn DEF OnlyMoves, TypeOK, ClientTypeOK, HtmTypeOK
<1>6. pc'[t] = "client" /\ l \in watch'[t] /\ InTx(t)'
  BY <1>2, <1>3 DEF InTx, TypeOK, ClientTypeOK, HtmTypeOK
<1>7. SpeculationBook(t)'
  BY <1>1, <1>2, <1>3, <1>6 DEF SpeculationBook
<1> QED
  BY <1>2, <1>3, <1>4, <1>5, <1>6, <1>7, TxStep

(* An abort brings t back to its place outside the transaction.             *)
LEMMA AbortKeeps ==
  ASSUME IInv, NEW t \in Threads, Abort(t), UNCHANGED <<using, ticketVars, misled>>
  PROVE  IInv' /\ FifoStep
<1>1. PICK s \in [held : SUBSET Locks, lk : Locks \cup {Null}, tries : Nat] : s = saved[t]
  BY DEF IInv, TypeOK, HtmTypeOK
<1>2. /\ TypeOK /\ SpeculationBook(t) /\ InTx(t) /\ Owned(t) = s.held /\ using = "ticket_tm"
      /\ s.lk \in Locks \ s.held /\ WaitsAt(t, s.lk)
  BY <1>1, SpeculatorWaits DEF IInv, SpeculationBook, Abort, Owned, PlaceInTx, TypeOK
<1>3. /\ pc' = [pc EXCEPT ![t] = "abort"] /\ lk' = [lk EXCEPT ![t] = s.lk]
      /\ held' = [held EXCEPT ![t] = s.held] /\ tries' = [tries EXCEPT ![t] = s.tries]
      /\ depth' = [depth EXCEPT ![t] = 0] /\ saved' = [saved EXCEPT ![t] = NoCheckpoint]
      /\ watch' = [watch EXCEPT ![t] = {}] /\ doomed' = [doomed EXCEPT ![t] = FALSE]
      /\ UNCHANGED <<spec_entry, next, now, ticket, misled, using>>
  BY <1>1 DEF Abort, LeaveTx, ticketVars
<1>4. TypeOK'
  <2>1. NoCheckpoint \in [held : SUBSET Locks, lk : Locks \cup {Null}, tries : Nat]
    BY DEF NoCheckpoint
  <2>2. HtmTypeOK'
    BY <1>2, <1>3, <2>1 DEF TypeOK, HtmTypeOK
  <2>3. ClientTypeOK(IF using = "ticket" THEN TicketLabels ELSE TicketTmLabels)'
    BY <1>2, <1>3 DEF TypeOK, ClientTypeOK, TicketTmLabels
  <2> QED
    BY <1>2, <1>3, <2>2, <2>3 DEF TypeOK, TicketTypeOK
<1>5. OnlyMoves(t)
  <2>1. Warns(t)
    BY <1>2, <1>3 DEF Warns, TypeOK, HtmTypeOK
  <2> QED
    BY <1>2, <1>3, <2>1 DEF OnlyMoves, TypeOK, ClientTypeOK, HtmTypeOK
<1>6. /\ pc'[t] = "abort" /\ lk'[t] = s.lk /\ held'[t] = s.held /\ ~InTx(t)'
      /\ saved'[t] = NoCheckpoint
  BY <1>2, <1>3 DEF InTx, TypeOK, ClientTypeOK, HtmTypeOK
<1>7. SpeculationBook(t)'
  BY <1>2, <1>3, <1>6 DEF SpeculationBook
<1>8. Owned(t)' = s.held
  BY <1>6 DEF Owned
<1>9. WaitsAt(t, s.lk)'
  BY <1>6 DEF WaitsAt, Waiters
<1>10. \A k \in Locks : t \in Waiters(k)' <=> t \in Waiters(k)
  BY <1>2, <1>9 DEF WaitsAt
<1> QED
  BY <1>2, <1>3, <1>4, <1>5, <1>7, <1>8, <1>10, QuietStep

-----------------------------------------------------------------------------
(***************************************************************************)
(* Every step of the two lock types.                                       *)
(***************************************************************************)

(* A call of ticket_lock, ticket_trylock, ticket_unlock.                   *)
LEMMA TicketCallKeeps ==
  ASSUME IInv, using = "ticket", NEW t \in Threads, NEW l \in Locks,
         TicketCall(t, l), UNCHANGED <<using, misled, htmVars>>
  PROVE  IInv' /\ FifoStep
<1>1. ~InTx(t) /\ tries' \in [Threads -> Nat]
  BY DEF IInv, SpeculationBook, TypeOK, HtmTypeOK, htmVars
<1>2. {"take", "try"} \subseteq Labels \ WaitLabels
  BY DEF Labels, TicketLabels, WaitLabels
<1>3. CASE ticket_lock(t, l)
  <2>1. l \notin held[t] /\ pc[t] = "client"
    BY <1>3, LocksAssumption DEF ticket_lock, MayLock
  <2> QED
    BY <1>1, <1>2, <1>3, <2>1, CallStep DEF ticket_lock, htmVars
<1>4. CASE ticket_trylock(t, l)
  BY <1>1, <1>2, <1>4, CallStep DEF ticket_trylock, MayTrylock, htmVars
<1>5. CASE ticket_unlock(t, l)
  BY <1>1, <1>5, UnlockKeeps DEF ticket_unlock, htmVars
<1> QED
  BY <1>3, <1>4, <1>5 DEF TicketCall

(* A call of ticket_lock_tm or ticket_trylock_tm, elided or not.            *)
LEMMA CallUnlessElidedKeeps ==
  ASSUME IInv, using = "ticket_tm", NEW t \in Threads, NEW l \in Locks, pc[t] = "client",
         l \notin held[t], NEW label \in TicketTmLabels \ WaitLabels,
         CallUnlessElided(t, l, label), UNCHANGED <<using, ticketVars, misled>>
  PROVE  IInv' /\ FifoStep
<1>1. TypeOK /\ SpeculationBook(t) /\ label \in Labels \ WaitLabels
  BY DEF IInv, Labels
<1>2. CASE Elided(t, held[t] \cup {l})
  <2>1. held[t] \cup {l} \in SUBSET Locks
    BY <1>1 DEF TypeOK, ClientTypeOK
  <2> QED
    BY <1>2, <2>1, ElidedKeeps
<1>3. CASE /\ spec_entry[t] = Null /\ Call(t, l, label)
           /\ tries' = [tries EXCEPT ![t] = 0] /\ UNCHANGED <<spec_entry, hardwareVars>>
  <2>1. ~InTx(t) /\ tries' \in [Threads -> Nat]
    BY <1>1, <1>3 DEF SpeculationBook, TypeOK, HtmTypeOK
  <2> QED
    BY <1>1, <1>3, <2>1, CallStep DEF hardwareVars
<1> QED
  BY <1>2, <1>3 DEF CallUnlessElided

(* A call of ticket_lock_tm, ticket_trylock_tm, ticket_unlock_tm.           *)
LEMMA TicketTmCallKeeps ==
  ASSUME IInv, using = "ticket_tm", NEW t \in Threads, NEW l \in Locks,
         TicketTmCall(t, l), UNCHANGED using
  PROVE  IInv' /\ FifoStep
<1>1. TypeOK /\ SpeculationBook(t)
  BY DEF IInv
<1>2. {"take", "try"} \subseteq TicketTmLabels \ WaitLabels
  BY DEF TicketTmLabels, WaitLabels
<1>3. CASE ticket_lock_tm(t, l)
  <2>1. l \notin held[t] /\ pc[t] = "client"
    BY <1>3, LocksAssumption DEF ticket_lock_tm, MayLock
  <2> QED
    BY <1>2, <1>3, <2>1, CallUnlessElidedKeeps DEF ticket_lock_tm
<1>4. CASE ticket_trylock_tm(t, l)
  BY <1>2, <1>4, CallUnlessElidedKeeps DEF ticket_trylock_tm, MayTrylock
<1>5. CASE ticket_unlock_tm(t, l)
  <2>1. pc[t] = "client" /\ held[t] \ {l} \in SUBSET Locks
    BY <1>1, <1>5 DEF ticket_unlock_tm, MayUnlock, TypeOK, ClientTypeOK
  <2>2. CASE Elided(t, held[t] \ {l}) /\ UNCHANGED ticketVars
    BY <1>5, <2>1, <2>2, ElidedKeeps DEF ticket_unlock_tm
  <2>3. CASE /\ spec_entry[t] = Null /\ Serve(l) /\ CallReturning(t, held[t] \ {l})
             /\ Doom({l}) /\ UNCHANGED <<spec_entry, tries>>
    <3>1. ~InTx(t)
      BY <1>1, <2>3 DEF SpeculationBook
    <3> QED
      BY <1>5, <2>3, <3>1, UnlockKeeps DEF ticket_unlock_tm, Doom
  <2> QED
    BY <1>5, <2>2, <2>3 DEF ticket_unlock_tm
<1> QED
  BY <1>3, <1>4, <1>5 DEF TicketTmCall

(* A step of ticket_lock or ticket_trylock.                                *)
LEMMA TicketStepKeeps ==
  ASSUME IInv, NEW t \in Threads, TicketStep(t), UNCHANGED <<using, misled, htmVars>>
  PROVE  IInv' /\ FifoStep
<1>1. CASE Take(t)
  BY <1>1, TakeKeeps DEF Take
<1>2. CASE TicketWait(t)
  BY <1>2, WaitKeeps DEF TicketWait
<1>3. CASE TicketTry(t)
  BY <1>3, TryKeeps DEF TicketTry
<1> QED
  BY <1>1, <1>2, <1>3 DEF TicketStep

(* A step of ticket_lock_tm or ticket_trylock_tm.                          *)
LEMMA TicketTmStepKeeps ==
  ASSUME IInv, using = "ticket_tm", NEW t \in Threads, TicketTmStep(t), UNCHANGED using
  PROVE  IInv' /\ FifoStep
<1>1. /\ {"wait", "dist", "enter", "abort"} \subseteq Labels \ {"check"}
      /\ {"wait", "dist", "enter", "abort"} \subseteq WaitLabels
      /\ Null \in Locks \cup {Null}
  BY DEF Labels, TicketTmLabels, WaitLabels
<1>2. TypeOK /\ tries \in [Threads -> Nat]
  BY DEF IInv, TypeOK, HtmTypeOK
<1>3. CASE TmTake(t)
  BY <1>3, TakeKeeps DEF TmTake
<1>4. CASE TmWait(t)
  <2>1. pc[t] = "wait" /\ UNCHANGED <<next, now, htmVars, misled>>
    BY <1>4 DEF TmWait
  <2>2. CASE MyTurn(t) /\ Acquired(t) /\ DropTicket(t)
    BY <2>1, <2>2, WaitKeeps
  <2>3. CASE ~MyTurn(t) /\ Goto(t, "dist") /\ UNCHANGED ticket
    <3>1. UNCHANGED <<spec_entry, tries, depth, saved, watch, doomed>>
      BY <2>1 DEF htmVars
    <3>2. spec_entry' = [spec_entry EXCEPT ![t] = Null]
      BY <2>1, <3>1, FunctionsAreReal, FlagIsNull
    <3> QED
      BY <1>1, <1>2, <2>1, <2>3, <3>1, <3>2, GotoStep
  <2> QED
    BY <1>4, <2>2, <2>3 DEF TmWait
<1>5. CASE Measure(t)
  <2>1. pc[t] = "dist" /\ UNCHANGED <<ticketVars, htmVars, misled>>
    BY <1>5 DEF Measure
  <2>2. UNCHANGED <<spec_entry, tries, depth, saved, watch, doomed, next, now, ticket>>
    BY <2>1 DEF htmVars, ticketVars
  <2>3. spec_entry' = [spec_entry EXCEPT ![t] = Null]
    BY <2>1, <2>2, FunctionsAreReal, FlagIsNull
  <2>4. PICK label \in {"enter", "wait"} : Goto(t, label)
    BY <1>5 DEF Measure
  <2> QED
    BY <1>1, <1>2, <2>1, <2>2, <2>3, <2>4, GotoStep
<1>6. CASE Speculate(t)
  <2>1. pc[t] = "enter" /\ EnterHtm(t, lk[t], Goto(t, "check")) /\ UNCHANGED <<ticketVars, misled>>
    BY <1>6 DEF Speculate
  <2>2. spec_entry' = [spec_entry EXCEPT ![t] = lk[t]] /\ UNCHANGED tries
    BY <2>1 DEF EnterHtm
  <2>3. CASE XBegin(t) /\ Goto(t, "check")
    BY <2>1, <2>2, <2>3, BeginKeeps
  <2>4. CASE Goto(t, "abort") /\ UNCHANGED hardwareVars
    <3>1. lk[t] \in Locks \cup {Null}
      BY <2>1, FunctionsAreReal
    <3> QED
      BY <1>1, <1>2, <2>1, <2>2, <2>4, <3>1, GotoStep DEF hardwareVars, ticketVars
  <2> QED
    BY <2>1, <2>3, <2>4 DEF EnterHtm
<1>7. CASE SpeculationFailed(t)
  <2>1. /\ pc[t] = "abort" /\ Goto(t, "wait") /\ UNCHANGED <<hardwareVars, ticketVars, misled>>
        /\ spec_entry' = [spec_entry EXCEPT ![t] = Null]
    BY <1>7 DEF SpeculationFailed, EnterHtmFailed
  <2>2. tries' \in [Threads -> Nat]
    BY <1>2, <1>7 DEF SpeculationFailed, CountTry
  <2> QED
    BY <1>1, <2>1, <2>2, GotoStep DEF hardwareVars, ticketVars
<1>8. CASE CheckTurn(t)
  <2>1. pc[t] = "check" /\ UNCHANGED <<ticketVars, misled>>
    BY <1>8 DEF CheckTurn
  <2>2. CASE Abort(t)
    BY <2>1, <2>2, AbortKeeps
  <2>3. CASE ~MyTurn(t) /\ Watch(t, lk[t]) /\ Acquired(t) /\ UNCHANGED <<spec_entry, tries>>
    BY <2>1, <2>3, CheckKeeps
  <2> QED
    BY <1>8, <2>2, <2>3 DEF CheckTurn
<1>9. CASE TmTry(t)
  BY <1>9, TryKeeps DEF TmTry
<1> QED
  BY <1>3, <1>4, <1>5, <1>6, <1>7, <1>8, <1>9 DEF TicketTmStep

LEMMA StepKeepsInvariant == IInv /\ [Next]_vars => IInv' /\ FifoStep
<1> SUFFICES ASSUME IInv, [Next]_vars PROVE IInv' /\ FifoStep
  OBVIOUS
<1>1. ASSUME NEW t \in Threads, Step(t) PROVE IInv' /\ FifoStep
  BY <1>1, TicketStepKeeps, TicketTmStepKeeps DEF Step
<1>2. ASSUME NEW t \in Threads, TxAbort(t) PROVE IInv' /\ FifoStep
  BY <1>2, AbortKeeps DEF TxAbort
<1>3. ASSUME NEW t \in Threads, NEW l \in Locks, ClientCall(t, l) PROVE IInv' /\ FifoStep
  BY <1>3, TicketCallKeeps, TicketTmCallKeeps DEF ClientCall
<1>4. CASE UNCHANGED vars
  <2>1. UNCHANGED <<using, pc, lk, held, next, now, ticket, misled, spec_entry, tries, depth,
                    saved, watch, doomed>>
    BY <1>4 DEF vars, ticketVars, htmVars
  <2>2. IInv' = IInv /\ UNCHANGED <<Holds, Queues>>
    BY <2>1 DEF IInv, TypeOK, ClientTypeOK, TicketTypeOK, HtmTypeOK, SpeculationBook, TicketBook,
                Place, Holders, Waiters, Owned, InTx, Holds, Queues, Queue, Before
  <2> QED
    BY <2>2 DEF FifoStep
<1> QED
  BY <1>1, <1>2, <1>3, <1>4 DEF Next

LEMMA InitInvariant == Init => IInv /\ F!Init
<1> SUFFICES ASSUME Init PROVE IInv /\ F!Init
  OBVIOUS
<1> USE DEF Init, ClientInit, TicketInit, HtmInit
<1>1. TypeOK
  <2>1. NoCheckpoint \in [held : SUBSET Locks, lk : Locks \cup {Null}, tries : Nat]
    BY DEF NoCheckpoint
  <2>2. HtmTypeOK
    BY <2>1 DEF HtmTypeOK
  <2>3. TicketTypeOK
    BY DEF TicketTypeOK, Tickets
  <2>4. ClientTypeOK(IF using = "ticket" THEN TicketLabels ELSE TicketTmLabels)
    BY DEF ClientTypeOK
  <2> QED
    BY <2>2, <2>3, <2>4 DEF TypeOK
<1>2. ASSUME NEW t \in Threads PROVE SpeculationBook(t) /\ ~InTx(t) /\ Owned(t) = {}
  <2>1. pc[t] = "client" /\ depth[t] = 0 /\ spec_entry[t] = Null /\ held[t] = {}
    OBVIOUS
  <2>2. ~InTx(t)
    BY <2>1 DEF InTx
  <2> QED
    BY <2>1, <2>2 DEF SpeculationBook, Owned
<1>3. ASSUME NEW l \in Locks
      PROVE  /\ Holders(l) = {} /\ Waiters(l) = {}
             /\ Cardinality(Holders(l)) = 0 /\ Cardinality(Waiters(l)) = 0
  <2>1. Holders(l) = {} /\ Waiters(l) = {}
    BY <1>2 DEF Holders, Waiters
  <2> QED
    BY <2>1, FS_EmptySet
<1>4. ASSUME NEW l \in Locks PROVE TicketBook(l) /\ Queue(l) = <<>>
  <2>1. Dist(next[l], now[l]) = 0
    BY DEF Dist
  <2>2. TicketBook(l)
    BY <1>3, <2>1 DEF TicketBook
  <2>3. Queue(l) = <<>>
    BY <1>1, <1>3, <2>2, QueueLists DEF QueuesAreListed, QueueListed
  <2> QED
    BY <2>2, <2>3
<1>5. IInv
  BY <1>1, <1>2, <1>4 DEF IInv
<1>6. F!Init
  BY <1>2, <1>4 DEF F!Init
<1> QED
  BY <1>5, <1>6

(***************************************************************************)
(* Only ticket_trylock_tm lies.                                            *)
(***************************************************************************)
OnlyTrylockLies ==
  /\ misled => using = "ticket_tm" /\ UseTrylock
  /\ using = "ticket_tm" /\ ~UseTrylock => \A t \in Threads : pc[t] \notin {"try", "try_swap"}

LEMMA LiarKnown == TypeOK /\ OnlyTrylockLies /\ [Next]_vars => OnlyTrylockLies'
<1> SUFFICES ASSUME TypeOK, OnlyTrylockLies, [Next]_vars PROVE OnlyTrylockLies'
  OBVIOUS
<1>1. CASE UNCHANGED vars
  BY <1>1 DEF vars, OnlyTrylockLies
<1>2. CASE UNCHANGED <<using, misled>> /\ (using = "ticket" \/ UseTrylock)
  BY <1>2 DEF OnlyTrylockLies
<1>3. CASE using = "ticket_tm" /\ UNCHANGED using /\ UseTrylock
  BY <1>3 DEF OnlyTrylockLies
<1>4. CASE /\ using = "ticket_tm" /\ ~UseTrylock /\ UNCHANGED <<using, misled>>
           /\ \E t \in Threads, label \in TicketTmLabels \cup {"client"} :
                label \notin {"try", "try_swap"} /\ pc' = [pc EXCEPT ![t] = label]
  BY <1>4 DEF OnlyTrylockLies, TypeOK, ClientTypeOK
<1>5. CASE /\ using = "ticket_tm" /\ ~UseTrylock /\ UNCHANGED <<using, misled, pc>>
  BY <1>5 DEF OnlyTrylockLies
<1>6. /\ UNCHANGED vars \/ UNCHANGED using
      /\ UNCHANGED vars \/ using = "ticket_tm" \/ UNCHANGED misled
      /\ using \in {"ticket", "ticket_tm"}
  BY DEF Next, Step, TxAbort, ClientCall, TypeOK
<1>7. ASSUME using = "ticket_tm", ~UseTrylock, ~UNCHANGED vars
      PROVE  OnlyTrylockLies'
  <2>1. PICK t \in Threads : Step(t) \/ TxAbort(t) \/ \E l \in Locks : ClientCall(t, l)
    BY <1>7 DEF Next
  <2>2. {"take", "wait", "dist", "enter", "check", "abort"} \subseteq TicketTmLabels
    BY DEF TicketTmLabels
  <2>3. CASE TxAbort(t)
    BY <1>4, <1>7, <2>2, <2>3 DEF TxAbort, Abort
  <2>4. CASE \E l \in Locks : ClientCall(t, l)
    BY <1>4, <1>5, <1>7, <2>2, <2>4
    DEF ClientCall, TicketTmCall, ticket_lock_tm, ticket_trylock_tm, ticket_unlock_tm,
        CallUnlessElided, Elided, CallReturning, Call
  <2>5. CASE Step(t)
    <3>1. TicketTmStep(t) /\ UNCHANGED using /\ pc[t] \notin {"try", "try_swap"}
      BY <1>7, <2>5 DEF Step, OnlyTrylockLies
    <3>2. UNCHANGED misled
      BY <3>1 DEF TicketTmStep, TmTake, TmWait, Measure, Speculate, SpeculationFailed, CheckTurn,
                  TmTry, TryTicket
    <3>3. CASE TmTake(t) \/ TmWait(t) \/ CheckTurn(t)
      BY <1>4, <1>7, <2>2, <3>1, <3>2, <3>3
      DEF TmTake, TmWait, CheckTurn, Goto, Abort, Acquired, Return
    <3>4. CASE Measure(t) \/ Speculate(t) \/ SpeculationFailed(t)
      BY <1>4, <1>7, <2>2, <3>1, <3>2, <3>4
      DEF Measure, Speculate, EnterHtm, SpeculationFailed, EnterHtmFailed, Goto
    <3> QED
      BY <3>1, <3>3, <3>4 DEF TicketTmStep, TmTry, TryTicket
  <2> QED
    BY <2>1, <2>3, <2>4, <2>5
<1> QED
  BY <1>1, <1>2, <1>3, <1>6, <1>7

-----------------------------------------------------------------------------
(***************************************************************************)
(* The theorems.                                                           *)
(***************************************************************************)

(* IInv is an invariant of both ticket locks: a speculation keeps its place  *)
(* and watches the counter (txlock.c:328-348), and the tickets between now   *)
(* and next are one for the holder and one for each waiter.                *)
THEOREM Invariance == Spec => []IInv
<1>1. IInv /\ [Next]_vars => IInv'
  BY StepKeepsInvariant
<1> QED
  BY <1>1, InitInvariant, PTL DEF Spec

(* Counters, tickets and the state of the transactions stay of their types,  *)
(* whatever wraps around or aborts.                                        *)
THEOREM TypeCorrect == Spec => []TypeOK
BY Invariance, PTL DEF IInv

(* At most one thread really holds a lock, unless ticket_trylock_tm has       *)
(* reported one that it did not take (txlock.c:359-361).                   *)
THEOREM ExclusionUnlessMisled == Spec => []MutualExclusionUnlessMisled
<1>1. IInv => MutualExclusionUnlessMisled
  <2> SUFFICES ASSUME IInv, ~misled, NEW l \in Locks PROVE Cardinality(Holders(l)) <= 1
    BY DEF MutualExclusionUnlessMisled, MutualExclusion
  <2>1. Cardinality(Holders(l)) \in {0, 1}
    BY DEF IInv, TicketBook
  <2> QED
    BY <2>1
<1> QED
  BY <1>1, Invariance, PTL

(* No ticket is lost, handed out twice or served by a speculation, however  *)
(* often the counters wrap around (txlock.c:299, 322, 334, 370).           *)
THEOREM TicketsAreAccounted == Spec => []TicketsAccountForThreads
<1>1. IInv => TicketsAccountForThreads
  BY DEF IInv, TicketBook, TicketsAccountForThreads
<1> QED
  BY <1>1, Invariance, PTL

(* A speculating waiter whose turn has come has been doomed by the unlock    *)
(* that served it, and so goes back to take its lock (txlock.c:340, 370).   *)
THEOREM TurnIsNoticed == Spec => []TurnEndsSpeculation
<1>1. IInv => TurnEndsSpeculation
  BY DEF IInv, SpeculationBook, TurnEndsSpeculation
<1> QED
  BY <1>1, Invariance, PTL

(* The program's own code runs with spec_entry set exactly while it runs in *)
(* a transaction (txutil.h:133, 148), so that an elided call is always undone. *)
THEOREM FlagIsTrue == Spec => []FlagMatchesHardware
<1>1. IInv => FlagMatchesHardware
  BY DEF IInv, SpeculationBook, FlagMatchesHardware
<1> QED
  BY <1>1, Invariance, PTL

(* As long as no try-lock has lied, both ticket locks are first-come-first-  *)
(* served: whoever takes a lock that others wait for is the head of its      *)
(* queue, and speculating neither gives a place up nor jumps the queue.      *)
THEOREM ImplementsFifoUnlessMisled == Spec /\ []~misled => FifoSpec
<1>1. IInv /\ [Next]_vars /\ ~misled' => [F!Next]_<<Holds, Queues>>
  BY StepKeepsInvariant DEF FifoStep
<1> QED
  BY <1>1, InitInvariant, Invariance, PTL DEF Spec, FifoSpec, F!Spec, Holds, Queues

(* Only a try-lock of ticket_tm misleads (txlock.c:359 is the only call that  *)
(* drops a result).                                                        *)
LEMMA OnlyTrylockMisleads == Spec => [](misled => using = "ticket_tm" /\ UseTrylock)
<1>1. Init => OnlyTrylockLies
  BY DEF Init, ClientInit, OnlyTrylockLies
<1>2. OnlyTrylockLies => (misled => using = "ticket_tm" /\ UseTrylock)
  BY DEF OnlyTrylockLies
<1> QED
  BY <1>1, <1>2, LiarKnown, TypeCorrect, PTL DEF Spec

(* The program uses ticket, or it uses ticket_tm and never calls tl_trylock. *)
NoTmTrylock == using = "ticket" \/ ~UseTrylock

(* At most one thread really holds a lock, in every program that uses ticket *)
(* and in every program that uses ticket_tm without tl_trylock.            *)
THEOREM ExclusionWithoutTmTrylock == Spec => [](NoTmTrylock => MutualExclusion)
<1>1. /\ misled => using = "ticket_tm" /\ UseTrylock
      /\ MutualExclusionUnlessMisled
      => (NoTmTrylock => MutualExclusion)
  BY DEF NoTmTrylock, MutualExclusionUnlessMisled
<1> QED
  BY <1>1, OnlyTrylockMisleads, ExclusionUnlessMisled, PTL

(* In the same programs, both ticket locks implement the first-come-first-  *)
(* served mutex, without a condition on what happens in them: ticket with its *)
(* two-step try-lock, ticket_tm with its speculating waiters.              *)
THEOREM ImplementsFifo == Spec /\ NoTmTrylock => FifoSpec
<1>1. NoTmTrylock /\ (misled => using = "ticket_tm" /\ UseTrylock) => ~misled
  BY DEF NoTmTrylock
<1>2. NoTmTrylock /\ [Next]_vars => NoTmTrylock'
  BY DEF NoTmTrylock, Next, Step, TxAbort, ClientCall, vars
<1> QED
  BY <1>1, <1>2, OnlyTrylockMisleads, ImplementsFifoUnlessMisled, PTL DEF Spec
=============================================================================
