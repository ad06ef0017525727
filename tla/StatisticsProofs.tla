--------------------------- MODULE StatisticsProofs ---------------------------
(***************************************************************************)
(* The statistics for any number of threads: the list that the threads push  *)
(* their records on, and the walk through it, implement the registry.  The   *)
(* theorems are at the end.  Each action is shown to keep the invariant IInv *)
(* and to be a step of module Registry or none.                            *)
(***************************************************************************)
EXTENDS Statistics, FiniteSetTheorems, WellFoundedInduction, TLAPS

(* The mapping of RegistrySpec, with the order of the pushes for the list     *)
(* that the pointers make: lemma RecordsAreOrder shows that they are one.    *)
H == INSTANCE Registry WITH
       members <- order, Nobody <- Null, begun <- Exiting, turn <- curr,
       counted <- tm_stats.threads

RegistryVars == <<order, Exiting, curr, tm_stats.threads>>

-----------------------------------------------------------------------------
(***************************************************************************)
(* Sums.                                                                   *)
(***************************************************************************)

(* Induction for a set of numbers: the library has it for an operator.       *)
LEMMA NatSetInduction ==
  ASSUME NEW S, 0 \in S, \A n \in Nat : n \in S => n + 1 \in S
  PROVE  Nat \subseteq S
<1> DEFINE Less == OpToRel(<, Nat)
           T == Nat \ S
<1> SUFFICES ASSUME T # {} PROVE FALSE
  OBVIOUS
<1>1. PICK x \in T : \A y \in T : ~(<<y, x>> \in Less)
  <2>1. IsWellFoundedOn(Less, Nat) /\ T \subseteq Nat
    BY NatLessThanWellFounded
  <2> HIDE DEF Less, T
  <2> QED
    BY <2>1, WFMin
<1>2. x \in Nat /\ x \notin S
  OBVIOUS
<1>3. x # 0 /\ x - 1 \in Nat /\ x - 1 + 1 = x
  BY <1>2
<1>4. x - 1 \in T
  BY <1>2, <1>3
<1>5. <<x - 1, x>> \in Less
  BY <1>2, <1>3 DEF OpToRel
<1> QED
  BY <1>1, <1>4, <1>5

(* The recursive definition of Sums defines something.                     *)
LEMMA SumsExist ==
  ASSUME NEW n \in Nat, NEW c \in [1 .. n -> Nat]
  PROVE  \E g \in [0 .. n -> Nat] : g = [i \in 0 .. n |-> IF i = 0 THEN 0 ELSE g[i - 1] + c[i]]
<1> DEFINE Good(m, g) == g = [i \in 0 .. m |-> IF i = 0 THEN 0 ELSE g[i - 1] + c[i]]
           Exists(m) == \E g \in [0 .. m -> Nat] : Good(m, g)
           S == {m \in Nat : m <= n => Exists(m)}
<1>1. 0 \in S
  <2> DEFINE g == [i \in 0 .. 0 |-> 0]
  <2>1. g \in [0 .. 0 -> Nat] /\ Good(0, g)
    OBVIOUS
  <2> QED
    BY <2>1
<1>2. ASSUME NEW m \in Nat, m \in S, m + 1 <= n
      PROVE  Exists(m + 1)
  <2>1. m <= n
    BY <1>2
  <2>2. PICK g \in [0 .. m -> Nat] : Good(m, g)
    BY <1>2, <2>1
  <2> DEFINE h == [i \in 0 .. m + 1 |-> IF i \in 0 .. m THEN g[i] ELSE g[m] + c[m + 1]]
  <2>3. g[m] \in Nat /\ c[m + 1] \in Nat
    BY <1>2
  <2>4. h \in [0 .. m + 1 -> Nat]
    BY <2>3
  <2>5. ASSUME NEW i \in 0 .. m + 1
        PROVE  h[i] = IF i = 0 THEN 0 ELSE h[i - 1] + c[i]
    <3>1. CASE i = m + 1
      BY <3>1, <2>3
    <3>2. CASE i = 0
      BY <3>2, <2>2
    <3>3. CASE i \in 1 .. m
      <4>1. h[i] = g[i] /\ h[i - 1] = g[i - 1]
        BY <3>3
      <4>2. g[i] = g[i - 1] + c[i]
        BY <2>2, <3>3
      <4> QED
        BY <4>1, <4>2, <3>3
    <3> QED
      BY <3>1, <3>2, <3>3
  <2> HIDE DEF h
  <2>6. h = [i \in 0 .. m + 1 |-> h[i]]
    BY <2>4
  <2>7. Good(m + 1, h)
    BY <2>5, <2>6
  <2> QED
    BY <2>4, <2>7
<1>3. \A m \in Nat : m \in S => m + 1 \in S
  <2> SUFFICES ASSUME NEW m \in Nat, m \in S PROVE m + 1 \in S
    OBVIOUS
  <2>1. m + 1 <= n => Exists(m + 1)
    BY <1>2
  <2> HIDE DEF Exists
  <2> QED
    BY <2>1
<1>4. n \in S
  <2> HIDE DEF S
  <2> QED
    BY <1>1, <1>3, NatSetInduction
<1>5. Exists(n)
  <2> HIDE DEF Exists
  <2> QED
    BY <1>4
<1> QED
  BY <1>5

(* What Sums computes.                                                     *)
LEMMA SumsType ==
  ASSUME NEW n \in Nat, NEW c \in [1 .. n -> Nat]
  PROVE  /\ Sums(c, n) \in [0 .. n -> Nat]
         /\ Sums(c, n)[0] = 0
         /\ \A i \in 1 .. n : Sums(c, n)[i] = Sums(c, n)[i - 1] + c[i]
<1> DEFINE Good(g) == g = [i \in 0 .. n |-> IF i = 0 THEN 0 ELSE g[i - 1] + c[i]]
<1>1. Sums(c, n) = CHOOSE g : Good(g)
  BY DEF Sums
<1>2. \E g : Good(g)
  BY SumsExist
<1>3. Good(Sums(c, n))
  <2> HIDE DEF Good
  <2> QED
    BY <1>1, <1>2
<1> DEFINE s == Sums(c, n)
           S == {m \in Nat : m <= n => s[m] \in Nat}
<1> HIDE DEF s
<1>4. s = [i \in 0 .. n |-> IF i = 0 THEN 0 ELSE s[i - 1] + c[i]]
  BY <1>3 DEF s
<1>5. s[0] = 0 /\ \A i \in 1 .. n : s[i] = s[i - 1] + c[i]
  BY <1>4
<1>6. 0 \in S
  BY <1>5
<1>7. \A m \in Nat : m \in S => m + 1 \in S
  BY <1>5
<1>8. Nat \subseteq S
  <2> HIDE DEF S
  <2> QED
    BY <1>6, <1>7, NatSetInduction
<1>9. s \in [0 .. n -> Nat]
  <2>1. \A i \in 0 .. n : s[i] \in Nat
    BY <1>8
  <2> QED
    BY <1>4, <2>1
<1> QED
  BY <1>5, <1>9 DEF s

(* A longer sequence of greater numbers has greater sums, and its last sum    *)
(* is farther from each of them.                                           *)
LEMMA SumsGrow ==
  ASSUME NEW m \in Nat, NEW n \in Nat, m <= n,
         NEW c \in [1 .. m -> Nat], NEW d \in [1 .. n -> Nat], \A i \in 1 .. m : c[i] <= d[i]
  PROVE  /\ \A k \in 0 .. m : Sums(c, m)[k] <= Sums(d, n)[k]
         /\ \A k \in 0 .. m : Sums(c, m)[m] - Sums(c, m)[k] <= Sums(d, n)[n] - Sums(d, n)[k]
<1> DEFINE s == Sums(c, m)
           u == Sums(d, n)
           S == {i \in Nat : i <= m => s[i] <= u[i]}
           T(k) == {i \in Nat : k + i <= n =>
                     IF k + i <= m THEN s[k + i] - s[k] <= u[k + i] - u[k]
                     ELSE s[m] - s[k] <= u[k + i] - u[k]}
<1>1. /\ s \in [0 .. m -> Nat] /\ s[0] = 0 /\ \A i \in 1 .. m : s[i] = s[i - 1] + c[i]
      /\ u \in [0 .. n -> Nat] /\ u[0] = 0 /\ \A i \in 1 .. n : u[i] = u[i - 1] + d[i]
  BY SumsType
<1> HIDE DEF s, u
<1>2. Nat \subseteq S
  <2>1. 0 \in S
    BY <1>1
  <2>2. ASSUME NEW i \in Nat, i \in S, i + 1 <= m PROVE s[i + 1] <= u[i + 1]
    <3>1. s[i + 1] = s[i] + c[i + 1] /\ u[i + 1] = u[i] + d[i + 1]
      <4>1. i + 1 \in 1 .. m /\ i + 1 \in 1 .. n /\ (i + 1) - 1 = i
        BY <2>2
      <4> QED
        BY <1>1, <4>1
    <3>2. s[i] \in Nat /\ u[i] \in Nat /\ s[i] <= u[i]
      <4>1. i \in 0 .. m /\ i \in 0 .. n /\ i <= m
        BY <2>2
      <4> QED
        BY <1>1, <2>2, <4>1
    <3>3. c[i + 1] \in Nat /\ d[i + 1] \in Nat /\ c[i + 1] <= d[i + 1]
      <4>1. i + 1 \in 1 .. m /\ i + 1 \in 1 .. n
        BY <2>2
      <4> QED
        BY <4>1
    <3> QED
      BY <3>1, <3>2, <3>3
  <2>3. \A i \in Nat : i \in S => i + 1 \in S
    BY <2>2
  <2> HIDE DEF S
  <2> QED
    BY <2>1, <2>3, NatSetInduction
<1>3. ASSUME NEW k \in 0 .. m PROVE Nat \subseteq T(k)
  <2>1. 0 \in T(k)
    BY <1>1
  <2>2. ASSUME NEW i \in Nat, i \in T(k), k + i + 1 <= n PROVE i + 1 \in T(k)
    <3> DEFINE j == k + i
    <3>i. /\ j \in Nat /\ j <= n /\ j + 1 \in 1 .. n /\ (j + 1) - 1 = j /\ k + (i + 1) = j + 1
          /\ j \in 0 .. n /\ k \in 0 .. n /\ k \in 0 .. m /\ m \in 0 .. m /\ k \in Nat
      BY <2>2
    <3>h. IF j <= m THEN s[j] - s[k] <= u[j] - u[k] ELSE s[m] - s[k] <= u[j] - u[k]
      BY <2>2
    <3>g. (j + 1 <= n => IF j + 1 <= m THEN s[j + 1] - s[k] <= u[j + 1] - u[k]
                                       ELSE s[m] - s[k] <= u[j + 1] - u[k])
          => i + 1 \in T(k)
      <4>1. k + (i + 1) = j + 1
        BY <3>i
      <4>2. i + 1 \in Nat
        OBVIOUS
      <4> HIDE DEF j
      <4> QED
        BY <4>1, <4>2
    <3> HIDE DEF j, T, S
    <3>1. /\ u[j + 1] = u[j] + d[j + 1]
          /\ u[j] \in Nat /\ u[k] \in Nat /\ d[j + 1] \in Nat /\ s[k] \in Nat /\ s[m] \in Nat
      <4>1. u[j + 1] = u[j] + d[j + 1]
        BY <1>1, <3>i
      <4>2. u[j] \in Nat /\ u[k] \in Nat
        BY <1>1, <3>i
      <4>3. s[k] \in Nat /\ s[m] \in Nat
        BY <1>1, <3>i
      <4>4. d[j + 1] \in Nat
        BY <3>i
      <4> QED
        BY <4>1, <4>2, <4>3, <4>4
    <3>2. CASE j + 1 <= m
      <4>1. j \in 0 .. m /\ j + 1 \in 1 .. m /\ j <= m
        BY <3>i, <3>2
      <4>2. s[j + 1] = s[j] + c[j + 1]
        BY <1>1, <3>i, <4>1
      <4>3. s[j] \in Nat
        BY <1>1, <4>1
      <4>4. c[j + 1] \in Nat /\ c[j + 1] <= d[j + 1]
        BY <4>1
      <4>5. s[j] - s[k] <= u[j] - u[k]
        BY <3>h, <4>1
      <4>6. \A a, b, x, y, v, w \in Nat : a - b <= x - y /\ v <= w => (a + v) - b <= (x + w) - y
        OBVIOUS
      <4>7. (s[j] + c[j + 1]) - s[k] <= (u[j] + d[j + 1]) - u[k]
        BY <3>1, <4>3, <4>4, <4>5, <4>6
      <4>8. s[j + 1] - s[k] <= u[j + 1] - u[k]
        BY <3>1, <4>2, <4>7
      <4> QED
        BY <3>2, <3>g, <4>8
    <3>3. CASE j + 1 > m
      <4>1. ~(j + 1 <= m)
        BY <3>i, <3>3
      <4>2. s[m] - s[k] <= u[j] - u[k]
        <5>1. CASE j <= m
          <6>1. j = m
            BY <3>i, <3>3, <5>1
          <6> QED
            BY <3>h, <5>1, <6>1
        <5>2. CASE ~(j <= m)
          BY <3>h, <5>2
        <5> QED
          BY <5>1, <5>2
      <4>3. \A a, b, x, y, w \in Nat : a - b <= x - y => a - b <= (x + w) - y
        OBVIOUS
      <4>4. s[m] - s[k] <= (u[j] + d[j + 1]) - u[k]
        BY <3>1, <4>2, <4>3
      <4>5. s[m] - s[k] <= u[j + 1] - u[k]
        BY <3>1, <4>4
      <4> QED
        BY <3>g, <4>1, <4>5
    <3>4. j + 1 <= m \/ j + 1 > m
      BY <3>i
    <3> QED
      BY <3>2, <3>3, <3>4
  <2>3. \A i \in Nat : i \in T(k) => i + 1 \in T(k)
    <3> SUFFICES ASSUME NEW i \in Nat, i \in T(k) PROVE i + 1 \in T(k)
      OBVIOUS
    <3>1. CASE k + i + 1 <= n
      BY <2>2, <3>1
    <3>2. CASE ~(k + i + 1 <= n)
      BY <3>2
    <3> QED
      BY <3>1, <3>2
  <2> HIDE DEF T
  <2> QED
    BY <2>1, <2>3, NatSetInduction
<1>4. ASSUME NEW k \in 0 .. m PROVE s[k] <= u[k] /\ s[m] - s[k] <= u[n] - u[k]
  <2>1. k \in S /\ n - k \in Nat /\ k + (n - k) = n
    BY <1>2
  <2>2. n - k \in T(k)
    BY <1>3, <2>1
  <2>3. s[m] - s[k] <= u[n] - u[k]
    <3>1. IF n <= m THEN s[n] - s[k] <= u[n] - u[k] ELSE s[m] - s[k] <= u[n] - u[k]
      BY <2>1, <2>2
    <3>2. n <= m => n = m
      OBVIOUS
    <3> QED
      BY <3>1, <3>2
  <2> QED
    BY <2>1, <2>3
<1> QED
  BY <1>4 DEF s, u

(* The counters in the list, from its end.                                 *)
Counts == [i \in 1 .. Len(order) |-> count[order[i]]]

LEMMA CountsType ==
  ASSUME TypeOK
  PROVE  /\ Len(order) \in Nat /\ Counts \in [1 .. Len(order) -> Nat]
         /\ Counted = Sums(Counts, Len(order))
         /\ Counted \in [0 .. Len(order) -> Nat] /\ ListedCount \in Nat
<1>1. Len(order) \in Nat /\ \A i \in 1 .. Len(order) : order[i] \in Threads
  BY DEF TypeOK
<1>2. Counts \in [1 .. Len(order) -> Nat] /\ Counted = Sums(Counts, Len(order))
  BY <1>1 DEF TypeOK, Counts, Counted
<1>3. Counted \in [0 .. Len(order) -> Nat]
  BY <1>1, <1>2, SumsType
<1> QED
  BY <1>1, <1>2, <1>3 DEF ListedCount

(* Records that are pushed, and counters that grow, keep the account of the  *)
(* walk.                                                                   *)
LEMMA SumsKept ==
  ASSUME IInv, TypeOK', UNCHANGED walkVars, Exiting' <=> Exiting,
         Len(order) <= Len(order'), \A i \in 1 .. Len(order) : order'[i] = order[i],
         \A i \in 1 .. Len(order) : count[order[i]] <= count'[order[i]]
  PROVE  SumBook'
<1>1. /\ TypeOK /\ Len(order) \in Nat /\ Len(order') \in Nat
      /\ Counted = Sums(Counts, Len(order)) /\ Counts \in [1 .. Len(order) -> Nat]
      /\ Counted \in [0 .. Len(order) -> Nat]
  BY CountsType DEF IInv
<1>2. /\ Counted' = Sums(Counts', Len(order')) /\ Counts' \in [1 .. Len(order') -> Nat]
      /\ Counted' \in [0 .. Len(order') -> Nat]
  <2>1. Len(order') \in Nat /\ \A i \in 1 .. Len(order') : order'[i] \in Threads
    BY DEF TypeOK
  <2>2. Counts' \in [1 .. Len(order') -> Nat] /\ Counted' = Sums(Counts', Len(order'))
    BY <2>1 DEF TypeOK, Counts, Counted
  <2> QED
    BY <2>1, <2>2, SumsType
<1>3. \A i \in 1 .. Len(order) : Counts[i] <= Counts'[i]
  BY <1>1 DEF Counts
<1>4. \A k \in 0 .. Len(order) :
        /\ Counted[k] <= Counted'[k]
        /\ Counted[Len(order)] - Counted[k] <= Counted'[Len(order')] - Counted'[k]
  BY <1>1, <1>2, <1>3, SumsGrow
<1>5. ToCount' = ToCount /\ tm_stats' = tm_stats /\ start' = start
  BY DEF walkVars, ToCount
<1>6. tm_stats.count \in Nat /\ start.count \in Nat
  BY <1>1 DEF TypeOK
<1>7. CASE Exiting
  <2>1. ToCount \in 0 .. Len(order)
    BY <1>7 DEF IInv, WalkBook
  <2> DEFINE k == ToCount
             n == Len(order)
             m == Len(order')
  <2>2. /\ start.count <= tm_stats.count + Counted[k]
        /\ tm_stats.count + Counted[k] <= Counted[n]
    BY <1>7 DEF IInv, SumBook, ListedCount
  <2>3. /\ Counted[k] \in Nat /\ Counted[n] \in Nat
        /\ Counted'[k] \in Nat /\ Counted'[m] \in Nat
        /\ Counted[k] <= Counted'[k] /\ Counted[n] - Counted[k] <= Counted'[m] - Counted'[k]
    BY <1>1, <1>2, <1>4, <2>1
  <2>4. /\ start.count <= tm_stats.count + Counted'[k]
        /\ tm_stats.count + Counted'[k] <= Counted'[m]
    <3> HIDE DEF k, n, m
    <3> QED
      BY <1>6, <2>2, <2>3
  <2> QED
    BY <1>5, <1>7, <2>4 DEF SumBook, ListedCount
<1>8. CASE ~Exiting
  BY <1>5, <1>8 DEF IInv, SumBook
<1> QED
  BY <1>7, <1>8

-----------------------------------------------------------------------------
(***************************************************************************)
(* The kinds of step.                                                      *)
(***************************************************************************)

(* t is at a label that is the end of the process, or on the way to it.     *)
Ends(label) == label \in {"walk", "over"}

(* A step that leaves the list and the walk alone: threads are born and go   *)
(* about their business, but neither push nor exit.                        *)
LEMMA QuietStep ==
  ASSUME IInv, TypeOK',
         UNCHANGED <<tm_stats_head, order, walkVars>>,
         \A u \in Threads : Listed(u) => next'[u] = next[u] /\ count[u] <= count'[u],
         \A u \in Threads : Ends(pc'[u]) <=> Ends(pc[u]),
         \A u \in Threads : pc'[u] = "over" <=> pc[u] = "over",
         \A u \in Threads : RecordBook(u)'
  PROVE  IInv' /\ UNCHANGED RegistryVars
<1> USE DEF walkVars
<1>1. ListShape'
  <2>1. \A i \in 1 .. Len(order) : order[i] \in Threads /\ Listed(order[i])
    BY DEF IInv, TypeOK, Listed
  <2>2. \A i \in 1 .. Len(order) : next'[order[i]] = next[order[i]]
    BY <2>1
  <2>3. Len(order) \in Nat
    BY DEF IInv, TypeOK
  <2>4. next'[order[1]] = next[order[1]]
    BY <2>2, <2>3 DEF IInv, ListShape
  <2>5. \A i \in 2 .. Len(order) : next'[order[i]] = next[order[i]]
    BY <2>2, <2>3
  <2> QED
    BY <2>4, <2>5 DEF IInv, ListShape
<1>2. WalkBook'
  BY DEF IInv, WalkBook, Ends, Exiting, ToCount
<1>3. UNCHANGED RegistryVars
  BY DEF RegistryVars, Ends, Exiting
<1>4. SumBook'
  <2>1. \A i \in 1 .. Len(order) : order[i] \in Threads /\ Listed(order[i])
    BY DEF IInv, TypeOK, Listed
  <2>2. \A i \in 1 .. Len(order) : count[order[i]] <= count'[order[i]]
    BY <2>1
  <2>3. Exiting' <=> Exiting
    BY DEF Ends, Exiting
  <2>4. Len(order) <= Len(order') /\ \A i \in 1 .. Len(order) : order'[i] = order[i]
    BY DEF IInv, TypeOK
  <2> QED
    BY <2>2, <2>3, <2>4, SumsKept
<1> QED
  BY <1>1, <1>2, <1>3, <1>4 DEF IInv

(* A step that changes no counter lets none shrink.                        *)
LEMMA CountsStay ==
  ASSUME TypeOK, UNCHANGED count
  PROVE  \A u \in Threads : count[u] <= count'[u]
BY DEF TypeOK

(* The book of a thread that does not move, when no record is pushed.       *)
LEMMA OthersKeepBooks ==
  ASSUME IInv, NEW t \in Threads, UNCHANGED order,
         \A u \in Threads \ {t} : pc'[u] = pc[u] /\ my_tm_stats'[u] = my_tm_stats[u]
  PROVE  \A u \in Threads \ {t} : RecordBook(u)'
BY DEF IInv, RecordBook, Listed

(* t goes to a label that is not one of the end, and neither pushes nor       *)
(* takes its record.                                                       *)
LEMMA GotoStep ==
  ASSUME IInv, TypeOK', NEW t \in Threads,
         NEW label \in {"enter", "link", "run", "gone"}, Goto(t, label), ~Ends(pc[t]),
         UNCHANGED <<tm_stats_head, my_tm_stats, order, walkVars>>,
         \A u \in Threads : Listed(u) => next'[u] = next[u] /\ count[u] <= count'[u],
         RecordBook(t)'
  PROVE  IInv' /\ UNCHANGED RegistryVars
<1>1. \A u \in Threads : pc'[u] = IF u = t THEN label ELSE pc[u]
  BY DEF Goto, IInv, TypeOK
<1>2. \A u \in Threads : RecordBook(u)'
  BY <1>1, OthersKeepBooks
<1>3. \A u \in Threads : Ends(pc'[u]) <=> Ends(pc[u])
  BY <1>1 DEF Ends
<1>4. \A u \in Threads : pc'[u] = "over" <=> pc[u] = "over"
  BY <1>1 DEF Ends
<1> QED
  BY <1>2, <1>3, <1>4, QuietStep

(* What Goto does to the labels.                                           *)
LEMMA GotoLabels ==
  ASSUME TypeOK, NEW t \in Threads, NEW label, Goto(t, label)
  PROVE  \A u \in Threads : pc'[u] = IF u = t THEN label ELSE pc[u]
BY DEF Goto, TypeOK

-----------------------------------------------------------------------------
(***************************************************************************)
(* Threads come and go.                                                    *)
(***************************************************************************)
LEMMA CreateKeeps ==
  ASSUME IInv, NEW t \in Threads, NEW u \in Threads,
         _tl_pthread_create(t, u) \/ libpthread_create(t, u)
  PROVE  IInv' /\ UNCHANGED RegistryVars
<1>1. /\ pc[u] = "unborn" /\ UNCHANGED <<listVars, count, walkVars>>
      /\ spawned' \subseteq Threads
      /\ Goto(u, "enter") \/ Goto(u, "gone")
  BY DEF _tl_pthread_create, libpthread_create, IInv, TypeOK
<1>2. PICK label \in {"enter", "gone"} : Goto(u, label)
  BY <1>1
<1>3. TypeOK'
  BY <1>1, <1>2 DEF IInv, TypeOK, Goto, listVars, walkVars
<1>4. RecordBook(u)'
  BY <1>1, <1>2, GotoLabels DEF IInv, RecordBook, Listed, listVars
<1> QED
  BY <1>1, <1>2, <1>3, <1>4, GotoStep, CountsStay DEF Ends, listVars, IInv

LEMMA EnterKeeps ==
  ASSUME IInv, NEW t \in Threads, tl_thread_enter(t)
  PROVE  IInv' /\ UNCHANGED RegistryVars
<1>1. /\ pc[t] \in {"enter", "run"}
      /\ UNCHANGED <<tm_stats_head, next, order, spawned, walkVars>>
  BY DEF tl_thread_enter
<1>2. CASE my_tm_stats[t]
  <2>1. Goto(t, "run") /\ UNCHANGED <<my_tm_stats, count>>
    BY <1>2 DEF tl_thread_enter
  <2>2. TypeOK'
    BY <1>1, <2>1 DEF IInv, TypeOK, Goto, walkVars
  <2>3. RecordBook(t)'
    BY <1>1, <1>2, <2>1, GotoLabels DEF IInv, RecordBook, Listed
  <2> QED
    BY <1>1, <2>1, <2>2, <2>3, GotoStep, CountsStay DEF Ends, IInv
<1>3. CASE ~my_tm_stats[t]
  <2>1. /\ Goto(t, "link")
        /\ my_tm_stats' = [my_tm_stats EXCEPT ![t] = TRUE]
        /\ count' = [count EXCEPT ![t] = 0]
    BY <1>3 DEF tl_thread_enter
  <2>2. TypeOK'
    BY <1>1, <2>1 DEF IInv, TypeOK, Goto, walkVars
  <2>3. \A u \in Threads : pc'[u] = IF u = t THEN "link" ELSE pc[u]
    BY <2>1, GotoLabels DEF IInv
  <2>4. pc[t] = "enter"
    BY <1>1, <1>3 DEF IInv, RecordBook
  <2>5. RecordBook(t)'
    BY <1>1, <2>1, <2>3, <2>4 DEF IInv, TypeOK, RecordBook, Listed
  <2>6. \A u \in Threads : RecordBook(u)'
    BY <1>1, <2>1, <2>3, <2>5, OthersKeepBooks DEF IInv, TypeOK
  <2>7. \A u \in Threads : Listed(u) => count[u] <= count'[u]
    BY <2>1, <2>4 DEF IInv, TypeOK, RecordBook
  <2> QED
    BY <1>1, <2>2, <2>3, <2>4, <2>6, <2>7, QuietStep DEF Ends
<1> QED
  BY <1>2, <1>3

LEMMA LinkKeeps ==
  ASSUME IInv, NEW t \in Threads, LinkStats(t)
  PROVE  IInv' /\ UNCHANGED RegistryVars
<1> USE DEF LinkStats
<1>1. TypeOK'
  BY DEF IInv, TypeOK, Goto, walkVars
<1>2. \A u \in Threads : pc'[u] = IF u = t THEN "push" ELSE pc[u]
  BY GotoLabels DEF IInv
<1>3. ~Listed(t)
  BY DEF IInv, RecordBook
<1>4. \A u \in Threads : Listed(u) => next'[u] = next[u]
  BY <1>3 DEF IInv, TypeOK
<1>5. \A u \in Threads : RecordBook(u)'
  BY <1>2, <1>3, OthersKeepBooks DEF IInv, RecordBook, Listed
<1> QED
  BY <1>1, <1>2, <1>4, <1>5, QuietStep, CountsStay DEF Ends, IInv

(* A push appends a record to the order, and in front of the list.          *)
LEMMA PushKeeps ==
  ASSUME IInv, NEW t \in Threads, PushStats(t)
  PROVE  IInv' /\ [H!Next]_RegistryVars
<1>1. /\ pc[t] = "push" /\ UNCHANGED <<my_tm_stats, next, count, spawned, walkVars>>
      /\ ~Listed(t) /\ my_tm_stats[t] /\ TypeOK /\ Len(order) \in Nat /\ Len(order) > 0
  BY DEF PushStats, IInv, RecordBook, ListShape, TypeOK
<1>2. CASE tm_stats_head # next[t]
  <2>1. Goto(t, "link") /\ UNCHANGED <<tm_stats_head, order>>
    BY <1>2 DEF PushStats
  <2>2. TypeOK'
    BY <1>1, <2>1 DEF TypeOK, Goto, walkVars
  <2>3. RecordBook(t)'
    BY <1>1, <2>1, GotoLabels DEF RecordBook, Listed
  <2> QED
    BY <1>1, <2>1, <2>2, <2>3, GotoStep, CountsStay DEF Ends
<1>3. CASE tm_stats_head = next[t]
  <2> DEFINE n == Len(order)
  <2>1. tm_stats_head' = t /\ order' = Append(order, t) /\ Goto(t, "run")
    BY <1>3 DEF PushStats, Pushed
  <2>2. TypeOK'
    BY <1>1, <2>1 DEF TypeOK, Goto, walkVars
  <2>3. \A u \in Threads : pc'[u] = IF u = t THEN "run" ELSE pc[u]
    BY <1>1, <2>1, GotoLabels
  <2>4. Len(order') = n + 1 /\ order'[n + 1] = t /\ \A i \in 1 .. n : order'[i] = order[i]
    BY <1>1, <2>1 DEF TypeOK
  <2>5. \A i \in 1 .. n : order[i] # t
    BY <1>1 DEF Listed
  <2>6. ListShape'
    <3>1. next'[order'[1]] = Null
      BY <1>1, <2>4 DEF IInv, ListShape
    <3>2. ASSUME NEW i \in 2 .. n + 1
          PROVE  next'[order'[i]] = order'[i - 1]
      <4>1. CASE i = n + 1
        <5>1. order'[i] = t /\ i - 1 = n /\ n \in 1 .. n
          BY <1>1, <2>4, <4>1
        <5>2. next'[t] = order[n] /\ order'[i - 1] = order[n]
          BY <1>1, <1>3, <2>4, <5>1 DEF IInv, ListShape
        <5> QED
          BY <5>1, <5>2
      <4>2. CASE i \in 2 .. n
        <5>1. i - 1 \in 1 .. n /\ i \in 1 .. n
          BY <1>1, <4>2
        <5> QED
          BY <1>1, <2>4, <4>2, <5>1 DEF IInv, ListShape
      <4> QED
        BY <1>1, <4>1, <4>2
    <3>3. ASSUME NEW i \in 1 .. n + 1, NEW j \in 1 .. n + 1, order'[i] = order'[j]
          PROVE  i = j
      <4>1. /\ i \in 1 .. n \/ i = n + 1
            /\ j \in 1 .. n \/ j = n + 1
        BY <1>1
      <4> QED
        BY <2>4, <2>5, <3>3, <4>1 DEF IInv, ListShape
    <3> QED
      BY <1>1, <2>1, <2>4, <3>1, <3>2, <3>3 DEF ListShape
  <2>7. ASSUME NEW u \in Threads PROVE RecordBook(u)'
    <3>1. Listed(u)' <=> Listed(u) \/ u = t
      BY <1>1, <2>4 DEF Listed
    <3> QED
      BY <1>1, <2>3, <3>1 DEF IInv, RecordBook
  <2>8. WalkBook'
    <3>1. /\ Exiting' <=> Exiting
          /\ \A u \in Threads : pc'[u] \in {"walk", "over"} <=> pc[u] \in {"walk", "over"}
          /\ \A u \in Threads : pc'[u] = "over" <=> pc[u] = "over"
      BY <1>1, <2>3 DEF Exiting
    <3>2. UNCHANGED <<curr, tm_stats, start>> /\ ToCount' = ToCount
      BY <1>1 DEF walkVars, ToCount
    <3>3. Exiting => order'[ToCount] = order[ToCount] \/ ToCount = 0
      BY <1>1, <2>4 DEF IInv, WalkBook
    <3>4. Exiting => start.records \in 1 .. Len(order)' /\ ToCount \in 0 .. Len(order)'
      BY <1>1, <2>4 DEF IInv, WalkBook
    <3> QED
      BY <3>1, <3>2, <3>3, <3>4 DEF IInv, WalkBook
  <2>9. H!Join(t)
    BY <1>1, <2>1, <2>3, <2>5 DEF H!Join, Exiting, walkVars
  <2>10. SumBook'
    <3>1. Exiting' <=> Exiting
      BY <1>1, <2>3 DEF Exiting
    <3>2. \A i \in 1 .. n : order[i] \in Threads /\ count[order[i]] <= count'[order[i]]
      BY <1>1, CountsStay DEF TypeOK
    <3> QED
      BY <1>1, <2>2, <2>4, <3>1, <3>2, SumsKept
  <2> QED
    BY <2>2, <2>6, <2>7, <2>8, <2>9, <2>10 DEF IInv, H!Next
<1> QED
  BY <1>2, <1>3

LEMMA CountKeeps ==
  ASSUME IInv, NEW t \in Threads, TM_STATS_ADD(t)
  PROVE  IInv' /\ UNCHANGED RegistryVars
<1>1. UNCHANGED <<pc, listVars, spawned, walkVars>> /\ TypeOK'
  BY DEF TM_STATS_ADD, IInv, TypeOK, listVars, walkVars
<1>2. \A u \in Threads : RecordBook(u)'
  BY <1>1 DEF IInv, RecordBook, Listed, listVars
<1>3. \A u \in Threads : count[u] <= count'[u]
  BY DEF TM_STATS_ADD, IInv, TypeOK
<1> QED
  BY <1>1, <1>2, <1>3, QuietStep DEF listVars

LEMMA EndKeeps ==
  ASSUME IInv, NEW t \in Threads, _tl_dummy_thread_main(t) \/ pthread_exit(t)
  PROVE  IInv' /\ UNCHANGED RegistryVars
<1>1. /\ pc[t] = "run" /\ Goto(t, "gone") /\ UNCHANGED <<listVars, count, walkVars>>
      /\ spawned' \subseteq Threads
  BY DEF _tl_dummy_thread_main, pthread_exit, IInv, TypeOK
<1>2. TypeOK'
  BY <1>1 DEF IInv, TypeOK, Goto, listVars, walkVars
<1>3. RecordBook(t)'
  BY <1>1, GotoLabels DEF IInv, RecordBook
<1> QED
  BY <1>1, <1>2, <1>3, GotoStep, CountsStay DEF Ends, listVars, IInv

-----------------------------------------------------------------------------
(***************************************************************************)
(* The end of the process.                                                 *)
(***************************************************************************)

(* The end leaves the list alone, and the books of its threads.             *)
LEMMA EndLeavesList ==
  ASSUME IInv, UNCHANGED listVars, NEW t \in Threads,
         NEW label \in {"walk", "over"}, \A u \in Threads : pc'[u] = IF u = t THEN label ELSE pc[u]
  PROVE  ListShape' /\ \A u \in Threads : RecordBook(u)'
BY DEF IInv, ListShape, RecordBook, Listed, listVars

LEMMA ExitKeeps ==
  ASSUME IInv, NEW t \in Threads, exit(t)
  PROVE  IInv' /\ H!Begin
<1>1. /\ ~Exiting /\ curr' = tm_stats_head /\ start'.records = Len(order)
      /\ UNCHANGED <<listVars, tm_stats>> /\ TypeOK /\ Len(order) \in Nat /\ Len(order) > 0
  BY DEF exit, IInv, TypeOK, ListShape
<1>2. \A u \in Threads : pc'[u] = IF u = t THEN "walk" ELSE pc[u]
  BY GotoLabels DEF exit, IInv
<1>3. TypeOK'
  <2>1. start' = [records |-> Len(order), count |-> ListedCount] /\ ListedCount \in Nat
    BY <1>1, CountsType DEF exit
  <2>2. start' \in [records : Nat, count : Nat]
    BY <1>1, <2>1
  <2> QED
    BY <1>1, <2>2 DEF exit, TypeOK, Goto, listVars
<1>4. start.records = 0 /\ tm_stats.threads = 0 /\ ToCount' = Len(order)
  BY <1>1 DEF IInv, WalkBook, ToCount
<1>5. WalkBook'
  BY <1>1, <1>2, <1>4 DEF IInv, WalkBook, Exiting, ListShape, listVars
<1>6. H!Begin
  <2>1. ~Exiting /\ Exiting'
    BY <1>1, <1>2 DEF Exiting
  <2>2. curr' = order[Len(order)] /\ order' = order /\ tm_stats' = tm_stats
    BY <1>1 DEF IInv, ListShape, listVars
  <2> QED
    BY <2>1, <2>2 DEF H!Begin
<1>7. SumBook'
  <2>1. start'.count = ListedCount /\ UNCHANGED count /\ Exiting'
    BY <1>2 DEF exit, Exiting
  <2>2. Counted' = Counted /\ ListedCount' = ListedCount
    BY <1>1, <2>1 DEF Counted, ListedCount, listVars
  <2>3. ListedCount \in Nat /\ tm_stats.count = 0 /\ tm_stats' = tm_stats
    BY <1>1, CountsType DEF IInv, SumBook
  <2> QED
    BY <1>4, <2>1, <2>2, <2>3 DEF SumBook, ListedCount
<1> QED
  BY <1>1, <1>2, <1>3, <1>5, <1>6, <1>7, EndLeavesList DEF IInv

(* The walk goes one record back in the order of the pushes.                *)
LEMMA AddKeeps ==
  ASSUME IInv, NEW t \in Threads, AddRecord(t)
  PROVE  IInv' /\ H!CountOne
<1>1. /\ pc[t] = "walk" /\ curr # Null /\ curr' = next[curr]
      /\ tm_stats'.threads = tm_stats.threads + 1
      /\ UNCHANGED <<pc, listVars, start>> /\ TypeOK /\ Len(order) \in Nat
  BY DEF AddRecord, IInv, TypeOK
<1>2. Exiting /\ Exiting'
  BY <1>1 DEF Exiting
<1>3. /\ ToCount \in 1 .. Len(order) /\ curr = order[ToCount] /\ start.records \in 1 .. Len(order)
      /\ tm_stats.threads \in Nat /\ start.records \in Nat
  BY <1>1, <1>2 DEF IInv, WalkBook, TypeOK
<1>4. ToCount' = ToCount - 1
  BY <1>1, <1>3 DEF ToCount
<1>5. curr' = IF ToCount' = 0 THEN Null ELSE order[ToCount']
  <2>1. CASE ToCount = 1
    BY <1>1, <1>3, <1>4, <2>1 DEF IInv, ListShape
  <2>2. CASE ToCount \in 2 .. Len(order)
    BY <1>1, <1>3, <1>4, <2>2 DEF IInv, ListShape
  <2> QED
    BY <1>1, <1>3, <2>1, <2>2
<1>6. TypeOK'
  <2>1. curr \in Threads /\ next[curr] \in Threads \cup {Null}
    BY <1>1 DEF TypeOK
  <2>2. tm_stats' \in [threads : Nat, count : Nat]
    BY <2>1 DEF AddRecord, IInv, TypeOK
  <2> QED
    BY <1>1, <2>1, <2>2 DEF AddRecord, TypeOK, listVars
<1>7. \A u \in Threads : pc[u] # "over"
  BY <1>1 DEF AddRecord, Alive
<1>8. WalkBook'
  BY <1>1, <1>2, <1>3, <1>4, <1>5, <1>7 DEF IInv, WalkBook, listVars
<1>9. ListShape' /\ \A u \in Threads : RecordBook(u)'
  BY <1>1 DEF IInv, ListShape, RecordBook, Listed, listVars
<1>10. H!CountOne
  <2>1. ToCount' = 0 <=> ToCount = 1
    BY <1>1, <1>3, <1>4
  <2>2. curr = order[ToCount] /\ curr' = IF ToCount = 1 THEN Null ELSE order[ToCount - 1]
    BY <1>1, <1>3, <1>4, <1>5, <2>1 DEF listVars
  <2>3. order' = order /\ Exiting' = Exiting
    BY <1>1, <1>2 DEF Exiting, listVars
  <2> QED
    BY <1>1, <1>3, <2>2, <2>3 DEF H!CountOne
<1>11. SumBook'
  <2> DEFINE k == ToCount
  <2>1. tm_stats'.count = tm_stats.count + count[order[k]]
    BY <1>1, <1>3 DEF AddRecord
  <2>2. UNCHANGED <<count, order, start>> /\ Counted' = Counted /\ ListedCount' = ListedCount
    BY <1>1 DEF AddRecord, Counted, ListedCount, listVars
  <2>3. /\ Counted[k] = Counted[k - 1] + count[order[k]] /\ Counted[k - 1] \in Nat
        /\ count[order[k]] \in Nat
    <3>1. k \in 1 .. Len(order) /\ k - 1 \in 0 .. Len(order)
      BY <1>1, <1>3
    <3>2. /\ Counted = Sums(Counts, Len(order)) /\ Counts \in [1 .. Len(order) -> Nat]
          /\ Counts[k] = count[order[k]]
      BY <1>1, <3>1, CountsType DEF Counts
    <3> HIDE DEF k
    <3> QED
      BY <1>1, <3>1, <3>2, SumsType
  <2>4. /\ start.count <= tm_stats.count + Counted[k]
        /\ tm_stats.count + Counted[k] <= ListedCount
    BY <1>2 DEF IInv, SumBook
  <2>5. tm_stats.count + Counted[k] = tm_stats'.count + Counted[k - 1]
    <3>1. tm_stats.count \in Nat
      BY <1>1 DEF TypeOK
    <3> HIDE DEF k
    <3> QED
      BY <2>1, <2>3, <3>1
  <2> QED
    BY <1>2, <1>4, <2>2, <2>4, <2>5 DEF SumBook
<1> QED
  BY <1>6, <1>8, <1>9, <1>10, <1>11 DEF IInv

LEMMA ReportKeeps ==
  ASSUME IInv, NEW t \in Threads, Report(t)
  PROVE  IInv' /\ UNCHANGED RegistryVars
<1>1. /\ pc[t] = "walk" /\ curr = Null
      /\ UNCHANGED <<listVars, count, spawned, walkVars>> /\ TypeOK
  BY DEF Report, IInv
<1>2. \A u \in Threads : pc'[u] = IF u = t THEN "over" ELSE pc[u]
  BY <1>1, GotoLabels DEF Report
<1>3. TypeOK'
  BY <1>1 DEF Report, TypeOK, Goto, listVars, walkVars
<1>4. WalkBook'
  BY <1>1, <1>2 DEF IInv, WalkBook, Exiting, ToCount, listVars, walkVars
<1>5. UNCHANGED RegistryVars
  BY <1>1, <1>2 DEF RegistryVars, Exiting, listVars, walkVars
<1>6. SumBook'
  <2>1. Exiting /\ Exiting' /\ UNCHANGED <<count, order, tm_stats, start>>
    BY <1>1, <1>2 DEF Exiting, listVars, walkVars
  <2>2. Counted' = Counted /\ ListedCount' = ListedCount /\ ToCount' = ToCount
    BY <2>1 DEF Counted, ListedCount, ToCount
  <2> QED
    BY <2>1, <2>2 DEF IInv, SumBook
<1> QED
  BY <1>1, <1>2, <1>3, <1>4, <1>5, <1>6, EndLeavesList DEF IInv

-----------------------------------------------------------------------------
LEMMA InitInvariant == Init => IInv /\ H!Init
<1> SUFFICES ASSUME Init PROVE IInv /\ H!Init
  OBVIOUS
<1> USE StatisticsAssumption DEF Init
<1>1. Len(order) = 1 /\ order[1] = Main /\ TypeOK
  BY DEF TypeOK
<1>2. ListShape
  BY <1>1 DEF ListShape
<1>3. \A t \in Threads : Listed(t) <=> t = Main
  <2> HIDE DEF Init
  <2>1. 1 .. Len(order) = {1}
    BY <1>1
  <2> QED
    BY <1>1, <2>1 DEF Listed
<1>4. \A t \in Threads : RecordBook(t)
  BY <1>3 DEF RecordBook
<1>5. WalkBook
  BY DEF WalkBook, Exiting
<1>6. SumBook
  BY DEF SumBook, Exiting
<1> QED
  BY <1>1, <1>2, <1>4, <1>5, <1>6 DEF IInv, H!Init, Exiting

(* Every step keeps the invariant, and is a step of the registry or leaves   *)
(* it alone.                                                               *)
LEMMA StepKeepsInvariant ==
  ASSUME IInv, [Next]_vars
  PROVE  IInv' /\ [H!Next]_RegistryVars
<1>1. ASSUME NEW t \in Threads, Step(t)
      PROVE  IInv' /\ [H!Next]_RegistryVars
  BY <1>1, EnterKeeps, LinkKeeps, PushKeeps, AddKeeps, ReportKeeps DEF Step, H!Next
<1>2. ASSUME NEW t \in Threads,
             \/ TM_STATS_ADD(t) \/ _tl_dummy_thread_main(t) \/ pthread_exit(t)
             \/ \E u \in Threads : pthread_create(t, u) \/ libpthread_create(t, u)
      PROVE  IInv' /\ [H!Next]_RegistryVars
  BY <1>2, CountKeeps, EndKeeps, CreateKeeps DEF pthread_create
<1>3. ASSUME NEW t \in Threads, ProgramExit(t) \/ sig_int_handler(t) \/ sig_term_handler(t)
      PROVE  IInv' /\ [H!Next]_RegistryVars
  BY <1>3, ExitKeeps DEF ProgramExit, sig_int_handler, sig_term_handler, H!Next
<1>4. CASE UNCHANGED vars
  <2>1. TypeOK' /\ ListShape' /\ WalkBook' /\ \A t \in Threads : RecordBook(t)'
    BY <1>4 DEF vars, listVars, walkVars, IInv, TypeOK, ListShape, WalkBook, Exiting, ToCount,
                RecordBook, Listed
  <2>2. SumBook'
    <3>1. UNCHANGED <<count, order, tm_stats, start>> /\ Exiting' = Exiting
      BY <1>4 DEF vars, listVars, walkVars, Exiting
    <3>2. Counted' = Counted /\ ListedCount' = ListedCount /\ ToCount' = ToCount
      BY <3>1 DEF Counted, ListedCount, ToCount
    <3> QED
      BY <3>1, <3>2 DEF IInv, SumBook
  <2> QED
    BY <1>4, <2>1, <2>2 DEF IInv, vars, listVars, walkVars, RegistryVars, Exiting
<1> QED
  BY <1>1, <1>2, <1>3, <1>4 DEF Next

(* The lemmas together: IInv is inductive.                                 *)
THEOREM Invariance == Spec => []IInv
<1>1. IInv /\ [Next]_vars => IInv'
  BY StepKeepsInvariant
<1> QED
  BY <1>1, InitInvariant, PTL DEF Spec

(* Throughout every run, the variables are of their types.                  *)
THEOREM TypeCorrect == Spec => []TypeOK
BY Invariance, PTL DEF IInv

(* However many threads push their records at the same time, and whatever    *)
(* they do meanwhile, the list goes from the last push to the first through  *)
(* all records, each of them once, and misses no thread that counts.        *)
THEOREM ListIsComplete == Spec => []ListIsOrder
<1>1. IInv => ListIsOrder
  BY DEF IInv, ListShape, RecordBook, Listed, ListIsOrder
<1> QED
  BY <1>1, Invariance, PTL

(* What is reported at the end was true: exactly the records that were there *)
(* as the walk began, and a sum between that of the beginning and that of    *)
(* the end, although the threads go on pushing and counting.               *)
THEOREM ReportIsCorrect == Spec => []ReportIsTrue
<1>1. IInv => ReportIsTrue
  <2> SUFFICES ASSUME IInv, NEW t \in Threads, pc[t] = "over"
               PROVE  /\ tm_stats.threads = start.records
                      /\ start.count <= tm_stats.count /\ tm_stats.count <= ListedCount
    BY DEF ReportIsTrue
  <2>1. Exiting /\ curr = Null /\ TypeOK
    BY DEF Exiting, IInv, WalkBook
  <2>2. ToCount = 0
    <3>1. ToCount \in 0 .. Len(order) /\ curr = IF ToCount = 0 THEN Null ELSE order[ToCount]
      BY <2>1 DEF IInv, WalkBook
    <3>2. ToCount # 0 => order[ToCount] \in Threads
      BY <2>1, <3>1 DEF TypeOK
    <3> QED
      BY <2>1, <3>1, <3>2, StatisticsAssumption
  <2>3. Counted[0] = 0
    BY <2>1, CountsType, SumsType
  <2>4. tm_stats.threads \in Nat /\ start.records \in Nat /\ tm_stats.count \in Nat
    BY <2>1 DEF TypeOK
  <2> QED
    BY <2>1, <2>2, <2>3, <2>4 DEF IInv, SumBook, ToCount
<1> QED
  BY <1>1, Invariance, PTL

-----------------------------------------------------------------------------
(***************************************************************************)
(* The list that the pointers make is the order of the pushes.              *)
(***************************************************************************)

(* A list of different threads is not longer than there are threads.        *)
LEMMA ListIsBounded ==
  ASSUME NEW o \in Seq(Threads), \A i, j \in 1 .. Len(o) : o[i] = o[j] => i = j
  PROVE  Len(o) <= Cardinality(Threads) /\ Cardinality(Threads) \in Nat
<1>1. Len(o) \in Nat /\ o \in Injection(1 .. Len(o), Threads)
  BY DEF Injection, IsInjective
<1>2. Cardinality(1 .. Len(o)) <= Cardinality(Threads) /\ Cardinality(Threads) \in Nat
  BY <1>1, FS_Injection, FS_CardinalityType, StatisticsAssumption
<1>3. Cardinality(1 .. Len(o)) = Len(o)
  <2>1. Cardinality(1 .. Len(o)) = IF 1 > Len(o) THEN 0 ELSE Len(o) - 1 + 1
    BY <1>1, FS_Interval
  <2> QED
    BY <1>1, <2>1
<1> QED
  BY <1>2, <1>3

(* o is a list of k threads that the pointers nx go through from head.       *)
ListFrom(head, nx, o, k) ==
  /\ o \in [1 .. k -> Threads]
  /\ o[k] = head /\ nx[o[1]] = Null /\ \A i \in 2 .. k : nx[o[i]] = o[i - 1]

(* Two lists with the same head that the same pointers go through are one.   *)
LEMMA ListIsUnique ==
  ASSUME NEW head \in Threads, NEW nx \in [Threads -> Threads \cup {Null}],
         NEW m \in Nat \ {0}, NEW n \in Nat \ {0},
         NEW o, ListFrom(head, nx, o, m), NEW s, ListFrom(head, nx, s, n)
  PROVE  s = o
<1> USE DEF ListFrom
<1> DEFINE S == {k \in Nat : k < m /\ k < n => o[m - k] = s[n - k]}
<1>1. 0 \in S
  OBVIOUS
<1>2. ASSUME NEW k \in Nat, k \in S, k + 1 < m, k + 1 < n
      PROVE  o[m - (k + 1)] = s[n - (k + 1)]
  <2>1. m - k \in 2 .. m /\ n - k \in 2 .. n /\ o[m - k] = s[n - k]
    BY <1>2
  <2>2. nx[o[m - k]] = o[(m - k) - 1] /\ nx[s[n - k]] = s[(n - k) - 1]
    BY <2>1
  <2>3. (m - k) - 1 = m - (k + 1) /\ (n - k) - 1 = n - (k + 1)
    OBVIOUS
  <2> QED
    BY <2>1, <2>2, <2>3
<1>3. \A k \in Nat : k \in S => k + 1 \in S
  BY <1>2
<1>4. Nat \subseteq S
  <2> HIDE DEF S
  <2> QED
    BY <1>1, <1>3, NatSetInduction
<1>5. ~(m < n)
  <2> SUFFICES ASSUME m < n PROVE FALSE
    OBVIOUS
  <2>1. m - 1 \in S /\ m - (m - 1) = 1 /\ n - (m - 1) \in 2 .. n
    BY <1>4
  <2>2. o[1] = s[n - (m - 1)]
    BY <2>1
  <2>3. nx[s[n - (m - 1)]] = s[n - (m - 1) - 1] /\ n - (m - 1) - 1 \in 1 .. n
    BY <2>1
  <2> QED
    BY <2>2, <2>3, StatisticsAssumption
<1>6. ~(n < m)
  <2> SUFFICES ASSUME n < m PROVE FALSE
    OBVIOUS
  <2>1. n - 1 \in S /\ n - (n - 1) = 1 /\ m - (n - 1) \in 2 .. m
    BY <1>4
  <2>2. s[1] = o[m - (n - 1)]
    BY <2>1
  <2>3. nx[o[m - (n - 1)]] = o[m - (n - 1) - 1] /\ m - (n - 1) - 1 \in 1 .. m
    BY <2>1
  <2> QED
    BY <2>2, <2>3, StatisticsAssumption
<1>7. m = n
  BY <1>5, <1>6
<1>8. \A i \in 1 .. m : o[i] = s[i]
  <2> SUFFICES ASSUME NEW i \in 1 .. m PROVE o[i] = s[i]
    OBVIOUS
  <2>1. m - i \in Nat /\ m - i < m /\ m - (m - i) = i
    OBVIOUS
  <2>2. o[m - (m - i)] = s[n - (m - i)]
    BY <1>4, <1>7, <2>1
  <2> QED
    BY <1>7, <2>1, <2>2
<1> QED
  BY <1>7, <1>8

(* So the list of ListShape is the only one that can be chosen.             *)
LEMMA ChosenList ==
  ASSUME NEW head \in Threads, NEW nx \in [Threads -> Threads \cup {Null}],
         NEW o \in Seq(Threads), Len(o) > 0,
         o[Len(o)] = head, nx[o[1]] = Null, \A i \in 2 .. Len(o) : nx[o[i]] = o[i - 1],
         \A i, j \in 1 .. Len(o) : o[i] = o[j] => i = j
  PROVE  o = CHOOSE s \in UNION {[1 .. n -> Threads] : n \in 1 .. Cardinality(Threads)} :
               /\ s[Len(s)] = head
               /\ \A i \in 2 .. Len(s) : nx[s[i]] = s[i - 1]
               /\ nx[s[1]] = Null
<1> DEFINE Lists == UNION {[1 .. n -> Threads] : n \in 1 .. Cardinality(Threads)}
           From(s) == /\ s[Len(s)] = head
                      /\ \A i \in 2 .. Len(s) : nx[s[i]] = s[i - 1]
                      /\ nx[s[1]] = Null
<1>1. o \in Lists
  <2>1. Len(o) \in 1 .. Cardinality(Threads) /\ o \in [1 .. Len(o) -> Threads]
    BY ListIsBounded
  <2> QED
    BY <2>1
<1>2. From(o)
  OBVIOUS
<1>3. ASSUME NEW s \in Lists, From(s)
      PROVE  s = o
  <2>1. PICK n \in 1 .. Cardinality(Threads) : s \in [1 .. n -> Threads]
    OBVIOUS
  <2>2. n \in Nat \ {0}
    BY <2>1, ListIsBounded
  <2>3. s \in Seq(Threads) /\ Len(s) = n
    BY <2>1, <2>2
  <2>4. Len(o) \in Nat \ {0} /\ o \in [1 .. Len(o) -> Threads]
    OBVIOUS
  <2>5. s[n] = head /\ nx[s[1]] = Null /\ \A i \in 2 .. n : nx[s[i]] = s[i - 1]
    BY <1>3, <2>3
  <2> QED
    <3>1. ListFrom(head, nx, s, n)
      BY <2>1, <2>5 DEF ListFrom
    <3>2. ListFrom(head, nx, o, Len(o))
      BY <2>4 DEF ListFrom
    <3> QED
      BY <2>2, <2>4, <3>1, <3>2, ListIsUnique
<1> HIDE DEF Lists, From
<1>4. o = CHOOSE s \in Lists : From(s)
  BY <1>1, <1>2, <1>3
<1> QED
  BY <1>4 DEF Lists, From

LEMMA RecordsAreOrder == IInv => Records = order
<1> SUFFICES ASSUME IInv PROVE Records = order
  OBVIOUS
<1> QED
  BY ChosenList DEF IInv, TypeOK, ListShape, Records, FromHead

LEMMA RecordsAreOrderNext == IInv' => Records' = order'
<1> SUFFICES ASSUME IInv' PROVE Records' = order'
  OBVIOUS
<1> QED
  BY ChosenList DEF IInv, TypeOK, ListShape, Records, FromHead

(* The list and the walk at the exit implement the registry: threads join    *)
(* one at a time and are never lost from the list that the pointers make;    *)
(* the exit counts those that had joined as it began, from the newest on,     *)
(* each once, while others go on joining.                                  *)
THEOREM ImplementsRegistry == Spec => RegistrySpec
<1>1. Init => R!Init
  BY InitInvariant, RecordsAreOrder DEF H!Init, R!Init
<1>2. IInv /\ [Next]_vars => [R!Next]_<<Records, Exiting, curr, tm_stats.threads>>
  <2> SUFFICES ASSUME IInv, [Next]_vars
               PROVE  [R!Next]_<<Records, Exiting, curr, tm_stats.threads>>
    OBVIOUS
  <2>1. Records = order /\ Records' = order' /\ [H!Next]_RegistryVars
    BY StepKeepsInvariant, RecordsAreOrder, RecordsAreOrderNext
  <2> QED
    BY <2>1 DEF RegistryVars, H!Next, H!Begin, H!CountOne, H!Join,
                R!Next, R!Begin, R!CountOne, R!Join
<1> QED
  BY <1>1, <1>2, Invariance, PTL DEF Spec, RegistrySpec, R!Spec
=============================================================================
