----------------------------- MODULE ListLemmas -----------------------------
(***************************************************************************)
(* Sequences without repetitions, as the lists of nodes and of waiting       *)
(* threads are: what the elements of a list are after one has been put at    *)
(* an end, taken from an end, or taken out.                                 *)
(***************************************************************************)
EXTENDS SequencesExt, SequenceTheorems, FiniteSetTheorems, TLAPS

LEMMA RangeOf ==
  ASSUME NEW S, NEW s \in Seq(S)
  PROVE  /\ Range(s) \subseteq S
         /\ Range(s) = {s[i] : i \in 1 .. Len(s)}
         /\ s = <<>> <=> Range(s) = {}
         /\ IsInjective(s) <=> \A i, j \in 1 .. Len(s) : s[i] = s[j] => i = j
<1>1. Len(s) \in Nat /\ DOMAIN s = 1 .. Len(s)
  OBVIOUS
<1>2. Range(s) = {s[i] : i \in 1 .. Len(s)}
  BY <1>1 DEF Range
<1>3. \A i \in 1 .. Len(s) : s[i] \in S
  OBVIOUS
<1>4. s = <<>> <=> Len(s) = 0
  OBVIOUS
<1> QED
  BY <1>1, <1>2, <1>3, <1>4 DEF IsInjective

LEMMA EmptyLen ==
  ASSUME NEW S, NEW s \in Seq(S)
  PROVE  s = <<>> <=> Len(s) = 0
OBVIOUS

LEMMA AppendRange ==
  ASSUME NEW S, NEW s \in Seq(S), IsInjective(s), NEW x \in S, x \notin Range(s)
  PROVE  /\ Range(Append(s, x)) = Range(s) \cup {x}
         /\ IsInjective(Append(s, x)) /\ Append(s, x) \in Seq(S) /\ Append(s, x) # <<>>
<1> DEFINE r == Append(s, x)
<1>1. r \in Seq(S) /\ Len(r) = Len(s) + 1 /\ Len(s) \in Nat
      /\ \A i \in 1 .. Len(r) : r[i] = IF i = Len(r) THEN x ELSE s[i]
  OBVIOUS
<1> HIDE DEF r
<1>2. Range(r) = {r[i] : i \in 1 .. Len(r)} /\ Range(s) = {s[i] : i \in 1 .. Len(s)}
  BY <1>1, RangeOf
<1>3. Range(r) = Range(s) \cup {x}
  BY <1>1, <1>2
<1>4. IsInjective(r)
  <2>1. \A i, j \in 1 .. Len(s) : s[i] = s[j] => i = j
    BY RangeOf
  <2>2. \A i \in 1 .. Len(s) : s[i] # x
    BY <1>2
  <2>3. \A i, j \in 1 .. Len(r) : r[i] = r[j] => i = j
    BY <1>1, <2>1, <2>2
  <2> QED
    BY <1>1, <2>3, RangeOf
<1>5. r # <<>>
  BY <1>1
<1> QED
  BY <1>1, <1>3, <1>4, <1>5 DEF r

LEMMA TailRange ==
  ASSUME NEW S, NEW s \in Seq(S), IsInjective(s), s # <<>>
  PROVE  /\ Range(Tail(s)) = Range(s) \ {Head(s)} /\ Head(s) \in Range(s)
         /\ IsInjective(Tail(s)) /\ Tail(s) \in Seq(S)
<1> DEFINE r == Tail(s)
<1>1. r \in Seq(S) /\ Len(r) = Len(s) - 1 /\ Len(s) \in Nat \ {0} /\ Head(s) = s[1]
      /\ \A i \in 1 .. Len(r) : r[i] = s[i + 1]
  OBVIOUS
<1> HIDE DEF r
<1>2. Range(r) = {r[i] : i \in 1 .. Len(r)} /\ Range(s) = {s[i] : i \in 1 .. Len(s)}
  BY <1>1, RangeOf
<1>3. \A i, j \in 1 .. Len(s) : s[i] = s[j] => i = j
  BY RangeOf
<1>4. \A i, j \in 1 .. Len(r) : r[i] = r[j] => i = j
  BY <1>1, <1>3
<1>5. ASSUME NEW n PROVE n \in Range(r) <=> n \in Range(s) /\ n # Head(s)
  <2>1. n \in Range(r) <=> \E i \in 1 .. Len(s) - 1 : n = s[i + 1]
    BY <1>1, <1>2
  <2>2. n \in Range(s) <=> \E i \in 1 .. Len(s) : n = s[i]
    BY <1>2
  <2>3. ASSUME NEW i \in 1 .. Len(s) - 1, n = s[i + 1] PROVE n \in Range(s) /\ n # s[1]
    <3>1. i + 1 \in 1 .. Len(s) /\ i + 1 # 1 /\ 1 \in 1 .. Len(s)
      BY <1>1
    <3> QED
      BY <1>3, <2>2, <2>3, <3>1
  <2>4. ASSUME NEW i \in 1 .. Len(s), n = s[i], n # s[1] PROVE n \in Range(r)
    <3>1. i - 1 \in 1 .. Len(s) - 1 /\ (i - 1) + 1 = i
      BY <1>1, <2>4
    <3> QED
      BY <2>1, <2>4, <3>1
  <2> QED
    BY <1>1, <2>1, <2>2, <2>3, <2>4
<1>6. Head(s) \in Range(s)
  BY <1>1, <1>2
<1>7. IsInjective(r)
  BY <1>1, <1>4, RangeOf
<1> QED
  BY <1>1, <1>5, <1>6, <1>7 DEF r

LEMMA FrontRange ==
  ASSUME NEW S, NEW s \in Seq(S), IsInjective(s), s # <<>>
  PROVE  /\ Range(Front(s)) = Range(s) \ {Last(s)} /\ Last(s) \in Range(s)
         /\ IsInjective(Front(s)) /\ Front(s) \in Seq(S)
         /\ Last(s) = s[Len(s)] /\ Len(Front(s)) = Len(s) - 1
         /\ \A i \in 1 .. Len(Front(s)) : Front(s)[i] = s[i]
<1> DEFINE r == Front(s)
<1>1. r \in Seq(S) /\ Len(r) = Len(s) - 1 /\ Len(s) \in Nat \ {0} /\ Last(s) = s[Len(s)]
      /\ \A i \in 1 .. Len(r) : r[i] = s[i]
  <2>1. Len(s) \in Nat \ {0} /\ Last(s) = s[Len(s)] /\ \A i \in 1 .. Len(s) : s[i] \in S
    BY DEF Last
  <2>2. r = SubSeq(s, 1, Len(s) - 1)
    BY DEF Front
  <2> HIDE DEF r
  <2>3. r \in Seq(S) /\ Len(r) = Len(s) - 1 /\ \A i \in 1 .. Len(s) - 1 : r[i] = s[i]
    <3>1. Len(s) - 1 \in Int /\ \A i \in 1 .. Len(s) - 1 : s[i] \in S
      BY <2>1
    <3>2. /\ SubSeq(s, 1, Len(s) - 1) \in Seq(S)
          /\ Len(SubSeq(s, 1, Len(s) - 1))
               = IF 1 <= Len(s) - 1 THEN (Len(s) - 1) - 1 + 1 ELSE 0
          /\ \A i \in 1 .. (Len(s) - 1) - 1 + 1 : SubSeq(s, 1, Len(s) - 1)[i] = s[1 + i - 1]
      BY <3>1, SubSeqProperties
    <3>3. ASSUME NEW i \in 1 .. Len(s) - 1 PROVE r[i] = s[i]
      <4>1. i \in 1 .. (Len(s) - 1) - 1 + 1 /\ 1 + i - 1 = i
        BY <2>1
      <4> QED
        BY <2>2, <3>2, <4>1
    <3>4. Len(r) = Len(s) - 1
      <4>1. Len(r) = IF 1 <= Len(s) - 1 THEN (Len(s) - 1) - 1 + 1 ELSE 0
        BY ONLY <2>2, <3>2
      <4>2. \A k \in Nat \ {0} : (IF 1 <= k - 1 THEN (k - 1) - 1 + 1 ELSE 0) = k - 1
        OBVIOUS
      <4> QED
        BY ONLY <2>1, <4>1, <4>2
    <3> QED
      BY <2>2, <3>2, <3>3, <3>4
  <2> QED
    BY <2>1, <2>3
<1> HIDE DEF r
<1>2. Range(r) = {r[i] : i \in 1 .. Len(r)} /\ Range(s) = {s[i] : i \in 1 .. Len(s)}
  BY <1>1, RangeOf
<1>3. \A i, j \in 1 .. Len(s) : s[i] = s[j] => i = j
  BY RangeOf
<1>4. \A i, j \in 1 .. Len(r) : r[i] = r[j] => i = j
  BY <1>1, <1>3
<1>5. ASSUME NEW n PROVE n \in Range(r) <=> n \in Range(s) /\ n # Last(s)
  <2>1. n \in Range(r) <=> \E i \in 1 .. Len(s) - 1 : n = s[i]
    BY <1>1, <1>2
  <2>2. n \in Range(s) <=> \E i \in 1 .. Len(s) : n = s[i]
    BY <1>2
  <2>3. ASSUME NEW i \in 1 .. Len(s) - 1, n = s[i] PROVE n \in Range(s) /\ n # s[Len(s)]
    <3>1. i \in 1 .. Len(s) /\ i # Len(s) /\ Len(s) \in 1 .. Len(s)
      BY <1>1
    <3> QED
      BY <1>3, <2>2, <2>3, <3>1
  <2>4. ASSUME NEW i \in 1 .. Len(s), n = s[i], n # s[Len(s)] PROVE n \in Range(r)
    <3>1. i \in 1 .. Len(s) - 1
      BY <1>1, <2>4
    <3> QED
      BY <2>1, <2>4, <3>1
  <2> QED
    BY <1>1, <2>1, <2>2, <2>3, <2>4
<1>6. Last(s) \in Range(s)
  BY <1>1, <1>2
<1>7. IsInjective(r)
  BY <1>1, <1>4, RangeOf
<1> QED
  BY <1>1, <1>5, <1>6, <1>7 DEF r

LEMMA Singleton ==
  ASSUME NEW n
  PROVE  /\ Range(<<n>>) = {n} /\ IsInjective(<<n>>) /\ <<n>> # <<>>
         /\ Len(<<n>>) = 1 /\ Head(<<n>>) = n
         /\ Range(<<>>) = {} /\ IsInjective(<<>>)
BY DEF Range, IsInjective

(* An element goes to the front.                                           *)
LEMMA ConsRange ==
  ASSUME NEW S, NEW s \in Seq(S), IsInjective(s), NEW x \in S, x \notin Range(s)
  PROVE  /\ Range(<<x>> \o s) = Range(s) \cup {x} /\ IsInjective(<<x>> \o s)
         /\ <<x>> \o s \in Seq(S) /\ <<x>> \o s # <<>>
         /\ Len(<<x>> \o s) = Len(s) + 1 /\ (<<x>> \o s)[1] = x
<1> DEFINE r == <<x>> \o s
<1>1. /\ r \in Seq(S) /\ Len(r) = Len(s) + 1 /\ Len(s) \in Nat
      /\ r[1] = x /\ \A i \in 1 .. Len(s) : r[i + 1] = s[i]
  OBVIOUS
<1> HIDE DEF r
<1>2. Range(r) = {r[i] : i \in 1 .. Len(r)} /\ Range(s) = {s[i] : i \in 1 .. Len(s)}
  BY <1>1, RangeOf
<1>3. \A i \in 1 .. Len(r) : i = 1 \/ (i - 1 \in 1 .. Len(s) /\ r[i] = s[i - 1])
  <2> SUFFICES ASSUME NEW i \in 1 .. Len(r), i # 1
               PROVE  i - 1 \in 1 .. Len(s) /\ r[i] = s[i - 1]
    OBVIOUS
  <2>1. i - 1 \in 1 .. Len(s) /\ (i - 1) + 1 = i
    BY <1>1
  <2> QED
    BY <1>1, <2>1
<1>4. Range(r) = Range(s) \cup {x}
  <2>1. ASSUME NEW i \in 1 .. Len(r) PROVE r[i] \in Range(s) \cup {x}
    <3>1. CASE i = 1
      BY <1>1, <3>1
    <3>2. CASE i - 1 \in 1 .. Len(s) /\ r[i] = s[i - 1]
      BY <1>2, <3>2
    <3> QED
      BY <1>3, <3>1, <3>2
  <2>2. x \in Range(r)
    <3>1. 1 \in 1 .. Len(r)
      BY <1>1
    <3> QED
      BY <1>1, <1>2, <3>1
  <2>3. ASSUME NEW i \in 1 .. Len(s) PROVE s[i] \in Range(r)
    <3>1. i + 1 \in 1 .. Len(r) /\ r[i + 1] = s[i]
      BY <1>1
    <3> QED
      BY <1>2, <3>1
  <2> QED
    BY <1>2, <2>1, <2>2, <2>3
<1>5. IsInjective(r)
  <2>1. \A i, j \in 1 .. Len(s) : s[i] = s[j] => i = j
    BY RangeOf
  <2>2. \A i \in 1 .. Len(s) : s[i] # x
    BY <1>2
  <2>3. ASSUME NEW i \in 1 .. Len(r), NEW j \in 1 .. Len(r), r[i] = r[j] PROVE i = j
    <3>1. CASE i = 1
      BY <1>1, <1>3, <2>2, <2>3, <3>1
    <3>2. CASE j = 1
      BY <1>1, <1>3, <2>2, <2>3, <3>2
    <3>3. CASE i # 1 /\ j # 1
      <4>1. i - 1 = j - 1
        BY <1>3, <2>1, <2>3, <3>3
      <4> QED
        BY <1>1, <4>1
    <3> QED
      BY <3>1, <3>2, <3>3
  <2> QED
    BY <1>1, <2>3, RangeOf
<1>6. r # <<>>
  BY <1>1
<1> QED
  BY <1>1, <1>4, <1>5, <1>6 DEF r

(* An element is taken out, wherever it is.                                *)
LEMMA RemovedRange ==
  ASSUME NEW S, NEW s \in Seq(S), IsInjective(s), NEW i \in 1 .. Len(s)
  PROVE  /\ Range(RemoveAt(s, i)) = Range(s) \ {s[i]} /\ IsInjective(RemoveAt(s, i))
         /\ RemoveAt(s, i) \in Seq(S) /\ Len(RemoveAt(s, i)) = Len(s) - 1
         /\ \A j \in 1 .. Len(s) - 1 : RemoveAt(s, i)[j] = IF j < i THEN s[j] ELSE s[j + 1]
<1> DEFINE a == SubSeq(s, 1, i - 1)
           b == SubSeq(s, i + 1, Len(s))
           r == RemoveAt(s, i)
<1>1. Len(s) \in Nat /\ i \in Nat /\ 1 <= i /\ i <= Len(s) /\ \A j \in 1 .. Len(s) : s[j] \in S
  OBVIOUS
<1>2. a \in Seq(S) /\ Len(a) = i - 1 /\ \A j \in 1 .. i - 1 : a[j] = s[j]
  <2>1. \A j \in 1 .. i - 1 : s[j] \in S
    BY <1>1
  <2>2. /\ a \in Seq(S) /\ Len(a) = IF 1 <= i - 1 THEN (i - 1) - 1 + 1 ELSE 0
        /\ \A j \in 1 .. (i - 1) - 1 + 1 : a[j] = s[1 + j - 1]
    BY <1>1, <2>1, SubSeqProperties
  <2> HIDE DEF a
  <2>3. Len(a) = i - 1 /\ \A j \in 1 .. i - 1 : j \in 1 .. (i - 1) - 1 + 1 /\ 1 + j - 1 = j
    BY <1>1, <2>2
  <2> QED
    BY <2>2, <2>3
<1>3. b \in Seq(S) /\ Len(b) = Len(s) - i /\ \A j \in 1 .. Len(s) - i : b[j] = s[i + j]
  <2>1. \A j \in i + 1 .. Len(s) : s[j] \in S
    BY <1>1
  <2>2. /\ b \in Seq(S) /\ Len(b) = IF i + 1 <= Len(s) THEN Len(s) - (i + 1) + 1 ELSE 0
        /\ \A j \in 1 .. Len(s) - (i + 1) + 1 : b[j] = s[(i + 1) + j - 1]
    BY <1>1, <2>1, SubSeqProperties
  <2> HIDE DEF b
  <2>3. /\ Len(b) = Len(s) - i
        /\ \A j \in 1 .. Len(s) - i : j \in 1 .. Len(s) - (i + 1) + 1 /\ (i + 1) + j - 1 = i + j
    BY <1>1, <2>2
  <2> QED
    BY <2>2, <2>3
<1>4. r = a \o b
  BY DEF RemoveAt
<1> HIDE DEF a, b, r
<1>5. /\ r \in Seq(S) /\ Len(r) = Len(s) - 1
      /\ \A j \in 1 .. Len(r) : r[j] = IF j < i THEN s[j] ELSE s[j + 1]
  <2>1. r \in Seq(S) /\ Len(r) = Len(a) + Len(b)
        /\ \A j \in 1 .. Len(a) + Len(b) : r[j] = IF j <= Len(a) THEN a[j] ELSE b[j - Len(a)]
    BY <1>2, <1>3, <1>4, ConcatProperties
  <2>2. Len(r) = Len(s) - 1
    BY <1>1, <1>2, <1>3, <2>1
  <2>3. ASSUME NEW j \in 1 .. Len(r), j < i PROVE r[j] = s[j]
    <3>1. j \in 1 .. i - 1 /\ j <= Len(a)
      BY <1>1, <1>2, <2>2, <2>3
    <3> QED
      BY <1>2, <2>1, <3>1
  <2>4. ASSUME NEW j \in 1 .. Len(r), ~(j < i) PROVE r[j] = s[j + 1]
    <3>1. j - Len(a) \in 1 .. Len(s) - i /\ i + (j - Len(a)) = j + 1 /\ ~(j <= Len(a))
      BY <1>1, <1>2, <2>2, <2>4
    <3> QED
      BY <1>3, <2>1, <3>1
  <2> QED
    BY <2>1, <2>2, <2>3, <2>4
<1>6. Range(r) = {r[j] : j \in 1 .. Len(r)} /\ Range(s) = {s[j] : j \in 1 .. Len(s)}
  BY <1>5, RangeOf
<1>7. \A j, k \in 1 .. Len(s) : s[j] = s[k] => j = k
  BY RangeOf
<1>8. \A j \in 1 .. Len(r) : \E k \in 1 .. Len(s) :
        r[j] = s[k] /\ k # i /\ (k = IF j < i THEN j ELSE j + 1)
  <2> SUFFICES ASSUME NEW j \in 1 .. Len(r)
               PROVE  \E k \in 1 .. Len(s) :
                        r[j] = s[k] /\ k # i /\ (k = IF j < i THEN j ELSE j + 1)
    OBVIOUS
  <2>1. (IF j < i THEN j ELSE j + 1) \in 1 .. Len(s) \ {i}
    BY <1>1, <1>5
  <2> QED
    BY <1>5, <2>1
<1>9. \A k \in 1 .. Len(s) \ {i} : \E j \in 1 .. Len(r) : r[j] = s[k]
  <2> SUFFICES ASSUME NEW k \in 1 .. Len(s) \ {i} PROVE \E j \in 1 .. Len(r) : r[j] = s[k]
    OBVIOUS
  <2>1. CASE k < i
    <3>1. k \in 1 .. Len(r)
      BY <1>1, <1>5, <2>1
    <3> QED
      BY <1>5, <2>1, <3>1
  <2>2. CASE k > i
    <3>1. k - 1 \in 1 .. Len(r) /\ ~(k - 1 < i) /\ (k - 1) + 1 = k
      BY <1>1, <1>5, <2>2
    <3> QED
      BY <1>5, <3>1
  <2> QED
    BY <1>1, <2>1, <2>2
<1>10. Range(r) = Range(s) \ {s[i]}
  <2>1. \A y \in Range(r) : y \in Range(s) \ {s[i]}
    BY <1>6, <1>7, <1>8
  <2>2. \A y \in Range(s) \ {s[i]} : y \in Range(r)
    BY <1>6, <1>9
  <2> QED
    BY <2>1, <2>2
<1>11. IsInjective(r)
  <2>1. ASSUME NEW j \in 1 .. Len(r), NEW k \in 1 .. Len(r), r[j] = r[k] PROVE j = k
    <3>1. (IF j < i THEN j ELSE j + 1) = (IF k < i THEN k ELSE k + 1)
      BY <1>7, <1>8, <2>1
    <3> QED
      BY <1>1, <1>5, <3>1
  <2> QED
    BY <1>5, <2>1, RangeOf
<1> QED
  BY <1>5, <1>10, <1>11 DEF r
(* Two lists without a common element are joined.                           *)
LEMMA JoinRange ==
  ASSUME NEW S, NEW s \in Seq(S), NEW r \in Seq(S), IsInjective(s), IsInjective(r),
         Range(s) \cap Range(r) = {}
  PROVE  IsInjective(s \o r)
<1>1. /\ s \o r \in Seq(S) /\ Len(s \o r) = Len(s) + Len(r) /\ Len(s) \in Nat /\ Len(r) \in Nat
      /\ \A i \in 1 .. Len(s) + Len(r) :
           (s \o r)[i] = IF i <= Len(s) THEN s[i] ELSE r[i - Len(s)]
  BY ConcatProperties
<1>2. /\ Range(s) = {s[i] : i \in 1 .. Len(s)} /\ Range(r) = {r[i] : i \in 1 .. Len(r)}
      /\ \A i, j \in 1 .. Len(s) : s[i] = s[j] => i = j
      /\ \A i, j \in 1 .. Len(r) : r[i] = r[j] => i = j
  BY RangeOf
<1>3. ASSUME NEW i \in 1 .. Len(s) + Len(r), NEW j \in 1 .. Len(s) + Len(r),
             (s \o r)[i] = (s \o r)[j], i <= j
      PROVE  i = j
  <2>1. CASE j <= Len(s)
    BY <1>1, <1>2, <1>3, <2>1
  <2>2. CASE ~(i <= Len(s))
    <3>1. i - Len(s) \in 1 .. Len(r) /\ j - Len(s) \in 1 .. Len(r)
      BY <1>1, <1>3, <2>2
    <3>2. r[i - Len(s)] = r[j - Len(s)]
      BY <1>1, <1>3, <2>2
    <3>3. i - Len(s) = j - Len(s)
      BY <1>2, <3>1, <3>2
    <3> QED
      BY <1>1, <3>3
  <2>3. CASE i <= Len(s) /\ ~(j <= Len(s))
    <3>1. i \in 1 .. Len(s) /\ j - Len(s) \in 1 .. Len(r) /\ s[i] = r[j - Len(s)]
      BY <1>1, <1>3, <2>3
    <3>2. s[i] \in Range(s) /\ r[j - Len(s)] \in Range(r)
      BY <1>2, <3>1
    <3> QED
      BY <3>1, <3>2
  <2> QED
    BY <2>1, <2>2, <2>3
<1>4. \A i, j \in 1 .. Len(s \o r) : (s \o r)[i] = (s \o r)[j] => i = j
  <2> SUFFICES ASSUME NEW i \in 1 .. Len(s \o r), NEW j \in 1 .. Len(s \o r),
                      (s \o r)[i] = (s \o r)[j]
               PROVE  i = j
    OBVIOUS
  <2>1. i <= j \/ j <= i
    BY <1>1
  <2> QED
    BY <1>1, <1>3, <2>1
<1> QED
  BY <1>1, <1>4, RangeOf

(* A set of at most one element as a list.                                  *)
LEMMA ShortList ==
  /\ SetToSeq({}) = <<>>
  /\ \A x : SetToSeq({x}) = <<x>>
<1>1. SetToSeq({}) = <<>>
  <2>1. Cardinality({}) = 0
    BY FS_EmptySet
  <2>2. 1 .. 0 = {}
    OBVIOUS
  <2>3. SetToSeq({}) = CHOOSE f \in [{} -> {}] : IsInjective(f)
    BY <2>1, <2>2 DEF SetToSeq
  <2>4. <<>> \in [{} -> {}] /\ IsInjective(<<>>)
    <3>1. <<>> = [i \in {} |-> i]
      OBVIOUS
    <3>2. [i \in {} |-> i] \in [{} -> {}]
      OBVIOUS
    <3> QED
      BY <3>1, <3>2, Singleton
  <2>5. SetToSeq({}) \in [{} -> {}]
    BY <2>3, <2>4
  <2> QED
    BY <2>5
<1>2. ASSUME NEW x PROVE SetToSeq({x}) = <<x>>
  <2>1. Cardinality({x}) = 1
    BY FS_Singleton
  <2>2. SetToSeq({x}) = CHOOSE f \in [1 .. 1 -> {x}] : IsInjective(f)
    BY <2>1 DEF SetToSeq
  <2>3. <<x>> \in [1 .. 1 -> {x}] /\ IsInjective(<<x>>)
    BY Singleton
  <2>4. SetToSeq({x}) \in [1 .. 1 -> {x}]
    BY <2>2, <2>3
  <2>5. \A f, g \in [1 .. 1 -> {x}] : f = g
    OBVIOUS
  <2> QED
    BY <2>3, <2>4, <2>5
<1> QED
  BY <1>1, <1>2
=============================================================================
