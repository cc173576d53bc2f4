------------------------------ MODULE ListLemmas ------------------------------
(***************************************************************************)
(* The intrusive lists of the SDK (dl_list, src/components/wm_common) as   *)
(* sequences without duplicates: what linking and unlinking an element     *)
(* does to the set of elements.                                            *)
(***************************************************************************)
EXTENDS Integers, Sequences, FiniteSets, SequencesExt, SequenceTheorems,
        FiniteSetTheorems, TLAPS

\* Appending a new element (MSG_ADD, dl_list_add_tail) keeps a list free of
\* duplicates and adds exactly that element.
LEMMA AppendNew ==
  ASSUME NEW S, NEW s \in Seq(S), NEW e \in S, IsInjective(s), e \notin ToSet(s)
  PROVE  /\ Append(s, e) \in Seq(S)
         /\ IsInjective(Append(s, e))
         /\ ToSet(Append(s, e)) = ToSet(s) \cup {e}
<1> DEFINE t == Append(s, e)
<1>1. /\ t \in Seq(S)
      /\ Len(t) = Len(s) + 1
      /\ \A i \in 1..Len(s) : t[i] = s[i]
      /\ t[Len(s) + 1] = e
  BY AppendProperties
<1>2. Len(s) \in Nat /\ DOMAIN s = 1..Len(s) /\ DOMAIN t = 1..(Len(s) + 1)
  BY <1>1, LenProperties
<1>3. \A i \in 1..Len(s) : s[i] # e
  BY <1>2 DEF ToSet
<1>4. IsInjective(t)
  BY <1>1, <1>2, <1>3 DEF IsInjective
<1>5. ToSet(t) = ToSet(s) \cup {e}
  <2>1. ASSUME NEW x \in ToSet(t) PROVE x \in ToSet(s) \cup {e}
    <3>1. PICK i \in 1..(Len(s) + 1) : x = t[i]
      BY <1>2 DEF ToSet
    <3>2. CASE i \in 1..Len(s)
      BY <3>1, <3>2, <1>1, <1>2 DEF ToSet
    <3>3. CASE i = Len(s) + 1
      BY <3>1, <3>3, <1>1
    <3> QED BY <3>2, <3>3, <1>2
  <2>2. ASSUME NEW x \in ToSet(s) PROVE x \in ToSet(t)
    <3>1. PICK i \in 1..Len(s) : x = s[i]
      BY <1>2 DEF ToSet
    <3> QED BY <3>1, <1>1, <1>2 DEF ToSet
  <2>3. e \in ToSet(t)
    BY <1>1, <1>2 DEF ToSet
  <2> QED BY <2>1, <2>2, <2>3
<1> QED BY <1>1, <1>4, <1>5

\* The list without its element k: those behind it move up.
LEMMA RemovedAt ==
  ASSUME NEW S, NEW s \in Seq(S), IsInjective(s), NEW k \in 1..Len(s)
  PROVE  /\ RemoveFirst(s, s[k]) \in Seq(S)
         /\ DOMAIN RemoveFirst(s, s[k]) = 1..(Len(s) - 1)
         /\ \A i \in 1..(Len(s) - 1) :
              RemoveFirst(s, s[k])[i] = IF i < k THEN s[i] ELSE s[i + 1]
<1> DEFINE e == s[k]
<1>0. Len(s) \in Nat /\ DOMAIN s = 1..Len(s) /\ \A i \in 1..Len(s) : s[i] \in S
  BY LenProperties, ElementOfSeq
<1>1. Len(s) \in Nat /\ k \in Nat /\ 1 <= k /\ k <= Len(s)
  BY <1>0
<1>2. {i \in 1..Len(s) : s[i] = e} = {k}
  BY <1>0 DEF IsInjective
<1>3. Min({k}) = k
  BY <1>0 DEF Min
<1>4. RemoveFirst(s, e) = SubSeq(s, 1, k - 1) \o SubSeq(s, k + 1, Len(s))
  BY <1>2, <1>3 DEF RemoveFirst, RemoveAt, SelectInSeq
<1> DEFINE a == SubSeq(s, 1, k - 1)
           b == SubSeq(s, k + 1, Len(s))
           t == a \o b
<1>5. /\ a \in Seq(S) /\ Len(a) = k - 1
      /\ \A i \in 1..(k - 1) : a[i] = s[i]
  BY <1>0, SubSeqProperties
<1>6. /\ b \in Seq(S) /\ Len(b) = Len(s) - k
      /\ \A i \in 1..(Len(s) - k) : b[i] = s[i + k]
  <2>1. \A i \in (k + 1)..Len(s) : s[i] \in S
    BY <1>0
  <2>2. /\ b \in Seq(S)
        /\ Len(b) = IF k + 1 <= Len(s) THEN Len(s) - (k + 1) + 1 ELSE 0
        /\ \A i \in 1..(Len(s) - (k + 1) + 1) : b[i] = s[(k + 1) + i - 1]
    BY <1>0, <2>1, SubSeqProperties, k + 1 \in Int
  <2> HIDE DEF b
  <2>3. \A i \in 1..(Len(s) - k) : b[i] = s[i + k]
    <3> SUFFICES ASSUME NEW i \in 1..(Len(s) - k) PROVE b[i] = s[i + k]
      OBVIOUS
    <3>1. i \in 1..(Len(s) - (k + 1) + 1) /\ (k + 1) + i - 1 = i + k
      BY <1>1
    <3> QED BY <3>1, <2>2
  <2>4. Len(b) = Len(s) - k
    <3>1. CASE k < Len(s)
      BY <3>1, <1>1, <2>2
    <3>2. CASE k = Len(s)
      BY <3>2, <1>1, <2>2
    <3> QED BY <3>1, <3>2, <1>1
  <2> QED BY <2>2, <2>3, <2>4
<1> HIDE DEF a, b
<1>7. /\ t \in Seq(S) /\ Len(t) = Len(s) - 1 /\ DOMAIN t = 1..(Len(s) - 1)
      /\ \A i \in 1..(Len(s) - 1) : t[i] = IF i < k THEN s[i] ELSE s[i + 1]
  <2>1. /\ t \in Seq(S)
        /\ Len(t) = Len(a) + Len(b)
        /\ \A i \in 1..(Len(a) + Len(b)) :
             t[i] = IF i <= Len(a) THEN a[i] ELSE b[i - Len(a)]
    BY <1>5, <1>6, ConcatProperties
  <2>2. Len(t) = Len(s) - 1
    BY <1>0, <1>5, <1>6, <2>1
  <2>3. DOMAIN t = 1..(Len(s) - 1)
    BY <2>1, <2>2, LenProperties
  <2>4. ASSUME NEW i \in 1..(Len(s) - 1)
        PROVE  t[i] = IF i < k THEN s[i] ELSE s[i + 1]
    <3>1. t[i] = IF i <= k - 1 THEN a[i] ELSE b[i - (k - 1)]
      BY <1>0, <1>5, <1>6, <2>1
    <3> QED BY <3>1, <1>0, <1>5, <1>6
  <2> QED BY <2>1, <2>2, <2>3, <2>4
<1> QED BY <1>4, <1>7 DEF a, b

\* Unlinking an element (MSG_REMOVE, dl_list_del) from a list without
\* duplicates removes exactly that element.
LEMMA RemoveOnly ==
  ASSUME NEW S, NEW s \in Seq(S), NEW e, IsInjective(s)
  PROVE  /\ RemoveFirst(s, e) \in Seq(S)
         /\ IsInjective(RemoveFirst(s, e))
         /\ ToSet(RemoveFirst(s, e)) = ToSet(s) \ {e}
<1>0. Len(s) \in Nat /\ DOMAIN s = 1..Len(s) /\ \A i \in 1..Len(s) : s[i] \in S
  BY LenProperties, ElementOfSeq
<1>1. CASE ~ \E i \in 1..Len(s) : s[i] = e
  <2>1. RemoveFirst(s, e) = s
    BY <1>1 DEF RemoveFirst
  <2>2. e \notin ToSet(s)
    BY <1>0, <1>1 DEF ToSet
  <2> QED BY <2>1, <2>2
<1>2. CASE \E i \in 1..Len(s) : s[i] = e
  <2>1. PICK k \in 1..Len(s) : s[k] = e
    BY <1>2
  <2> DEFINE t == RemoveFirst(s, e)
  <2>2. /\ t \in Seq(S) /\ DOMAIN t = 1..(Len(s) - 1)
        /\ \A i \in 1..(Len(s) - 1) : t[i] = IF i < k THEN s[i] ELSE s[i + 1]
    BY <2>1, RemovedAt
  <2> HIDE DEF t
  <2>3. IsInjective(t)
    <3> DEFINE f(i) == IF i < k THEN i ELSE i + 1
    <3>1. ASSUME NEW i \in DOMAIN t, NEW j \in DOMAIN t, t[i] = t[j] PROVE i = j
      <4>1. f(i) \in 1..Len(s) /\ f(j) \in 1..Len(s) /\ (f(i) = f(j) => i = j)
        BY <1>0, <2>2
      <4>2. t[i] = s[f(i)] /\ t[j] = s[f(j)]
        BY <2>2
      <4>3. s[f(i)] = s[f(j)]
        BY <3>1, <4>2
      <4> HIDE DEF f
      <4> QED BY <1>0, <4>1, <4>3 DEF IsInjective
    <3> QED BY <3>1 DEF IsInjective
  <2>4. ToSet(t) = ToSet(s) \ {e}
    <3>1. ASSUME NEW x \in ToSet(t) PROVE x \in ToSet(s) /\ x # e
      <4>1. PICK i \in 1..(Len(s) - 1) : x = t[i]
        BY <2>2 DEF ToSet
      <4>2. PICK j \in 1..Len(s) : j # k /\ x = s[j]
        BY <4>1, <2>2, <1>0
      <4> QED BY <4>2, <2>1, <1>0 DEF ToSet, IsInjective
    <3>2. ASSUME NEW x \in ToSet(s), x # e PROVE x \in ToSet(t)
      <4>1. PICK j \in 1..Len(s) : x = s[j]
        BY <1>0 DEF ToSet
      <4>2. j # k
        BY <4>1, <2>1, <3>2
      <4>3. \E i \in 1..(Len(s) - 1) : t[i] = x
        <5>1. CASE j < k
          BY <5>1, <4>1, <2>2, <1>0
        <5>2. CASE j > k
          <6>1. j - 1 \in 1..(Len(s) - 1) /\ ~(j - 1 < k) /\ (j - 1) + 1 = j
            BY <5>2, <1>0
          <6> QED BY <6>1, <4>1, <2>2
        <5> QED BY <5>1, <5>2, <4>2, <1>0
      <4> QED BY <4>3, <2>2 DEF ToSet
    <3> QED BY <3>1, <3>2
  <2> QED BY <2>2, <2>3, <2>4 DEF t
<1> QED BY <1>1, <1>2

\* Unlinking the first element of a list without duplicates.
LEMMA TailOnly ==
  ASSUME NEW S, NEW s \in Seq(S), s # <<>>, IsInjective(s)
  PROVE  /\ Head(s) \in S /\ Head(s) \in ToSet(s)
         /\ Tail(s) \in Seq(S)
         /\ IsInjective(Tail(s))
         /\ ToSet(Tail(s)) = ToSet(s) \ {Head(s)}
<1>1. /\ Head(s) \in S /\ Head(s) = s[1]
      /\ Tail(s) \in Seq(S) /\ Len(Tail(s)) = Len(s) - 1
      /\ \A i \in 1..(Len(s) - 1) : Tail(s)[i] = s[i + 1]
  BY HeadTailProperties
<1>2. /\ Len(s) \in Nat /\ Len(s) >= 1 /\ DOMAIN s = 1..Len(s)
      /\ DOMAIN Tail(s) = 1..(Len(s) - 1)
  BY <1>1, LenProperties, EmptySeq
<1>3. IsInjective(Tail(s))
  BY <1>1, <1>2 DEF IsInjective
<1>4. ToSet(Tail(s)) = ToSet(s) \ {Head(s)}
  <2>1. ASSUME NEW x \in ToSet(Tail(s)) PROVE x \in ToSet(s) /\ x # Head(s)
    <3>1. PICK i \in 1..(Len(s) - 1) : x = Tail(s)[i]
      BY <1>2 DEF ToSet
    <3>2. i + 1 \in 1..Len(s) /\ x = s[i + 1] /\ i + 1 # 1
      BY <3>1, <1>1, <1>2
    <3> QED BY <3>2, <1>1, <1>2 DEF ToSet, IsInjective
  <2>2. ASSUME NEW x \in ToSet(s), x # Head(s) PROVE x \in ToSet(Tail(s))
    <3>1. PICK j \in 1..Len(s) : x = s[j]
      BY <1>2 DEF ToSet
    <3>2. j # 1
      BY <3>1, <2>2, <1>1
    <3>3. j - 1 \in 1..(Len(s) - 1) /\ Tail(s)[j - 1] = x
      BY <3>1, <3>2, <1>1, <1>2
    <3> QED BY <3>3, <1>2 DEF ToSet
  <2> QED BY <2>1, <2>2
<1>5. Head(s) \in ToSet(s)
  BY <1>1, <1>2 DEF ToSet
<1> QED BY <1>1, <1>3, <1>4, <1>5

\* Unlinking the last element of a list without duplicates.
LEMMA FrontOnly ==
  ASSUME NEW S, NEW s \in Seq(S), s # <<>>, IsInjective(s)
  PROVE  /\ Last(s) \in S /\ Last(s) \in ToSet(s)
         /\ Front(s) \in Seq(S)
         /\ IsInjective(Front(s))
         /\ ToSet(Front(s)) = ToSet(s) \ {Last(s)}
<1>1. PICK n \in Nat : n = Len(s) /\ n >= 1 /\ DOMAIN s = 1..n
  BY LenProperties, EmptySeq
<1>2. n \in 1..n /\ \A i \in 1..(n - 1) : i \in 1..n /\ i # n
  <2>1. n >= 1
    BY <1>1
  <2> QED BY <2>1
<1>3. \A i \in 1..n : s[i] \in S
  BY <1>1, ElementOfSeq
<1>4. /\ Front(s) \in Seq(S) /\ Len(Front(s)) = n - 1
      /\ \A i \in 1..(n - 1) : Front(s)[i] = s[i]
  BY <1>1, <1>2, <1>3, SubSeqProperties DEF Front
<1>5. DOMAIN Front(s) = 1..(n - 1)
  BY <1>4, LenProperties
<1>6. IsInjective(Front(s))
  BY <1>1, <1>2, <1>4, <1>5 DEF IsInjective
<1>7. ToSet(Front(s)) = ToSet(s) \ {Last(s)}
  <2>1. ASSUME NEW x \in ToSet(Front(s)) PROVE x \in ToSet(s) /\ x # Last(s)
    <3>1. PICK i \in 1..(n - 1) : x = s[i]
      BY <1>4, <1>5 DEF ToSet
    <3> QED BY <3>1, <1>1, <1>2 DEF ToSet, IsInjective, Last
  <2>2. ASSUME NEW x \in ToSet(s), x # Last(s) PROVE x \in ToSet(Front(s))
    <3>1. PICK j \in 1..n : x = s[j]
      BY <1>1 DEF ToSet
    <3>2. j \in 1..(n - 1)
      BY <3>1, <2>2, <1>1 DEF Last
    <3> QED BY <3>1, <3>2, <1>4, <1>5 DEF ToSet
  <2> QED BY <2>1, <2>2
<1>8. Last(s) \in S /\ Last(s) \in ToSet(s)
  BY <1>1, <1>2, <1>3 DEF Last, ToSet
<1> QED BY <1>4, <1>6, <1>7, <1>8

\* A list built from a finite set has each of its elements once.
LEMMA ListOfSet ==
  ASSUME NEW S, IsFiniteSet(S), NEW s \in SetToSeqs(S)
  PROVE  s \in Seq(S) /\ IsInjective(s) /\ ToSet(s) = S
<1> DEFINE n == Cardinality(S)
<1>1. n \in Nat
  BY FS_CardinalityType
<1>2. s \in [1..n -> S] /\ \A i, j \in 1..n : i # j => s[i] # s[j]
  BY DEF SetToSeqs
<1>3. s \in Seq(S)
  BY <1>1, <1>2, SeqDef
<1>4. IsInjective(s)
  BY <1>2 DEF IsInjective
<1>5. s \in Injection(1..n, S)
  BY <1>2, <1>4 DEF Injection
<1>6. IsFiniteSet(1..n) /\ Cardinality(1..n) = n
  BY <1>1, FS_Interval
<1>7. s \in Surjection(1..n, S)
  BY <1>5, <1>6, FS_Injection
<1>8. ToSet(s) = S
  BY <1>2, <1>7 DEF Surjection, ToSet
<1> QED BY <1>3, <1>4, <1>8
-------------------------------------------------------------------------------
(* The order of a list: what linking and unlinking do to it.               *)

\* x stands before y.
Before(q, x, y) == \E i, j \in DOMAIN q : i < j /\ q[i] = x /\ q[j] = y

LEMMA AppendBefore ==
  ASSUME NEW S, NEW s \in Seq(S), NEW e \in S, NEW x, NEW y, Before(Append(s, e), x, y)
  PROVE  Before(s, x, y) \/ (x \in ToSet(s) /\ y = e)
<1> DEFINE t == Append(s, e)
<1>1. PICK n \in Nat : n = Len(s) /\ DOMAIN s = 1..n
  BY LenProperties
<1>2. /\ DOMAIN t = 1..(n + 1) /\ t[n + 1] = e
      /\ \A i \in 1..n : t[i] = s[i]
  BY <1>1, AppendProperties, LenProperties
<1>3. PICK i, j \in 1..(n + 1) : i < j /\ t[i] = x /\ t[j] = y
  BY <1>2 DEF Before
<1>4. i \in 1..n /\ x = s[i]
  BY <1>1, <1>2, <1>3
<1>5. CASE j = n + 1
  BY <1>1, <1>2, <1>3, <1>4, <1>5 DEF ToSet
<1>6. CASE j \in 1..n
  BY <1>1, <1>2, <1>3, <1>4, <1>6 DEF Before
<1> QED BY <1>3, <1>5, <1>6

LEMMA FrontBefore ==
  ASSUME NEW S, NEW s \in Seq(S), s # <<>>, NEW x, NEW y, Before(Front(s), x, y)
  PROVE  Before(s, x, y)
<1>1. PICK n \in Nat : n = Len(s) /\ n >= 1 /\ DOMAIN s = 1..n
  BY LenProperties, EmptySeq
<1>2. \A i \in 1..(n - 1) : i \in 1..n /\ s[i] \in S
  BY <1>1, ElementOfSeq
<1>3. /\ Front(s) \in Seq(S) /\ Len(Front(s)) = n - 1
      /\ \A i \in 1..(n - 1) : Front(s)[i] = s[i]
  BY <1>1, <1>2, SubSeqProperties DEF Front
<1>4. DOMAIN Front(s) = 1..(n - 1)
  BY <1>3, LenProperties
<1> QED BY <1>1, <1>2, <1>3, <1>4 DEF Before

LEMMA RemoveBefore ==
  ASSUME NEW S, NEW s \in Seq(S), IsInjective(s), NEW e \in ToSet(s), NEW x, NEW y,
         Before(RemoveFirst(s, e), x, y)
  PROVE  Before(s, x, y)
<1> DEFINE t == RemoveFirst(s, e)
<1>1. PICK n \in Nat : n = Len(s) /\ DOMAIN s = 1..n
  BY LenProperties
<1>2. PICK k \in 1..n : e = s[k]
  BY <1>1 DEF ToSet
<1>3. /\ DOMAIN t = 1..(n - 1)
      /\ \A i \in 1..(n - 1) : t[i] = IF i < k THEN s[i] ELSE s[i + 1]
  BY <1>1, <1>2, RemovedAt
<1> HIDE DEF t
<1>4. PICK i, j \in 1..(n - 1) : i < j /\ t[i] = x /\ t[j] = y
  BY <1>3 DEF Before, t
<1>5. PICK u, v \in 1..n : u < v /\ s[u] = x /\ s[v] = y
  <2> DEFINE f(m) == IF m < k THEN m ELSE m + 1
  <2>1. f(i) \in 1..n /\ f(j) \in 1..n /\ f(i) < f(j)
    BY <1>4
  <2>2. s[f(i)] = x /\ s[f(j)] = y
    BY <1>3, <1>4
  <2> QED BY <2>1, <2>2
<1> QED BY <1>1, <1>5 DEF Before

\* All the others stand before the last element, and it before none.
LEMMA LastBefore ==
  ASSUME NEW S, NEW s \in Seq(S), s # <<>>, IsInjective(s)
  PROVE  /\ \A x \in ToSet(s) \ {Last(s)} : Before(s, x, Last(s))
         /\ \A y : ~Before(s, Last(s), y)
<1>1. PICK n \in Nat : n = Len(s) /\ n >= 1 /\ DOMAIN s = 1..n
  BY LenProperties, EmptySeq
<1>2. n \in 1..n /\ Last(s) = s[n]
  BY <1>1 DEF Last
<1>3. ASSUME NEW x \in ToSet(s) \ {Last(s)} PROVE Before(s, x, Last(s))
  <2>1. PICK i \in 1..n : x = s[i]
    BY <1>1 DEF ToSet
  <2>2. i < n
    BY <1>1, <1>2, <1>3, <2>1
  <2> QED BY <1>1, <1>2, <2>1, <2>2 DEF Before
<1>4. ASSUME NEW y, Before(s, Last(s), y) PROVE FALSE
  <2>1. PICK i, j \in 1..n : i < j /\ s[i] = s[n]
    BY <1>1, <1>2, <1>4 DEF Before
  <2>2. i # n
    BY <1>1, <2>1
  <2> QED BY <1>1, <1>2, <2>1, <2>2 DEF IsInjective
<1> QED BY <1>3, <1>4

LEMMA AppendLast ==
  ASSUME NEW S, NEW s \in Seq(S), NEW e \in S
  PROVE  Last(Append(s, e)) = e
BY AppendProperties, LenProperties DEF Last
===============================================================================
