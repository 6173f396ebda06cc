----------------------------- MODULE ListLemmas -----------------------------
(***************************************************************************)
(* What an insertion into an ordered list and a removal from it leave in   *)
(* the list (InsertAt and RemoveAt of the community modules).              *)
(***************************************************************************)
EXTENDS SortedListOps, SequenceTheorems, FiniteSetTheorems, TLAPS

(* InsertAt(s, i, e) is s with e in front of its ith element.              *)
LEMMA InsertAtProperties ==
  ASSUME NEW S, NEW s \in Seq(S), NEW i \in 1 .. Len(s) + 1, NEW e \in S
  PROVE  /\ InsertAt(s, i, e) \in Seq(S)
         /\ Len(InsertAt(s, i, e)) = Len(s) + 1
         /\ \A j \in 1 .. Len(s) + 1 :
              InsertAt(s, i, e)[j] = IF j < i THEN s[j] ELSE IF j = i THEN e ELSE s[j - 1]
<1> DEFINE front == SubSeq(s, 1, i - 1)
           back == SubSeq(s, i, Len(s))
           one == <<e>>
           begin == front \o one
           n == Len(s)
           p == i - 1
           q == n - p
<1>1. /\ n \in Nat /\ p \in Nat /\ q \in Nat /\ n + 1 \in Nat /\ i \in Nat
      /\ p + 1 = i /\ i + q = n + 1
  OBVIOUS
<1>2. /\ front \in Seq(S) /\ Len(front) = p
      /\ \A j \in 1 .. p : front[j] = s[j]
  OBVIOUS
<1>3. /\ back \in Seq(S) /\ Len(back) = q
      /\ \A j \in 1 .. q : back[j] = s[j + p]
  OBVIOUS
<1>4. one \in Seq(S) /\ Len(one) = 1 /\ one[1] = e
  OBVIOUS
<1> HIDE DEF front, back, one
<1>5. /\ begin \in Seq(S) /\ Len(begin) = i
      /\ \A j \in 1 .. i : begin[j] = IF j <= p THEN front[j] ELSE one[j - p]
  <2> HIDE DEF p, q, n
  <2>1. /\ begin \in Seq(S) /\ Len(begin) = Len(front) + Len(one)
        /\ \A j \in 1 .. Len(front) + Len(one) :
             begin[j] = IF j <= Len(front) THEN front[j] ELSE one[j - Len(front)]
    BY <1>2, <1>4, ConcatProperties
  <2>2. Len(front) + Len(one) = i /\ Len(front) = p
    BY <1>1, <1>2, <1>4
  <2> QED
    BY <2>1, <2>2
<1> DEFINE whole == begin \o back
<1> HIDE DEF begin
<1>6. /\ whole \in Seq(S) /\ Len(whole) = n + 1
      /\ \A j \in 1 .. n + 1 : whole[j] = IF j <= i THEN begin[j] ELSE back[j - i]
  <2> HIDE DEF p, q, n
  <2>1. /\ whole \in Seq(S) /\ Len(whole) = i + q
        /\ \A j \in 1 .. i + q : whole[j] = IF j <= i THEN begin[j] ELSE back[j - i]
    BY <1>3, <1>5, ConcatProperties
  <2> QED
    BY <1>1, <2>1
<1>7. InsertAt(s, i, e) = whole
  BY DEF InsertAt, whole, begin, back, front, one
<1> HIDE DEF whole
<1>8. ASSUME NEW j \in 1 .. n + 1
      PROVE  whole[j] = IF j < i THEN s[j] ELSE IF j = i THEN e ELSE s[j - 1]
  <2>1. CASE j < i
    <3>1. j \in 1 .. p /\ j \in 1 .. i /\ j <= i /\ j <= p
      BY <2>1
    <3> QED
      BY <1>2, <1>5, <1>6, <2>1, <3>1
  <2>2. CASE j = i
    <3>1. j \in 1 .. i /\ j <= i /\ ~(j <= p) /\ j - p = 1 /\ ~(j < i)
      BY <2>2
    <3> QED
      BY <1>4, <1>5, <1>6, <2>2, <3>1
  <2>3. CASE j > i
    <3>1. j - i \in 1 .. q /\ (j - i) + p = j - 1 /\ ~(j <= i) /\ ~(j < i) /\ j # i
      BY <2>3
    <3> QED
      BY <1>3, <1>6, <3>1
  <2>4. j < i \/ j = i \/ j > i
    OBVIOUS
  <2> QED
    BY <2>1, <2>2, <2>3, <2>4
<1> QED
  BY <1>6, <1>7, <1>8

(* RemoveAt(s, i) is s without its ith element.                            *)
LEMMA RemoveAtProperties ==
  ASSUME NEW S, NEW s \in Seq(S), NEW i \in 1 .. Len(s)
  PROVE  /\ RemoveAt(s, i) \in Seq(S)
         /\ Len(RemoveAt(s, i)) = Len(s) - 1
         /\ \A j \in 1 .. Len(s) - 1 : RemoveAt(s, i)[j] = IF j < i THEN s[j] ELSE s[j + 1]
<1> DEFINE front == SubSeq(s, 1, i - 1)
           back == SubSeq(s, i + 1, Len(s))
           n == Len(s) - 1
           p == i - 1
           q == n - p
<1>1. n \in Nat /\ p \in Nat /\ q \in Nat /\ p + q = n
  OBVIOUS
<1>2. /\ front \in Seq(S) /\ Len(front) = p
      /\ \A j \in 1 .. p : front[j] = s[j]
  OBVIOUS
<1>3. /\ back \in Seq(S) /\ Len(back) = q
      /\ \A j \in 1 .. q : back[j] = s[j + i]
  OBVIOUS
<1> DEFINE whole == front \o back
<1> HIDE DEF front, back
<1>4. /\ whole \in Seq(S) /\ Len(whole) = n
      /\ \A j \in 1 .. n : whole[j] = IF j <= p THEN front[j] ELSE back[j - p]
  <2> HIDE DEF p, q, n
  <2>1. /\ whole \in Seq(S) /\ Len(whole) = p + q
        /\ \A j \in 1 .. p + q : whole[j] = IF j <= p THEN front[j] ELSE back[j - p]
    BY <1>2, <1>3, ConcatProperties
  <2> QED
    BY <1>1, <2>1
<1>5. RemoveAt(s, i) = whole
  BY DEF RemoveAt, whole, front, back
<1> HIDE DEF whole
<1>6. ASSUME NEW j \in 1 .. n
      PROVE  whole[j] = IF j < i THEN s[j] ELSE s[j + 1]
  <2>1. CASE j < i
    <3>1. j \in 1 .. p /\ j <= p
      BY <2>1
    <3> QED
      BY <1>2, <1>4, <2>1, <3>1
  <2>2. CASE j >= i
    <3>1. j - p \in 1 .. q /\ (j - p) + i = j + 1 /\ ~(j <= p) /\ ~(j < i)
      BY <2>2
    <3> QED
      BY <1>3, <1>4, <3>1
  <2>3. j < i \/ j >= i
    OBVIOUS
  <2> QED
    BY <2>1, <2>2, <2>3
<1> QED
  BY <1>4, <1>5, <1>6

-----------------------------------------------------------------------------
LEMMA InsertSet ==
  ASSUME NEW S, NEW s \in Seq(S), NEW i \in 1 .. Len(s) + 1, NEW e \in S
  PROVE  ToSet(InsertAt(s, i, e)) = ToSet(s) \cup {e}
<1> DEFINE r == InsertAt(s, i, e)
<1>1. /\ r \in Seq(S) /\ Len(r) = Len(s) + 1
      /\ \A j \in 1 .. Len(s) + 1 : r[j] = IF j < i THEN s[j] ELSE IF j = i THEN e ELSE s[j - 1]
  BY InsertAtProperties
<1> HIDE DEF r
<1>2. DOMAIN r = 1 .. Len(s) + 1 /\ DOMAIN s = 1 .. Len(s)
  BY <1>1
<1>3. ASSUME NEW j \in 1 .. Len(s) + 1
      PROVE  r[j] \in ToSet(s) \cup {e}
  BY <1>1, <1>2 DEF ToSet
<1>4. r[i] = e
  BY <1>1
<1>5. ASSUME NEW j \in 1 .. Len(s)
      PROVE  s[j] \in ToSet(r)
  <2>1. CASE j < i
    <3>1. r[j] = s[j] /\ j \in DOMAIN r
      BY <1>1, <1>2, <2>1
    <3> QED
      BY <3>1 DEF ToSet
  <2>2. CASE j >= i
    <3>1. r[j + 1] = s[j] /\ j + 1 \in DOMAIN r
      BY <1>1, <1>2, <2>2
    <3> QED
      BY <3>1 DEF ToSet
  <2> QED
    BY <2>1, <2>2
<1> QED
  BY <1>2, <1>3, <1>4, <1>5 DEF ToSet, r

LEMMA InsertNoDuplicates ==
  ASSUME NEW S, NEW s \in Seq(S), NEW i \in 1 .. Len(s) + 1, NEW e \in S,
         NoDuplicates(s), e \notin ToSet(s)
  PROVE  NoDuplicates(InsertAt(s, i, e))
<1> DEFINE r == InsertAt(s, i, e)
<1>1. /\ Len(r) = Len(s) + 1
      /\ \A j \in 1 .. Len(s) + 1 : r[j] = IF j < i THEN s[j] ELSE IF j = i THEN e ELSE s[j - 1]
  BY InsertAtProperties, SMTT(60)
<1> HIDE DEF r
<1>2. \A j \in 1 .. Len(s) : s[j] # e
  BY DEF ToSet
<1>3. \A j, k \in 1 .. Len(s) : s[j] = s[k] => j = k
  BY DEF NoDuplicates
<1>4. ASSUME NEW j \in 1 .. Len(s) + 1, NEW k \in 1 .. Len(s) + 1, j < k
      PROVE  r[j] # r[k]
  BY <1>1, <1>2, <1>3, <1>4, SMTT(60)
<1> QED
  BY <1>1, <1>4 DEF NoDuplicates, r

LEMMA RemoveSet ==
  ASSUME NEW S, NEW s \in Seq(S), NEW i \in 1 .. Len(s), NoDuplicates(s)
  PROVE  /\ ToSet(RemoveAt(s, i)) = ToSet(s) \ {s[i]}
         /\ NoDuplicates(RemoveAt(s, i))
<1> DEFINE r == RemoveAt(s, i)
<1>1. /\ r \in Seq(S) /\ Len(r) = Len(s) - 1
      /\ \A j \in 1 .. Len(s) - 1 : r[j] = IF j < i THEN s[j] ELSE s[j + 1]
  BY RemoveAtProperties
<1> HIDE DEF r
<1>2. DOMAIN r = 1 .. Len(s) - 1 /\ DOMAIN s = 1 .. Len(s)
  BY <1>1
<1>3. \A j, k \in 1 .. Len(s) : s[j] = s[k] => j = k
  BY DEF NoDuplicates
<1>4. ASSUME NEW j \in 1 .. Len(s) - 1
      PROVE  \E k \in 1 .. Len(s) : k # i /\ r[j] = s[k]
  BY <1>1
<1>5. ASSUME NEW j \in 1 .. Len(s), j # i
      PROVE  s[j] \in ToSet(r)
  <2>1. CASE j < i
    <3>1. r[j] = s[j] /\ j \in DOMAIN r
      BY <1>1, <1>2, <2>1
    <3> QED
      BY <3>1 DEF ToSet
  <2>2. CASE j > i
    <3>1. r[j - 1] = s[j] /\ j - 1 \in DOMAIN r
      BY <1>1, <1>2, <2>2
    <3> QED
      BY <3>1 DEF ToSet
  <2> QED
    BY <1>5, <2>1, <2>2
<1>6. ToSet(r) = ToSet(s) \ {s[i]}
  <2>1. ToSet(r) \subseteq ToSet(s) \ {s[i]}
    BY <1>2, <1>3, <1>4 DEF ToSet
  <2>2. ToSet(s) \ {s[i]} \subseteq ToSet(r)
    <3>1. ASSUME NEW e \in ToSet(s) \ {s[i]}
          PROVE  e \in ToSet(r)
      <4>1. PICK j \in 1 .. Len(s) : e = s[j]
        BY <1>2 DEF ToSet
      <4>2. j # i
        BY <3>1, <4>1
      <4> QED
        BY <1>5, <4>1, <4>2
    <3> QED
      BY <3>1
  <2> QED
    BY <2>1, <2>2
<1>7. ASSUME NEW j \in 1 .. Len(s) - 1, NEW k \in 1 .. Len(s) - 1, j < k
      PROVE  r[j] # r[k]
  BY <1>1, <1>3, <1>7
<1>8. NoDuplicates(r)
  BY <1>1, <1>7 DEF NoDuplicates
<1> QED
  BY <1>6, <1>8 DEF r

LEMMA TailIsRemoveAt ==
  ASSUME NEW S, NEW s \in Seq(S), s # <<>>
  PROVE  1 \in 1 .. Len(s) /\ Head(s) = s[1] /\ Tail(s) = RemoveAt(s, 1) /\ Tail(s) \in Seq(S)
<1>1. Len(s) \in Nat /\ 1 \in 1 .. Len(s) /\ Head(s) = s[1]
  OBVIOUS
<1>2. /\ Tail(s) \in Seq(S) /\ Len(Tail(s)) = Len(s) - 1
      /\ \A j \in 1 .. Len(s) - 1 : Tail(s)[j] = s[j + 1]
  OBVIOUS
<1>3. /\ RemoveAt(s, 1) \in Seq(S) /\ Len(RemoveAt(s, 1)) = Len(s) - 1
      /\ \A j \in 1 .. Len(s) - 1 : RemoveAt(s, 1)[j] = s[j + 1]
  BY <1>1, RemoveAtProperties
<1>4. Tail(s) = RemoveAt(s, 1)
  BY <1>2, <1>3, SeqEqual
<1> QED
  BY <1>1, <1>2, <1>4

-----------------------------------------------------------------------------
(* There is a least number: of the intervals up to them one has no smaller one. *)
LEMMA LeastIndex ==
  ASSUME NEW T, T \subseteq Nat, T # {}
  PROVE  \E i \in T : \A j \in T : ~(j < i)
<1> DEFINE upTo(i) == 1 .. i
           intervals == {upTo(i) : i \in T}
<1>1. intervals \subseteq FiniteSubsetsOf(Nat)
  <2> SUFFICES ASSUME NEW i \in T PROVE upTo(i) \in FiniteSubsetsOf(Nat)
    OBVIOUS
  <2>1. i \in Int /\ 1 \in Int /\ upTo(i) \subseteq Nat
    OBVIOUS
  <2>2. IsFiniteSet(upTo(i))
    BY <2>1, FS_Interval
  <2> QED BY <2>1, <2>2 DEF FiniteSubsetsOf
<1>2. intervals # {}
  OBVIOUS
<1>3. IsWellFoundedOn(StrictSubsetOrdering(Nat), FiniteSubsetsOf(Nat))
  BY FS_StrictSubsetOrderingWellFounded
<1>4. PICK m \in intervals : \A n \in intervals : <<n, m>> \notin StrictSubsetOrdering(Nat)
  <2> HIDE DEF intervals
  <2> QED BY <1>1, <1>2, <1>3, WFMin
<1>5. PICK i \in T : m = upTo(i)
  BY <1>4
<1>6. ASSUME NEW j \in T, j < i PROVE FALSE
  <2>1. upTo(j) \subseteq upTo(i) /\ i \in upTo(i) /\ i \notin upTo(j)
    BY <1>6
  <2>2. upTo(j) \subseteq Nat /\ upTo(i) \subseteq Nat
    OBVIOUS
  <2>3. <<upTo(j), upTo(i)>> \in StrictSubsetOrdering(Nat)
    BY <2>1, <2>2 DEF StrictSubsetOrdering
  <2> QED BY <1>4, <1>5, <2>3
<1> QED BY <1>6
=============================================================================
