------------------------- MODULE PriorityQueueProofs -------------------------
(***************************************************************************)
(* The linked nodes of PriorityQueue lose and share none and behave as the *)
(* ordered list of SortedList, for every Capacity and every set of keys.   *)
(***************************************************************************)
EXTENDS PriorityQueue, ListLemmas

LEMMA Constants ==
  /\ Capacity \in Nat /\ Capacity > 0 /\ NULL \notin Node /\ Node \subseteq Nat
  /\ \A k \in Key : k \in Int
BY CapacityAssumption, KeyAssumption DEF NULL, Node

LEMMA SetOfSeq ==
  ASSUME NEW S, NEW s \in Seq(S)
  PROVE  /\ ToSet(s) = {s[i] : i \in 1 .. Len(s)}
         /\ \A i \in 1 .. Len(s) : s[i] \in ToSet(s)
         /\ ToSet(s) \subseteq S
BY DEF ToSet

-----------------------------------------------------------------------------
(* Chains: a walk along the links is what it is.                           *)

LEMMA NodesAre ==
  \A s : s \in Nodes <=> s \in Seq(Node) /\ NoDuplicates(s) /\ Len(s) <= Capacity
<1>1. ASSUME NEW s \in Nodes
      PROVE  s \in Seq(Node) /\ NoDuplicates(s) /\ Len(s) <= Capacity
  <2>1. PICK m \in 0 .. Capacity : s \in Injection(1 .. m, Node)
    BY <1>1 DEF Nodes
  <2>2. s \in [1 .. m -> Node] /\ m \in Nat
    BY <2>1, Constants DEF Injection
  <2>3. s \in Seq(Node) /\ Len(s) = m
    BY <2>2
  <2>4. \A i, j \in 1 .. m : s[i] = s[j] => i = j
    BY <2>1, <2>2 DEF Injection, IsInjective
  <2> QED
    BY <2>2, <2>3, <2>4, Constants DEF NoDuplicates
<1>2. ASSUME NEW s \in Seq(Node), NoDuplicates(s), Len(s) <= Capacity
      PROVE  s \in Nodes
  <2>1. s \in [1 .. Len(s) -> Node] /\ Len(s) \in 0 .. Capacity
    BY <1>2, Constants
  <2>2. IsInjective(s)
    BY <1>2, <2>1 DEF IsInjective, NoDuplicates
  <2> QED
    BY <2>1, <2>2 DEF Nodes, Injection
<1> QED
  BY <1>1, <1>2

LEMMA ChainPrefix ==
  ASSUME NEW nx, NEW n, NEW s \in Seq(Node), NEW t \in Seq(Node), IsChain(nx, n, s), IsChain(nx, n, t)
  PROVE  \A i \in 1 .. Len(s) : i <= Len(t) /\ s[i] = t[i]
<1> DEFINE bad == {i \in 1 .. Len(s) : ~(i <= Len(t) /\ s[i] = t[i])}
<1> SUFFICES ASSUME bad # {} PROVE FALSE
  OBVIOUS
<1>1. bad \subseteq Nat
  OBVIOUS
<1>2. PICK i \in bad : \A j \in bad : ~(j < i)
  <2> HIDE DEF bad
  <2> QED BY <1>1, LeastIndex
<1>3. i \in 1 .. Len(s) /\ ~(i <= Len(t) /\ s[i] = t[i]) /\ Len(s) \in Nat /\ Len(t) \in Nat
  BY <1>2
<1>4. CASE i = 1
  <2>1. s # <<>> /\ t # <<>>
    BY <1>3 DEF IsChain
  <2>2. 1 <= Len(t) /\ s[1] = t[1]
    BY <2>1 DEF IsChain
  <2> QED
    BY <1>3, <1>4, <2>2
<1>5. CASE i # 1
  <2>1. i - 1 \in 1 .. Len(s) /\ i - 1 < i /\ i - 1 # Len(s) /\ (i - 1) + 1 = i
    BY <1>3, <1>5
  <2>2. i - 1 <= Len(t) /\ s[i - 1] = t[i - 1]
    BY <1>2, <2>1
  <2>3. nx[s[i - 1]] = s[i] /\ s[i] \in Node
    BY <1>3, <2>1 DEF IsChain
  <2>4. i - 1 \in 1 .. Len(t)
    BY <1>3, <2>1, <2>2
  <2>5. nx[t[i - 1]] = IF i - 1 = Len(t) THEN NULL ELSE t[i]
    BY <2>1, <2>4 DEF IsChain
  <2>6. i - 1 # Len(t) /\ t[i] = s[i]
    BY <2>2, <2>3, <2>5, Constants
  <2> QED
    BY <1>3, <2>2, <2>6
<1> QED
  BY <1>4, <1>5

LEMMA ChainOfIs ==
  ASSUME NEW nx, NEW n, NEW s \in Nodes, IsChain(nx, n, s)
  PROVE  ChainOf(nx, n) = s
<1>1. ASSUME NEW t \in Nodes, IsChain(nx, n, t)
      PROVE  t = s
  <2>1. s \in Seq(Node) /\ t \in Seq(Node)
    BY <1>1, NodesAre
  <2>2. \A i \in 1 .. Len(s) : i <= Len(t) /\ s[i] = t[i]
    BY <1>1, <2>1, ChainPrefix
  <2>3. \A i \in 1 .. Len(t) : i <= Len(s) /\ t[i] = s[i]
    BY <1>1, <2>1, ChainPrefix
  <2>4. Len(s) = Len(t)
    <3>1. Len(s) \in Nat /\ Len(t) \in Nat
      BY <2>1
    <3>2. Len(s) > 0 => Len(s) <= Len(t)
      BY <2>2, <3>1
    <3>3. Len(t) > 0 => Len(t) <= Len(s)
      BY <2>3, <3>1
    <3> QED
      BY <3>1, <3>2, <3>3
  <2> QED
    BY <2>1, <2>2, <2>4, SeqEqual
<1> QED
  BY <1>1 DEF ChainOf

(* Links of other nodes do not matter.                                     *)
LEMMA ChainStays ==
  ASSUME NEW nx, NEW n, NEW s \in Seq(Node), IsChain(nx, n, s),
         NEW ny, \A m \in ToSet(s) : ny[m] = nx[m]
  PROVE  IsChain(ny, n, s)
BY SetOfSeq DEF IsChain

(* n is linked in front.                                                   *)
LEMMA LinkInFront ==
  ASSUME NEW nx, NEW h, NEW s \in Seq(Node), IsChain(nx, h, s),
         NEW n \in Node, NEW ny, ny[n] = h, \A m \in ToSet(s) : ny[m] = nx[m]
  PROVE  IsChain(ny, n, InsertAt(s, 1, n))
<1> DEFINE r == InsertAt(s, 1, n)
<1>1. Len(s) \in Nat /\ 1 \in 1 .. Len(s) + 1
  OBVIOUS
<1>2. /\ r \in Seq(Node) /\ Len(r) = Len(s) + 1
      /\ \A j \in 1 .. Len(s) + 1 : r[j] = IF j < 1 THEN s[j] ELSE IF j = 1 THEN n ELSE s[j - 1]
  BY <1>1, InsertAtProperties
<1> HIDE DEF r
<1>3. r # <<>> /\ r[1] = n /\ n # NULL
  BY <1>1, <1>2, Constants
<1>4. ASSUME NEW i \in 1 .. Len(r)
      PROVE  ny[r[i]] = IF i = Len(r) THEN NULL ELSE r[i + 1]
  <2>1. CASE i = 1
    <3>1. CASE s = <<>>
      <4>1. Len(s) = 0 /\ h = NULL
        BY <3>1 DEF IsChain
      <4> QED
        BY <1>2, <1>3, <2>1, <4>1
    <3>2. CASE s # <<>>
      <4>1. Len(s) > 0 /\ h = s[1]
        BY <3>2 DEF IsChain
      <4>2. r[i + 1] = s[1] /\ i # Len(r)
        BY <1>1, <1>2, <2>1, <4>1
      <4> QED
        BY <1>3, <2>1, <4>1, <4>2
    <3> QED
      BY <3>1, <3>2
  <2>2. CASE i # 1
    <3>1. i - 1 \in 1 .. Len(s) /\ r[i] = s[i - 1] /\ (i - 1 = Len(s) <=> i = Len(r)) /\ (i - 1) + 1 = i
      BY <1>1, <1>2, <2>2
    <3>2. i # Len(r) => r[i + 1] = s[i]
      <4> SUFFICES ASSUME i # Len(r) PROVE r[i + 1] = s[i]
        OBVIOUS
      <4>1. i + 1 \in 1 .. Len(s) + 1 /\ ~(i + 1 < 1) /\ i + 1 # 1 /\ (i + 1) - 1 = i
        BY <1>1, <1>2, <2>2
      <4> QED
        BY <1>2, <4>1
    <3>3. ny[s[i - 1]] = nx[s[i - 1]]
      BY <3>1, SetOfSeq
    <3>4. nx[s[i - 1]] = IF i - 1 = Len(s) THEN NULL ELSE s[i]
      BY <3>1 DEF IsChain
    <3> QED
      BY <3>1, <3>2, <3>3, <3>4
  <2> QED
    BY <2>1, <2>2
<1> QED
  BY <1>3, <1>4 DEF IsChain, r

(* n is linked behind the ith node.                                        *)
LEMMA LinkInBehind ==
  ASSUME NEW nx, NEW h, NEW s \in Seq(Node), NoDuplicates(s), IsChain(nx, h, s), NEW i \in 1 .. Len(s),
         NEW n \in Node, NEW ny, ny[n] = nx[s[i]], ny[s[i]] = n,
         \A m \in ToSet(s) \ {s[i]} : ny[m] = nx[m]
  PROVE  IsChain(ny, h, InsertAt(s, i + 1, n))
<1> DEFINE r == InsertAt(s, i + 1, n)
<1>1. Len(s) \in Nat /\ i + 1 \in 1 .. Len(s) + 1
  OBVIOUS
<1>2. /\ r \in Seq(Node) /\ Len(r) = Len(s) + 1
      /\ \A j \in 1 .. Len(s) + 1 : r[j] = IF j < i + 1 THEN s[j] ELSE IF j = i + 1 THEN n ELSE s[j - 1]
  <2>1. \A p \in 1 .. Len(s) + 1 :
          /\ InsertAt(s, p, n) \in Seq(Node) /\ Len(InsertAt(s, p, n)) = Len(s) + 1
          /\ \A j \in 1 .. Len(s) + 1 :
               InsertAt(s, p, n)[j] = IF j < p THEN s[j] ELSE IF j = p THEN n ELSE s[j - 1]
    BY InsertAtProperties
  <2> QED
    BY <1>1, <2>1
<1> HIDE DEF r
<1>3. r # <<>> /\ s # <<>> /\ h # NULL /\ r[1] = h
  <2>1. Len(s) > 0 /\ Len(r) > 0 /\ r[1] = s[1]
    BY <1>1, <1>2
  <2>2. s # <<>> /\ r # <<>>
    BY <2>1
  <2> QED
    BY <2>1, <2>2 DEF IsChain
<1>4. \A j \in 1 .. Len(s) : j # i => ny[s[j]] = nx[s[j]]
  BY SetOfSeq DEF NoDuplicates
<1>5. \A j \in 1 .. Len(s) : nx[s[j]] = IF j = Len(s) THEN NULL ELSE s[j + 1]
  BY DEF IsChain
<1>6. ASSUME NEW j \in 1 .. Len(r)
      PROVE  ny[r[j]] = IF j = Len(r) THEN NULL ELSE r[j + 1]
  <2>1. CASE j < i
    <3>1. j \in 1 .. Len(s) /\ j # i /\ j # Len(s) /\ r[j] = s[j] /\ j # Len(r)
      BY <1>1, <1>2, <2>1
    <3>2. r[j + 1] = s[j + 1]
      BY <1>1, <1>2, <2>1
    <3> QED
      BY <1>4, <1>5, <3>1, <3>2
  <2>2. CASE j = i
    <3>1. r[j] = s[i] /\ j # Len(r)
      BY <1>1, <1>2, <2>2
    <3>2. r[j + 1] = n
      BY <1>1, <1>2, <2>2
    <3> QED
      BY <3>1, <3>2
  <2>3. CASE j = i + 1
    <3>1. r[j] = n /\ (j = Len(r) <=> i = Len(s))
      BY <1>1, <1>2, <2>3
    <3>2. j # Len(r) => r[j + 1] = s[i + 1]
      <4> SUFFICES ASSUME j # Len(r) PROVE r[j + 1] = s[i + 1]
        OBVIOUS
      <4>1. j + 1 \in 1 .. Len(s) + 1 /\ ~(j + 1 < i + 1) /\ j + 1 # i + 1 /\ (j + 1) - 1 = i + 1
        BY <1>1, <1>2, <2>3
      <4> QED
        BY <1>2, <4>1
    <3> QED
      BY <1>5, <3>1, <3>2
  <2>4. CASE j > i + 1
    <3>1. /\ j - 1 \in 1 .. Len(s) /\ j - 1 # i /\ r[j] = s[j - 1] /\ (j = Len(r) <=> j - 1 = Len(s))
          /\ (j - 1) + 1 = j
      <4>1. j \in Nat /\ j \in 1 .. Len(s) + 1 /\ ~(j < i + 1) /\ j # i + 1
        BY <1>1, <1>2, <2>4
      <4>2. r[j] = s[j - 1]
        BY <1>2, <4>1
      <4> QED
        BY <1>1, <1>2, <2>4, <4>1, <4>2
    <3>2. j # Len(r) => r[j + 1] = s[j]
      <4> SUFFICES ASSUME j # Len(r) PROVE r[j + 1] = s[j]
        OBVIOUS
      <4>1. j + 1 \in 1 .. Len(s) + 1 /\ ~(j + 1 < i + 1) /\ j + 1 # i + 1 /\ (j + 1) - 1 = j
        BY <1>1, <1>2, <2>4, SMTT(60)
      <4> QED
        BY <1>2, <4>1
    <3>3. nx[s[j - 1]] = IF j - 1 = Len(s) THEN NULL ELSE s[j]
      BY <1>5, <3>1
    <3> QED
      BY <1>4, <3>1, <3>2, <3>3
  <2>5. j < i \/ j = i \/ j = i + 1 \/ j > i + 1
    OBVIOUS
  <2> QED
    BY <2>1, <2>2, <2>3, <2>4, <2>5
<1> QED
  BY <1>3, <1>6 DEF IsChain, r

(* The first node is unlinked.                                             *)
LEMMA UnlinkFront ==
  ASSUME NEW nx, NEW h, NEW s \in Seq(Node), NoDuplicates(s), IsChain(nx, h, s), s # <<>>,
         NEW ny, \A m \in ToSet(s) \ {h} : ny[m] = nx[m]
  PROVE  /\ 1 \in 1 .. Len(s) /\ h = s[1] /\ h \in Node
         /\ IsChain(ny, nx[h], RemoveAt(s, 1))
<1> DEFINE r == RemoveAt(s, 1)
<1>1. Len(s) \in Nat /\ 1 \in 1 .. Len(s) /\ h = s[1] /\ h \in Node
  BY DEF IsChain
<1>2. /\ r \in Seq(Node) /\ Len(r) = Len(s) - 1
      /\ \A j \in 1 .. Len(s) - 1 : r[j] = IF j < 1 THEN s[j] ELSE s[j + 1]
  BY <1>1, RemoveAtProperties
<1> HIDE DEF r
<1>3. \A j \in 1 .. Len(s) : j # 1 => ny[s[j]] = nx[s[j]]
  BY <1>1, SetOfSeq DEF NoDuplicates
<1>4. \A j \in 1 .. Len(s) : nx[s[j]] = IF j = Len(s) THEN NULL ELSE s[j + 1]
  BY DEF IsChain
<1>5. nx[h] = NULL <=> r = <<>>
  <2>1. CASE Len(s) = 1
    BY <1>1, <1>2, <1>4, <2>1
  <2>2. CASE Len(s) # 1
    <3>1. nx[h] = s[2] /\ s[2] \in Node
      <4>1. 1 \in 1 .. Len(s) /\ 2 \in 1 .. Len(s)
        <5>1. \A m \in Nat : 1 \in 1 .. m /\ m # 1 => 2 \in 1 .. m
          OBVIOUS
        <5> QED
          BY <1>1, <2>2, <5>1
      <4>2. nx[s[1]] = IF 1 = Len(s) THEN NULL ELSE s[1 + 1]
        BY <1>4, <4>1
      <4>3. nx[s[1]] = s[2]
        BY <2>2, <4>2
      <4>4. s[2] \in Node
        BY <4>1
      <4> QED
        BY <1>1, <4>3, <4>4
    <3> QED
      BY <1>1, <1>2, <2>2, <3>1, Constants
  <2> QED
    BY <2>1, <2>2
<1>6. r # <<>> => r[1] = nx[h]
  <2> SUFFICES ASSUME r # <<>> PROVE r[1] = nx[h]
    OBVIOUS
  <2>1. Len(s) > 1
    BY <1>1, <1>2
  <2> QED
    BY <1>1, <1>2, <1>4, <2>1
<1>7. ASSUME NEW j \in 1 .. Len(r)
      PROVE  ny[r[j]] = IF j = Len(r) THEN NULL ELSE r[j + 1]
  <2>1. j + 1 \in 1 .. Len(s) /\ j + 1 # 1 /\ r[j] = s[j + 1] /\ (j = Len(r) <=> j + 1 = Len(s))
    BY <1>1, <1>2
  <2>2. j # Len(r) => r[j + 1] = s[(j + 1) + 1]
    BY <1>1, <1>2
  <2> QED
    BY <1>3, <1>4, <2>1, <2>2
<1> QED
  BY <1>1, <1>5, <1>6, <1>7 DEF IsChain, r

(* The second node is unlinked.                                            *)
LEMMA UnlinkSecond ==
  ASSUME NEW nx, NEW h, NEW s \in Seq(Node), NoDuplicates(s), IsChain(nx, h, s), Len(s) >= 2,
         NEW ny, ny[h] = nx[s[2]], \A m \in ToSet(s) \ {h, s[2]} : ny[m] = nx[m]
  PROVE  2 \in 1 .. Len(s) /\ IsChain(ny, h, RemoveAt(s, 2))
<1> DEFINE r == RemoveAt(s, 2)
<1>1. Len(s) \in Nat /\ 2 \in 1 .. Len(s) /\ h = s[1] /\ h \in Node /\ s # <<>> /\ h # NULL
  BY DEF IsChain
<1>2. /\ r \in Seq(Node) /\ Len(r) = Len(s) - 1
      /\ \A j \in 1 .. Len(s) - 1 : r[j] = IF j < 2 THEN s[j] ELSE s[j + 1]
  BY <1>1, RemoveAtProperties
<1> HIDE DEF r
<1>3. \A j \in 1 .. Len(s) : j > 2 => ny[s[j]] = nx[s[j]]
  BY <1>1, SetOfSeq DEF NoDuplicates
<1>4. \A j \in 1 .. Len(s) : nx[s[j]] = IF j = Len(s) THEN NULL ELSE s[j + 1]
  BY DEF IsChain
<1>5. r # <<>> /\ r[1] = h
  BY <1>1, <1>2
<1>6. ASSUME NEW j \in 1 .. Len(r)
      PROVE  ny[r[j]] = IF j = Len(r) THEN NULL ELSE r[j + 1]
  <2>1. j + 1 \in 1 .. Len(s) /\ (j = Len(r) <=> j + 1 = Len(s))
    BY <1>1, <1>2
  <2>2. j # Len(r) => r[j + 1] = s[(j + 1) + 1]
    BY <1>1, <1>2
  <2>3. ny[r[j]] = nx[s[j + 1]]
    <3>1. CASE j = 1
      BY <1>1, <1>5, <3>1
    <3>2. CASE j # 1
      <4>1. r[j] = s[j + 1] /\ j + 1 > 2
        BY <1>1, <1>2, <3>2
      <4> QED
        BY <1>3, <2>1, <4>1
    <3> QED
      BY <3>1, <3>2
  <2> QED
    BY <1>4, <2>1, <2>2, <2>3
<1> QED
  BY <1>1, <1>5, <1>6 DEF IsChain, r

-----------------------------------------------------------------------------
(* Splits: the nodes are in one of two sequences, each once.               *)

Split(q, f) ==
  /\ q \in Seq(Node) /\ f \in Seq(Node)
  /\ NoDuplicates(q) /\ NoDuplicates(f)
  /\ ToSet(q) \cap ToSet(f) = {}
  /\ ToSet(q) \cup ToSet(f) = Node
  /\ Len(q) + Len(f) = Capacity

LEMMA SplitIsNodes ==
  ASSUME NEW q, NEW f, Split(q, f)
  PROVE  q \in Nodes /\ f \in Nodes /\ Len(q) \in 0 .. Capacity
<1>1. Len(q) \in Nat /\ Len(f) \in Nat
  BY DEF Split
<1>2. Len(q) <= Capacity /\ Len(f) <= Capacity
  BY <1>1, Constants DEF Split
<1> QED
  BY <1>1, <1>2, NodesAre, Constants DEF Split

LEMMA MoveOut ==
  ASSUME NEW q, NEW f, Split(q, f), NEW i \in 1 .. Len(q)
  PROVE  Split(RemoveAt(q, i), InsertAt(f, 1, q[i]))
<1> DEFINE n == q[i]
<1>1. /\ q \in Seq(Node) /\ f \in Seq(Node) /\ n \in Node /\ n \in ToSet(q) /\ n \notin ToSet(f)
      /\ NoDuplicates(q) /\ NoDuplicates(f) /\ Len(f) \in Nat /\ Len(q) \in Nat /\ 1 \in 1 .. Len(f) + 1
  BY SetOfSeq DEF Split
<1>2. /\ RemoveAt(q, i) \in Seq(Node) /\ Len(RemoveAt(q, i)) = Len(q) - 1
      /\ ToSet(RemoveAt(q, i)) = ToSet(q) \ {n} /\ NoDuplicates(RemoveAt(q, i))
  BY <1>1, RemoveAtProperties, RemoveSet
<1>3. /\ InsertAt(f, 1, n) \in Seq(Node) /\ Len(InsertAt(f, 1, n)) = Len(f) + 1
      /\ ToSet(InsertAt(f, 1, n)) = ToSet(f) \cup {n} /\ NoDuplicates(InsertAt(f, 1, n))
  <2> HIDE DEF n
  <2> QED
    BY <1>1, InsertAtProperties, InsertSet, InsertNoDuplicates
<1> HIDE DEF n
<1>4. Len(RemoveAt(q, i)) + Len(InsertAt(f, 1, n)) = Capacity
  BY <1>1, <1>2, <1>3 DEF Split
<1>5. Split(RemoveAt(q, i), InsertAt(f, 1, n))
  BY <1>1, <1>2, <1>3, <1>4 DEF Split
<1> QED
  BY <1>5 DEF n

LEMMA MoveIn ==
  ASSUME NEW q, NEW f, Split(q, f), f # <<>>, NEW i \in 1 .. Len(q) + 1
  PROVE  f[1] \in Node /\ f[1] \notin ToSet(q) /\ Split(InsertAt(q, i, f[1]), RemoveAt(f, 1))
<1> DEFINE n == f[1]
<1>1. /\ q \in Seq(Node) /\ f \in Seq(Node) /\ n \in Node /\ n \in ToSet(f) /\ n \notin ToSet(q)
      /\ NoDuplicates(q) /\ NoDuplicates(f) /\ Len(f) \in Nat /\ Len(q) \in Nat /\ 1 \in 1 .. Len(f)
  BY SetOfSeq DEF Split
<1>2. /\ RemoveAt(f, 1) \in Seq(Node) /\ Len(RemoveAt(f, 1)) = Len(f) - 1
      /\ ToSet(RemoveAt(f, 1)) = ToSet(f) \ {n} /\ NoDuplicates(RemoveAt(f, 1))
  BY <1>1, RemoveAtProperties, RemoveSet
<1>3. /\ InsertAt(q, i, n) \in Seq(Node) /\ Len(InsertAt(q, i, n)) = Len(q) + 1
      /\ ToSet(InsertAt(q, i, n)) = ToSet(q) \cup {n} /\ NoDuplicates(InsertAt(q, i, n))
  <2> HIDE DEF n
  <2> QED
    BY <1>1, InsertAtProperties, InsertSet, InsertNoDuplicates
<1> HIDE DEF n
<1>4. Len(InsertAt(q, i, n)) + Len(RemoveAt(f, 1)) = Capacity
  <2>1. Len(q) + Len(f) = Capacity /\ Capacity \in Nat
    BY Constants DEF Split
  <2> QED
    BY <1>1, <1>2, <1>3, <2>1
<1>5. Split(InsertAt(q, i, n), RemoveAt(f, 1))
  BY <1>1, <1>2, <1>3, <1>4 DEF Split
<1> QED
  BY <1>1, <1>5 DEF n

LEMMA MoveWithin ==
  ASSUME NEW q, NEW f, Split(q, f), q # <<>>, NEW i \in 1 .. Len(RemoveAt(q, 1)) + 1
  PROVE  /\ q[1] \in Node /\ q[1] \notin ToSet(RemoveAt(q, 1))
         /\ Split(InsertAt(RemoveAt(q, 1), i, q[1]), f)
<1> DEFINE n == q[1]
           r == RemoveAt(q, 1)
<1>1. /\ q \in Seq(Node) /\ f \in Seq(Node) /\ n \in Node /\ n \in ToSet(q)
      /\ NoDuplicates(q) /\ NoDuplicates(f) /\ Len(f) \in Nat /\ Len(q) \in Nat /\ 1 \in 1 .. Len(q)
  BY SetOfSeq DEF Split
<1>2. /\ r \in Seq(Node) /\ Len(r) = Len(q) - 1
      /\ ToSet(r) = ToSet(q) \ {n} /\ NoDuplicates(r)
  BY <1>1, RemoveAtProperties, RemoveSet
<1>3. /\ InsertAt(r, i, n) \in Seq(Node) /\ Len(InsertAt(r, i, n)) = Len(r) + 1
      /\ ToSet(InsertAt(r, i, n)) = ToSet(r) \cup {n} /\ NoDuplicates(InsertAt(r, i, n))
  <2>1. i \in 1 .. Len(r) + 1 /\ n \notin ToSet(r)
    BY <1>2
  <2> HIDE DEF n, r
  <2> QED
    <3>1. r \in Seq(Node) /\ n \in Node /\ NoDuplicates(r)
      BY <1>1, <1>2
    <3>2. /\ InsertAt(r, i, n) \in Seq(Node)
          /\ Len(InsertAt(r, i, n)) = Len(r) + 1
      BY <2>1, <3>1, InsertAtProperties
    <3>3. ToSet(InsertAt(r, i, n)) = ToSet(r) \cup {n}
      BY <2>1, <3>1, InsertSet
    <3>4. NoDuplicates(InsertAt(r, i, n))
      BY <2>1, <3>1, InsertNoDuplicates
    <3> QED
      BY <3>2, <3>3, <3>4
<1> HIDE DEF n, r
<1>4. Len(InsertAt(r, i, n)) + Len(f) = Capacity
  BY <1>1, <1>2, <1>3 DEF Split
<1>5. Split(InsertAt(r, i, n), f)
  <2>1. ToSet(InsertAt(r, i, n)) = ToSet(q)
    BY <1>1, <1>2, <1>3
  <2> QED
    BY <1>1, <1>2, <1>3, <1>4, <2>1 DEF Split
<1>6. n \notin ToSet(r)
  BY <1>2
<1> QED
  BY <1>1, <1>5, <1>6 DEF n, r

LEMMA TurnedRound ==
  ASSUME NEW q \in Seq(Node), NEW f \in Seq(Node)
  PROVE  LET r == Reverse(q) \o f IN
         /\ r \in Seq(Node) /\ Len(r) = Len(q) + Len(f)
         /\ \A j \in 1 .. Len(q) + Len(f) :
              r[j] = IF j <= Len(q) THEN q[Len(q) - j + 1] ELSE f[j - Len(q)]
<1> DEFINE b == Reverse(q)
           m == Len(q)
           r == b \o f
<1>1. m \in Nat /\ Len(f) \in Nat
  OBVIOUS
<1>2. b \in Seq(Node) /\ Len(b) = m /\ \A j \in 1 .. m : b[j] = q[m - j + 1]
  <2>1. b = [j \in 1 .. m |-> q[m - j + 1]]
    BY DEF Reverse
  <2>2. \A j \in 1 .. m : m - j + 1 \in 1 .. m
    BY <1>1
  <2>3. b \in [1 .. m -> Node]
    BY <1>1, <2>1, <2>2
  <2> HIDE DEF b
  <2>4. b \in Seq(Node) /\ Len(b) = m
    BY <1>1, <2>3
  <2> QED
    BY <2>1, <2>4
<1> HIDE DEF b, m
<1>3. /\ r \in Seq(Node) /\ Len(r) = Len(b) + Len(f)
      /\ \A j \in 1 .. Len(b) + Len(f) : r[j] = IF j <= Len(b) THEN b[j] ELSE f[j - Len(b)]
  <2>1. b \in Seq(Node)
    BY <1>2
  <2> QED
    BY <2>1, ConcatProperties
<1> HIDE DEF r
<1>4. /\ r \in Seq(Node) /\ Len(r) = m + Len(f)
      /\ \A j \in 1 .. m + Len(f) : r[j] = IF j <= m THEN q[m - j + 1] ELSE f[j - m]
  BY <1>1, <1>2, <1>3
<1> QED
  BY <1>4 DEF r, b, m

(* clear() turns the queue round and puts it in front of the free list.    *)
LEMMA MoveAll ==
  ASSUME NEW q, NEW f, Split(q, f)
  PROVE  Split(<<>>, Reverse(q) \o f)
<1> DEFINE m == Len(q)
           r == Reverse(q) \o f
<1>1. /\ q \in Seq(Node) /\ f \in Seq(Node) /\ NoDuplicates(q) /\ NoDuplicates(f)
      /\ Len(f) \in Nat /\ m \in Nat /\ m + Len(f) = Capacity
  BY DEF Split
<1>2. \A j \in 1 .. m : m - j + 1 \in 1 .. m
  BY <1>1
<1>3. /\ r \in Seq(Node) /\ Len(r) = Capacity
      /\ \A j \in 1 .. Capacity : r[j] = IF j <= m THEN q[m - j + 1] ELSE f[j - m]
  BY <1>1, TurnedRound
<1> HIDE DEF m, r
<1>4. \A i, j \in 1 .. m : q[i] = q[j] => i = j
  BY <1>1 DEF NoDuplicates, m
<1>5. \A i, j \in 1 .. Len(f) : f[i] = f[j] => i = j
  BY <1>1 DEF NoDuplicates
<1>6. \A i \in 1 .. m, j \in 1 .. Len(f) : q[i] # f[j]
  BY <1>1, SetOfSeq DEF Split, m
<1>7. NoDuplicates(r)
  <2> SUFFICES ASSUME NEW i \in 1 .. Capacity, NEW j \in 1 .. Capacity, i < j, r[i] = r[j]
               PROVE  FALSE
    BY <1>3, Constants DEF NoDuplicates
  <2>1. CASE j <= m
    <3>1. i \in 1 .. m /\ j \in 1 .. m /\ i <= m
      BY <1>1, <2>1
    <3>2. q[m - i + 1] = q[m - j + 1] /\ m - i + 1 \in 1 .. m /\ m - j + 1 \in 1 .. m
      BY <1>2, <1>3, <2>1, <3>1
    <3>3. m - i + 1 = m - j + 1
      BY <1>4, <3>2
    <3> QED
      BY <1>1, <3>1, <3>3
  <2>2. CASE i > m
    <3>1. i - m \in 1 .. Len(f) /\ j - m \in 1 .. Len(f) /\ ~(i <= m) /\ ~(j <= m)
      BY <1>1, <2>2, Constants
    <3>2. f[i - m] = f[j - m]
      BY <1>3, <3>1
    <3>3. i - m = j - m
      BY <1>5, <3>1, <3>2
    <3> QED
      BY <1>1, <3>3, Constants
  <2>3. CASE i <= m /\ j > m
    <3>1. i \in 1 .. m /\ j - m \in 1 .. Len(f) /\ ~(j <= m)
      BY <1>1, <2>3, Constants
    <3>2. q[m - i + 1] = f[j - m] /\ m - i + 1 \in 1 .. m
      BY <1>2, <1>3, <2>3, <3>1
    <3> QED
      BY <1>6, <3>1, <3>2
  <2> QED
    BY <1>1, <2>1, <2>2, <2>3, Constants
<1>8. ToSet(r) = Node
  <2>1. ToSet(r) \subseteq Node
    BY <1>3, SetOfSeq
  <2>2. ASSUME NEW n \in ToSet(q) PROVE n \in ToSet(r)
    <3>1. PICK i \in 1 .. m : q[i] = n
      BY <1>1, <2>2, SetOfSeq DEF m
    <3>2. m - i + 1 \in 1 .. m /\ m - (m - i + 1) + 1 = i
      BY <1>1
    <3>3. q[m - (m - i + 1) + 1] = n
      BY <3>1, <3>2
    <3>4. m - i + 1 \in 1 .. Capacity /\ m - i + 1 <= m
      BY <1>1, <3>2, Constants
    <3>5. r[m - i + 1] = n
      BY <1>3, <3>3, <3>4
    <3> QED
      BY <1>3, <3>4, <3>5, SetOfSeq
  <2>3. ASSUME NEW n \in ToSet(f) PROVE n \in ToSet(r)
    <3>1. PICK i \in 1 .. Len(f) : f[i] = n
      BY <1>1, <2>3, SetOfSeq
    <3>2. m + i \in 1 .. Capacity /\ ~(m + i <= m) /\ (m + i) - m = i
      BY <1>1, Constants
    <3>3. r[m + i] = n
      BY <1>3, <3>1, <3>2
    <3> QED
      BY <1>3, <3>2, <3>3, SetOfSeq
  <2>4. Node = ToSet(q) \cup ToSet(f)
    BY DEF Split
  <2> QED
    BY <2>1, <2>2, <2>3, <2>4
<1>9. /\ <<>> \in Seq(Node) /\ NoDuplicates(<<>>) /\ Len(<<>>) = 0 /\ ToSet(<<>>) = {}
  <2>1. <<>> \in Seq(Node) /\ Len(<<>>) = 0
    OBVIOUS
  <2>2. ToSet(<<>>) = {}
    <3>1. ToSet(<<>>) = {<<>>[i] : i \in 1 .. Len(<<>>)} /\ 1 .. Len(<<>>) = {}
      BY <2>1 DEF ToSet
    <3> QED
      BY <3>1, Zenon
  <2> QED
    BY <2>1, <2>2 DEF NoDuplicates
<1>10. Split(<<>>, r)
  BY <1>3, <1>7, <1>8, <1>9, Constants DEF Split
<1> QED
  BY <1>10 DEF r

-----------------------------------------------------------------------------
(* Keys and entries: what the list of nodes is to those who do not see the links. *)

Keys(s, item) == [j \in 1 .. Len(s) |-> item[s[j]]]
EntriesOf(s, item) == [j \in 1 .. Len(s) |-> [node |-> s[j], key |-> item[s[j]]]]

LEMMA KeysStay ==
  ASSUME NEW s \in Seq(Node), NEW item, NEW new, \A m \in ToSet(s) : new[m] = item[m]
  PROVE  Keys(s, new) = Keys(s, item) /\ EntriesOf(s, new) = EntriesOf(s, item)
BY SetOfSeq DEF Keys, EntriesOf

LEMMA EntriesType ==
  ASSUME NEW s \in Seq(Node), NEW item \in [Node -> Key]
  PROVE  /\ EntriesOf(s, item) \in Seq([node : Node, key : Key])
         /\ Len(EntriesOf(s, item)) = Len(s)
         /\ \A j \in 1 .. Len(s) : EntriesOf(s, item)[j] = [node |-> s[j], key |-> item[s[j]]]
         /\ Keys(s, item) \in Seq(Int)
         /\ Len(Keys(s, item)) = Len(s)
         /\ \A j \in 1 .. Len(s) : Keys(s, item)[j] = item[s[j]]
<1> DEFINE m == Len(s)
<1>1. m \in Nat /\ \A j \in 1 .. m : s[j] \in Node /\ item[s[j]] \in Key /\ item[s[j]] \in Int
  BY Constants
<1>2. EntriesOf(s, item) = [j \in 1 .. m |-> [node |-> s[j], key |-> item[s[j]]]]
  BY DEF EntriesOf
<1>3. Keys(s, item) = [j \in 1 .. m |-> item[s[j]]]
  BY DEF Keys
<1> HIDE DEF m
<1>4. EntriesOf(s, item) \in [1 .. m -> [node : Node, key : Key]]
  BY <1>1, <1>2
<1>5. Keys(s, item) \in [1 .. m -> Int]
  BY <1>1, <1>3
<1> DEFINE E == [node : Node, key : Key]
<1> HIDE DEF E
<1>6. EntriesOf(s, item) \in Seq([node : Node, key : Key]) /\ Len(EntriesOf(s, item)) = m
  <2>1. EntriesOf(s, item) \in [1 .. m -> E]
    BY <1>4 DEF E
  <2>2. \A g \in [1 .. m -> E] : g \in Seq(E) /\ Len(g) = m
    BY <1>1
  <2> QED
    BY <2>1, <2>2 DEF E
<1>7. Keys(s, item) \in Seq(Int) /\ Len(Keys(s, item)) = m
  BY <1>1, <1>5
<1> QED
  BY <1>2, <1>3, <1>6, <1>7 DEF m

LEMMA EntriesIn ==
  ASSUME NEW s \in Seq(Node), NEW n \in Node, NEW i \in 1 .. Len(s) + 1,
         NEW item \in [Node -> Key], NEW new \in [Node -> Key], \A m \in ToSet(s) : new[m] = item[m]
  PROVE  EntriesOf(InsertAt(s, i, n), new) = InsertAt(EntriesOf(s, item), i, [node |-> n, key |-> new[n]])
<1> DEFINE r == InsertAt(s, i, n)
           e == EntriesOf(s, item)
           new_entry == [node |-> n, key |-> new[n]]
           left == EntriesOf(r, new)
           right == InsertAt(e, i, new_entry)
<1>1. /\ r \in Seq(Node) /\ Len(r) = Len(s) + 1
      /\ \A j \in 1 .. Len(s) + 1 : r[j] = IF j < i THEN s[j] ELSE IF j = i THEN n ELSE s[j - 1]
  BY InsertAtProperties
<1>2. /\ e \in Seq([node : Node, key : Key]) /\ Len(e) = Len(s)
      /\ \A j \in 1 .. Len(s) : e[j] = [node |-> s[j], key |-> item[s[j]]]
  BY EntriesType
<1>3. new_entry \in [node : Node, key : Key]
  OBVIOUS
<1> HIDE DEF r, e, new_entry
<1>4. /\ right \in Seq([node : Node, key : Key]) /\ Len(right) = Len(s) + 1
      /\ \A j \in 1 .. Len(s) + 1 :
           right[j] = IF j < i THEN e[j] ELSE IF j = i THEN new_entry ELSE e[j - 1]
  <2>1. i \in 1 .. Len(e) + 1
    BY <1>2
  <2> QED
    <3>1. /\ right \in Seq([node : Node, key : Key]) /\ Len(right) = Len(e) + 1
          /\ \A j \in 1 .. Len(e) + 1 :
               right[j] = IF j < i THEN e[j] ELSE IF j = i THEN new_entry ELSE e[j - 1]
      <4> DEFINE E == [node : Node, key : Key]
      <4> HIDE DEF E
      <4>1. e \in Seq(E) /\ new_entry \in E
        BY <1>2, <1>3 DEF E
      <4>2. /\ InsertAt(e, i, new_entry) \in Seq(E)
            /\ Len(InsertAt(e, i, new_entry)) = Len(e) + 1
            /\ \A j \in 1 .. Len(e) + 1 :
                 InsertAt(e, i, new_entry)[j] =
                   IF j < i THEN e[j] ELSE IF j = i THEN new_entry ELSE e[j - 1]
        BY <2>1, <4>1, InsertAtProperties, SMTT(60)
      <4> QED
        BY <4>2 DEF E
    <3> QED
      BY <1>2, <3>1
<1>5. /\ left \in Seq([node : Node, key : Key]) /\ Len(left) = Len(r)
      /\ \A j \in 1 .. Len(r) : left[j] = [node |-> r[j], key |-> new[r[j]]]
  BY <1>1, EntriesType
<1>6. \A j \in 1 .. Len(s) : new[s[j]] = item[s[j]]
  BY SetOfSeq
<1> HIDE DEF left, right
<1>7. ASSUME NEW j \in 1 .. Len(s) + 1
      PROVE  left[j] = right[j]
  <2>1. left[j] = [node |-> r[j], key |-> new[r[j]]]
    BY <1>1, <1>5
  <2>2. CASE j < i
    <3>1. j \in 1 .. Len(s) /\ r[j] = s[j] /\ right[j] = e[j]
      BY <1>1, <1>4, <2>2
    <3> QED
      BY <1>2, <1>6, <2>1, <3>1
  <2>3. CASE j = i
    BY <1>1, <1>4, <2>1, <2>3 DEF new_entry
  <2>4. CASE j > i
    <3>1. j - 1 \in 1 .. Len(s) /\ ~(j < i) /\ j # i
      BY <2>4
    <3>2. r[j] = s[j - 1] /\ right[j] = e[j - 1]
      BY <1>1, <1>4, <3>1
    <3> QED
      BY <1>2, <1>6, <2>1, <3>1, <3>2
  <2>5. j < i \/ j = i \/ j > i
    OBVIOUS
  <2> QED
    BY <2>2, <2>3, <2>4, <2>5
<1>8. left = right
  BY <1>1, <1>4, <1>5, <1>7, SeqEqual
<1> QED
  BY <1>8 DEF left, right, r, e, new_entry

LEMMA EntriesOut ==
  ASSUME NEW s \in Seq(Node), NEW i \in 1 .. Len(s), NEW item \in [Node -> Key]
  PROVE  EntriesOf(RemoveAt(s, i), item) = RemoveAt(EntriesOf(s, item), i)
<1> DEFINE r == RemoveAt(s, i)
           e == EntriesOf(s, item)
           left == EntriesOf(r, item)
           right == RemoveAt(e, i)
<1>1. /\ r \in Seq(Node) /\ Len(r) = Len(s) - 1
      /\ \A j \in 1 .. Len(s) - 1 : r[j] = IF j < i THEN s[j] ELSE s[j + 1]
  BY RemoveAtProperties
<1>2. /\ e \in Seq([node : Node, key : Key]) /\ Len(e) = Len(s)
      /\ \A j \in 1 .. Len(s) : e[j] = [node |-> s[j], key |-> item[s[j]]]
  BY EntriesType
<1> HIDE DEF r, e
<1>4. /\ right \in Seq([node : Node, key : Key]) /\ Len(right) = Len(s) - 1
      /\ \A j \in 1 .. Len(s) - 1 : right[j] = IF j < i THEN e[j] ELSE e[j + 1]
  <2>1. i \in 1 .. Len(e)
    BY <1>2
  <2> QED
    BY <1>2, <2>1, RemoveAtProperties
<1>5. /\ left \in Seq([node : Node, key : Key]) /\ Len(left) = Len(r)
      /\ \A j \in 1 .. Len(r) : left[j] = [node |-> r[j], key |-> item[r[j]]]
  BY <1>1, EntriesType
<1> HIDE DEF left, right
<1>7. ASSUME NEW j \in 1 .. Len(s) - 1
      PROVE  left[j] = right[j]
  <2>1. left[j] = [node |-> r[j], key |-> item[r[j]]]
    BY <1>1, <1>5
  <2>2. j \in 1 .. Len(s) /\ j + 1 \in 1 .. Len(s)
    OBVIOUS
  <2> QED
    BY <1>1, <1>2, <1>4, <2>1, <2>2
<1>8. left = right
  BY <1>1, <1>4, <1>5, <1>7, SeqEqual
<1> QED
  BY <1>8 DEF left, right, r, e

LEMMA OrderedIn ==
  ASSUME NEW s \in Seq(Node), NEW n \in Node, NEW i,
         NEW item \in [Node -> Key], IsOrdered(Keys(s, item)), IsInsertionPoint(Keys(s, item), item[n], i)
  PROVE  i \in 1 .. Len(s) + 1 /\ IsOrdered(Keys(InsertAt(s, i, n), item))
<1> DEFINE r == InsertAt(s, i, n)
<1>1. /\ Len(Keys(s, item)) = Len(s) /\ Len(s) \in Nat
      /\ \A j \in 1 .. Len(s) : Keys(s, item)[j] = item[s[j]] /\ item[s[j]] \in Int
  BY EntriesType, Constants
<1>2. i \in 1 .. Len(s) + 1 /\ \A j \in 1 .. Len(s) : item[s[j]] <= item[n] <=> j < i
  BY <1>1 DEF IsInsertionPoint
<1>3. \A j, k \in 1 .. Len(s) : j < k => item[s[j]] <= item[s[k]]
  BY <1>1 DEF IsOrdered
<1>4. /\ r \in Seq(Node) /\ Len(r) = Len(s) + 1
      /\ \A j \in 1 .. Len(s) + 1 : r[j] = IF j < i THEN s[j] ELSE IF j = i THEN n ELSE s[j - 1]
  <2>1. \A p \in 1 .. Len(s) + 1 :
          /\ InsertAt(s, p, n) \in Seq(Node) /\ Len(InsertAt(s, p, n)) = Len(s) + 1
          /\ \A j \in 1 .. Len(s) + 1 :
               InsertAt(s, p, n)[j] = IF j < p THEN s[j] ELSE IF j = p THEN n ELSE s[j - 1]
    BY InsertAtProperties
  <2> QED
    BY <1>2, <2>1
<1> HIDE DEF r
<1>5. /\ Len(Keys(r, item)) = Len(s) + 1
      /\ \A j \in 1 .. Len(s) + 1 : Keys(r, item)[j] = item[r[j]]
  BY <1>4, EntriesType
<1>6. ASSUME NEW j \in 1 .. Len(s) + 1, NEW k \in 1 .. Len(s) + 1, j < k
      PROVE  item[r[j]] <= item[r[k]]
  <2>1. item[n] \in Int
    BY Constants
  <2>2. CASE j < i /\ k < i
    <3>1. j \in 1 .. Len(s) /\ k \in 1 .. Len(s)
      BY <1>1, <1>2, <2>2
    <3> QED
      BY <1>3, <1>4, <1>6, <2>2, <3>1
  <2>3. CASE j < i /\ k = i
    <3>1. j \in 1 .. Len(s)
      BY <1>1, <1>2, <2>3
    <3> QED
      BY <1>2, <1>4, <2>3, <3>1
  <2>4. CASE j < i /\ k > i
    <3>1. j \in 1 .. Len(s) /\ k - 1 \in 1 .. Len(s) /\ r[j] = s[j] /\ r[k] = s[k - 1]
      BY <1>1, <1>2, <1>4, <2>4
    <3>2. item[s[j]] <= item[n] /\ ~(item[s[k - 1]] <= item[n])
      BY <1>2, <2>4, <3>1
    <3> QED
      BY <1>1, <2>1, <3>1, <3>2
  <2>5. CASE j = i
    <3>1. k - 1 \in 1 .. Len(s) /\ r[j] = n /\ r[k] = s[k - 1] /\ ~(k - 1 < i)
      BY <1>1, <1>2, <1>4, <1>6, <2>5
    <3>2. ~(item[s[k - 1]] <= item[n])
      BY <1>2, <3>1
    <3> QED
      BY <1>1, <2>1, <3>1, <3>2
  <2>6. CASE j > i
    <3>1. /\ j - 1 \in 1 .. Len(s) /\ k - 1 \in 1 .. Len(s) /\ j - 1 < k - 1
          /\ r[j] = s[j - 1] /\ r[k] = s[k - 1]
      BY <1>1, <1>2, <1>4, <1>6, <2>6
    <3> QED
      BY <1>3, <3>1
  <2>7. \/ j < i /\ k < i
        \/ j < i /\ k = i
        \/ j < i /\ k > i
        \/ j = i
        \/ j > i
    BY <1>2
  <2> QED
    BY <2>2, <2>3, <2>4, <2>5, <2>6, <2>7
<1>7. IsOrdered(Keys(r, item))
  BY <1>5, <1>6 DEF IsOrdered
<1> QED
  BY <1>2, <1>7 DEF r

LEMMA OrderedOut ==
  ASSUME NEW s \in Seq(Node), NEW i \in 1 .. Len(s), NEW item \in [Node -> Key], IsOrdered(Keys(s, item))
  PROVE  IsOrdered(Keys(RemoveAt(s, i), item))
<1> DEFINE r == RemoveAt(s, i)
<1>1. Len(Keys(s, item)) = Len(s) /\ \A j \in 1 .. Len(s) : Keys(s, item)[j] = item[s[j]]
  BY EntriesType
<1>2. \A j, k \in 1 .. Len(s) : j < k => item[s[j]] <= item[s[k]]
  BY <1>1 DEF IsOrdered
<1>3. /\ r \in Seq(Node) /\ Len(r) = Len(s) - 1
      /\ \A j \in 1 .. Len(s) - 1 : r[j] = IF j < i THEN s[j] ELSE s[j + 1]
  BY RemoveAtProperties
<1> HIDE DEF r
<1>4. Len(Keys(r, item)) = Len(s) - 1 /\ \A j \in 1 .. Len(s) - 1 : Keys(r, item)[j] = item[r[j]]
  <2>1. Len(Keys(r, item)) = Len(r) /\ \A j \in 1 .. Len(r) : Keys(r, item)[j] = item[r[j]]
    BY <1>3, EntriesType
  <2> QED
    BY <1>3, <2>1
<1>5. ASSUME NEW j \in 1 .. Len(s) - 1, NEW k \in 1 .. Len(s) - 1, j < k
      PROVE  item[r[j]] <= item[r[k]]
  <2>1. j \in 1 .. Len(s) /\ k \in 1 .. Len(s) /\ j + 1 \in 1 .. Len(s) /\ k + 1 \in 1 .. Len(s)
    OBVIOUS
  <2> QED
    BY <1>2, <1>3, <1>5, <2>1, SMTT(60)
<1>6. IsOrdered(Keys(r, item))
  BY <1>4, <1>5 DEF IsOrdered
<1> QED
  BY <1>6 DEF r

-----------------------------------------------------------------------------
(* insert_after() finds the place of an ordered list: the walk stops at the first
   node that ends it, which is the last that n is not smaller than.        *)
LEMMA PlaceIsFound ==
  ASSUME NEW nx, NEW h, NEW s \in Nodes, s # <<>>, IsChain(nx, h, s), NEW n \in Node,
         NEW item \in [Node -> Key], IsOrdered(Keys(s, item)), ~(item[n] < item[h])
  PROVE  \E i \in 1 .. Len(s) :
           /\ insert_after(nx, item, h, n) = [nx EXCEPT ![n] = nx[s[i]], ![s[i]] = n]
           /\ IsInsertionPoint(Keys(s, item), item[n], i + 1)
<1> DEFINE ends(i) == nx[s[i]] = NULL \/ item[n] < item[nx[s[i]]]
           stops == {i \in 1 .. Len(s) : ends(i)}
<1>1. s \in Seq(Node) /\ Len(s) \in Nat /\ Len(s) > 0 /\ h = s[1]
  BY NodesAre DEF IsChain
<1>2. \A j \in 1 .. Len(s) : nx[s[j]] = IF j = Len(s) THEN NULL ELSE s[j + 1]
  BY DEF IsChain
<1>3. stops \subseteq Nat /\ Len(s) \in stops
  BY <1>1, <1>2
<1>4. PICK k \in stops : \A j \in stops : ~(j < k)
  <2> HIDE DEF stops
  <2> QED BY <1>3, LeastIndex
<1>5. k \in 1 .. Len(s) /\ ends(k) /\ \A j \in 1 .. k - 1 : ~ends(j)
  BY <1>1, <1>4
<1> DEFINE first(i) == ends(i) /\ \A j \in 1 .. i - 1 : ~ends(j)
<1>6. (CHOOSE i \in DOMAIN s : first(i)) = k
  <2>1. DOMAIN s = 1 .. Len(s)
    BY <1>1
  <2>2. ASSUME NEW i \in 1 .. Len(s), first(i) PROVE i = k
    <3>1. ~(i < k)
      BY <1>4, <2>2
    <3>2. ~(k < i)
      <4> SUFFICES ASSUME k < i PROVE FALSE
        OBVIOUS
      <4>1. k \in 1 .. i - 1
        BY <1>1, <1>5
      <4> QED
        BY <1>5, <2>2, <4>1
    <3> QED
      BY <1>5, <3>1, <3>2
  <2>3. first(k)
    BY <1>5
  <2> HIDE DEF first
  <2> QED
    BY <1>5, <2>1, <2>2, <2>3
<1>7. insert_after(nx, item, h, n) = [nx EXCEPT ![n] = nx[s[k]], ![s[k]] = n]
  <2>1. ChainOf(nx, h) = s
    BY ChainOfIs
  <2> QED
    BY <1>6, <2>1 DEF insert_after
<1>8. /\ Len(Keys(s, item)) = Len(s)
      /\ \A j \in 1 .. Len(s) : Keys(s, item)[j] = item[s[j]] /\ item[s[j]] \in Int
      /\ item[n] \in Int
  BY <1>1, EntriesType, Constants, SMTT(60)
<1>9. ASSUME NEW j \in 1 .. Len(s)
      PROVE  item[s[j]] <= item[n] <=> j < k + 1
  <2>1. CASE j = 1
    <3>1. item[s[1]] <= item[n]
      BY <1>1, <1>8
    <3> QED
      BY <1>5, <2>1, <3>1
  <2>2. CASE j # 1 /\ j < k + 1
    <3>1. j - 1 \in 1 .. k - 1 /\ j - 1 \in 1 .. Len(s) /\ j - 1 # Len(s) /\ (j - 1) + 1 = j
      BY <1>1, <1>5, <2>2
    <3>2. nx[s[j - 1]] = s[j] /\ s[j] \in Node
      BY <1>1, <1>2, <3>1
    <3>3. ~(item[n] < item[s[j]])
      BY <1>5, <3>1, <3>2
    <3> QED
      BY <1>8, <2>2, <3>3
  <2>3. CASE ~(j < k + 1)
    <3>1. k # Len(s) /\ k + 1 \in 1 .. Len(s) /\ k + 1 <= j
      BY <1>1, <1>5, <2>3
    <3>2. nx[s[k]] = s[k + 1] /\ s[k + 1] \in Node
      BY <1>1, <1>2, <1>5, <3>1
    <3>3. item[n] < item[s[k + 1]]
      BY <1>5, <3>2, Constants
    <3>4. item[s[k + 1]] <= item[s[j]]
      <4>1. CASE k + 1 = j
        BY <1>8, <4>1
      <4>2. CASE k + 1 # j
        <5>1. k + 1 < j
          BY <1>5, <3>1, <4>2
        <5> QED
          BY <1>8, <3>1, <5>1 DEF IsOrdered
      <4> QED
        BY <4>1, <4>2
    <3> QED
      BY <1>8, <2>3, <3>1, <3>3, <3>4
  <2> QED
    BY <2>1, <2>2, <2>3
<1>10. IsInsertionPoint(Keys(s, item), item[n], k + 1)
  BY <1>1, <1>5, <1>8, <1>9 DEF IsInsertionPoint
<1> QED
  BY <1>5, <1>7, <1>10

-----------------------------------------------------------------------------
(* The inductive invariant: q are the nodes of the queue in order, f those of the
   free list.                                                              *)

FieldsOK ==
  /\ next \in [Node -> Node \cup {NULL}]
  /\ storage \in [Node -> Key]
  /\ spinning \in BOOLEAN

Lists(q, f) ==
  /\ Split(q, f)
  /\ IsChain(next, head, q)
  /\ IsChain(next, free_nodes, f)
  /\ used_nodes_count = Len(q)
  /\ IsOrdered(Keys(q, storage))

LinksInv == FieldsOK /\ \E q, f : Lists(q, f)

LEMMA ListsMean ==
  ASSUME NEW q, NEW f, Lists(q, f), FieldsOK
  PROVE  /\ q \in Nodes /\ f \in Nodes /\ q \in Seq(Node) /\ f \in Seq(Node)
         /\ NoDuplicates(q) /\ NoDuplicates(f)
         /\ Chain(head) = q /\ Entries = EntriesOf(q, storage)
         /\ head \in Node \cup {NULL} /\ free_nodes \in Node \cup {NULL}
<1>1. q \in Nodes /\ f \in Nodes
  BY SplitIsNodes DEF Lists
<1>2. q \in Seq(Node) /\ f \in Seq(Node) /\ NoDuplicates(q) /\ NoDuplicates(f)
  BY <1>1, NodesAre
<1>3. Chain(head) = q
  BY <1>1, ChainOfIs DEF Lists, Chain
<1>4. Entries = EntriesOf(q, storage)
  BY <1>2, <1>3 DEF Entries, EntriesOf
<1>5. head \in Node \cup {NULL} /\ free_nodes \in Node \cup {NULL}
  <2>1. \A s \in Seq(Node) : s # <<>> => s[1] \in Node
    OBVIOUS
  <2> QED
    BY <1>2, <2>1 DEF Lists, IsChain
<1> QED
  BY <1>1, <1>2, <1>3, <1>4, <1>5

LEMMA NextListsMean ==
  ASSUME NEW q, NEW f, Lists(q, f)'
  PROVE  Chain(head)' = q /\ Entries' = EntriesOf(q, storage')
<1>1. q \in Nodes /\ q \in Seq(Node)
  BY SplitIsNodes, NodesAre DEF Lists
<1>2. ChainOf(next', head') = q
  BY <1>1, ChainOfIs DEF Lists
<1>3. Chain(head)' = q
  BY <1>2 DEF Chain
<1> QED
  BY <1>1, <1>3 DEF Entries, EntriesOf

LEMMA ListUsesThem ==
  /\ \A s, i, e : List!InsertAt(s, i, e) = InsertAt(s, i, e)
  /\ \A s, i : List!RemoveAt(s, i) = RemoveAt(s, i)
  /\ \A s : List!ToSet(s) = ToSet(s)
BY DEF List!InsertAt, InsertAt, List!RemoveAt, RemoveAt, List!ToSet, ToSet

(* An entry is put in its place of an ordered list, e, which becomes x.    *)
LEMMA PutInEntries ==
  ASSUME NEW s \in Seq(Node), NEW n \in Node, NEW i,
         NEW item \in [Node -> Key], NEW new \in [Node -> Key], \A m \in ToSet(s) : new[m] = item[m],
         IsInsertionPoint(Keys(s, new), new[n], i)
  PROVE  \E j \in 1 .. Len(EntriesOf(s, item)) + 1 :
           /\ List!IsInsertionPoint(List!KeysOf(EntriesOf(s, item)), new[n], j)
           /\ EntriesOf(InsertAt(s, i, n), new) =
                InsertAt(EntriesOf(s, item), j, [node |-> n, key |-> new[n]])
<1>1. Keys(s, new) = Keys(s, item)
  BY KeysStay
<1>2. /\ Len(EntriesOf(s, item)) = Len(s) /\ Len(Keys(s, new)) = Len(s)
      /\ \A j \in 1 .. Len(s) : EntriesOf(s, item)[j] = [node |-> s[j], key |-> item[s[j]]]
  BY EntriesType
<1>3. List!KeysOf(EntriesOf(s, item)) = Keys(s, new)
  <2>1. List!KeysOf(EntriesOf(s, item)) = Keys(s, item)
    <3>1. List!KeysOf(EntriesOf(s, item)) = [j \in 1 .. Len(s) |-> EntriesOf(s, item)[j].key]
      BY <1>2 DEF List!KeysOf
    <3>2. ASSUME NEW j \in 1 .. Len(s)
          PROVE  EntriesOf(s, item)[j].key = item[s[j]]
      <4>1. EntriesOf(s, item)[j] = [node |-> s[j], key |-> item[s[j]]]
        BY <1>2
      <4> QED
        BY <4>1
    <3> QED
      BY <3>1, <3>2 DEF Keys
  <2> QED
    BY <1>1, <2>1
<1>4. List!IsInsertionPoint(List!KeysOf(EntriesOf(s, item)), new[n], i)
  BY <1>3 DEF List!IsInsertionPoint, IsInsertionPoint
<1>5. i \in 1 .. Len(s) + 1
  BY <1>2 DEF IsInsertionPoint
<1>6. EntriesOf(InsertAt(s, i, n), new) = InsertAt(EntriesOf(s, item), i, [node |-> n, key |-> new[n]])
  BY <1>5, EntriesIn
<1> QED
  BY <1>2, <1>4, <1>5, <1>6

-----------------------------------------------------------------------------
(* The steps.                                                              *)

Moves == (List!Next \/ Entries' = Entries) /\ LinksInv'

LEMMA PushStep ==
  ASSUME FieldsOK, NEW q, NEW f, Lists(q, f), NEW k \in Key, Push(k)
  PROVE  Moves
<1> DEFINE n == f[1]
           taken == [next EXCEPT ![n] = NULL]
<1>1. /\ q \in Nodes /\ q \in Seq(Node) /\ f \in Seq(Node) /\ NoDuplicates(q) /\ NoDuplicates(f)
      /\ Entries = EntriesOf(q, storage)
  BY ListsMean
<1>2. f # <<>> /\ free_nodes = n
  BY DEF Push, Lists, IsChain
<1>3. n \in Node /\ n \notin ToSet(q) /\ 1 \in 1 .. Len(q) + 1
  <2>1. 1 \in 1 .. Len(q) + 1
    BY <1>1
  <2> QED
    BY <1>2, <2>1, MoveIn DEF Lists
<1>4. /\ free_nodes' = next[n] /\ storage' = [storage EXCEPT ![n] = k]
      /\ used_nodes_count' = used_nodes_count + 1 /\ UNCHANGED spinning
  BY <1>2 DEF Push
<1>5. /\ storage' \in [Node -> Key] /\ storage'[n] = k
      /\ \A m \in ToSet(q) : storage'[m] = storage[m]
  BY <1>1, <1>3, <1>4, SetOfSeq DEF FieldsOK
<1> HIDE DEF n
<1>6. Keys(q, storage') = Keys(q, storage) /\ IsOrdered(Keys(q, storage'))
  BY <1>1, <1>5, KeysStay DEF Lists
(* Whatever the place, the rest is the same.                               *)
<1>7. ASSUME NEW i, IsInsertionPoint(Keys(q, storage'), k, i), head' \in Node,
             next' \in [Node -> Node \cup {NULL}], \A m \in Node \ (ToSet(q) \cup {n}) : next'[m] = next[m],
             IsChain(next', head', InsertAt(q, i, n))
      PROVE  Moves
  <2> DEFINE r == InsertAt(q, i, n)
             g == RemoveAt(f, 1)
  <2>1. IsInsertionPoint(Keys(q, storage'), storage'[n], i)
    BY <1>5, <1>7
  <2>2. i \in 1 .. Len(q) + 1 /\ IsOrdered(Keys(r, storage'))
    BY <1>1, <1>3, <1>5, <1>6, <2>1, OrderedIn
  <2>3. Split(r, g)
    BY <1>2, <2>2, MoveIn DEF Lists, n
  <2>4. IsChain(next', free_nodes', g)
    <3>1. \A m \in ToSet(f) \ {n} : next'[m] = next[m]
      <4>1. \A m \in ToSet(f) : m \in Node /\ m \notin ToSet(q)
        BY <1>1, SetOfSeq DEF Lists, Split
      <4> QED
        BY <1>7, <4>1
    <3>2. IsChain(next, n, f)
      BY <1>2 DEF Lists
    <3>3. IsChain(next', next[n], g)
      BY <1>1, <1>2, <3>1, <3>2, UnlinkFront
    <3> QED
      BY <1>4, <3>3
  <2>5. used_nodes_count' = Len(r)
    <3>1. Len(r) = Len(q) + 1
      BY <1>1, <1>3, <2>2, InsertAtProperties
    <3> QED
      BY <1>4, <3>1 DEF Lists
  <2>6. Lists(r, g)'
    BY <1>7, <2>2, <2>3, <2>4, <2>5 DEF Lists
  <2>7. LinksInv'
    BY <1>4, <1>5, <1>7, <2>6 DEF LinksInv, FieldsOK
  <2>8. Entries' = EntriesOf(r, storage')
    BY <2>6, NextListsMean
  <2>9. List!PutIn(Entries, n, k)
    <3>1. \E j \in 1 .. Len(Entries) + 1 :
             /\ List!IsInsertionPoint(List!KeysOf(Entries), k, j)
             /\ Entries' = InsertAt(Entries, j, [node |-> n, key |-> k])
      <4>1. storage \in [Node -> Key]
        BY DEF FieldsOK
      <4>2. \E j \in 1 .. Len(EntriesOf(q, storage)) + 1 :
              /\ List!IsInsertionPoint(List!KeysOf(EntriesOf(q, storage)), storage'[n], j)
              /\ EntriesOf(InsertAt(q, i, n), storage') =
                   InsertAt(EntriesOf(q, storage), j, [node |-> n, key |-> storage'[n]])
        BY <1>1, <1>3, <1>5, <2>1, <4>1, PutInEntries
      <4> QED
        BY <1>1, <1>5, <2>8, <4>2
    <3> QED
      BY <3>1, ListUsesThem DEF List!PutIn
  <2>10. n \notin ToSet(List!NodesOf(Entries))
    <3>1. /\ Len(Entries) = Len(q)
          /\ \A j \in 1 .. Len(q) : Entries[j] = [node |-> q[j], key |-> storage[q[j]]]
      BY <1>1, EntriesType DEF FieldsOK
    <3>2. List!NodesOf(Entries) = q
      <4>1. List!NodesOf(Entries) = [j \in 1 .. Len(q) |-> q[j]]
        <5>1. List!NodesOf(Entries) = [j \in 1 .. Len(q) |-> Entries[j].node]
          BY <3>1 DEF List!NodesOf
        <5>2. ASSUME NEW j \in 1 .. Len(q)
              PROVE  Entries[j].node = q[j]
          <6>1. Entries[j] = [node |-> q[j], key |-> storage[q[j]]]
            BY <3>1
          <6> QED
            BY <6>1
        <5> QED
          BY <5>1, <5>2
      <4>2. q = [j \in 1 .. Len(q) |-> q[j]]
        BY <1>1
      <4> QED
        BY <4>1, <4>2
    <3> QED
      BY <1>3, <3>2
  <2>11. List!Insert(n, k)
    BY <2>9, <2>10, ListUsesThem DEF List!Insert
  <2> QED
    BY <1>3, <2>7, <2>11 DEF Moves, List!Next
<1>8. taken \in [Node -> Node \cup {NULL}] /\ taken[n] = NULL /\ \A m \in Node \ {n} : taken[m] = next[m]
  BY <1>3 DEF FieldsOK
<1>9. /\ Len(Keys(q, storage')) = Len(q) /\ Len(q) \in Nat
      /\ \A j \in 1 .. Len(q) : Keys(q, storage')[j] = storage[q[j]] /\ storage[q[j]] \in Int
      /\ k \in Int
  BY <1>1, <1>6, EntriesType, Constants, SMTT(60) DEF FieldsOK
<1>10. CASE head = NULL \/ k < storage[head]
  <2>1. head' = n /\ next' = [taken EXCEPT ![n] = head]
    <3>1. CASE head = NULL
      <4>1. head' = n /\ next' = taken
        BY <1>2, <3>1 DEF Push
      <4>2. [taken EXCEPT ![n] = head] = taken
        BY <1>3, <1>8, <3>1
      <4> QED
        BY <4>1, <4>2
    <3>2. CASE head # NULL
      BY <1>2, <1>10, <3>2 DEF Push
    <3> QED
      BY <3>1, <3>2
  <2> HIDE DEF taken
  <2>2. head \in Node \cup {NULL}
    BY ListsMean
  <2>3. /\ next' \in [Node -> Node \cup {NULL}] /\ next'[n] = head
        /\ \A m \in Node \ {n} : next'[m] = next[m]
    BY <1>3, <1>8, <2>1, <2>2
  <2>4. IsChain(next', head', InsertAt(q, 1, n))
    <3>1. \A m \in ToSet(q) : next'[m] = next[m]
      BY <1>1, <1>3, <2>3, SetOfSeq
    <3>2. IsChain(next', n, InsertAt(q, 1, n))
      BY <1>1, <1>3, <2>3, <3>1, LinkInFront DEF Lists
    <3> QED
      BY <2>1, <3>2
  <2>5. IsInsertionPoint(Keys(q, storage'), k, 1)
    <3>1. ASSUME NEW j \in 1 .. Len(q)
          PROVE  ~(storage[q[j]] <= k)
      <4>1. q # <<>> /\ head = q[1] /\ head # NULL /\ 1 \in 1 .. Len(q)
        BY <1>9 DEF Lists, IsChain
      <4>2. k < storage[q[1]]
        BY <1>10, <4>1
      <4>3. storage[q[1]] <= storage[q[j]]
        <5>1. CASE j = 1
          BY <1>9, <5>1
        <5>2. CASE j # 1
          BY <1>6, <1>9, <4>1, <5>2 DEF IsOrdered
        <5> QED
          BY <5>1, <5>2
      <4> QED
        BY <1>9, <4>1, <4>2, <4>3
    <3>2. \A j \in 1 .. Len(q) : ~(j < 1)
      OBVIOUS
    <3> QED
      BY <1>3, <1>9, <3>1, <3>2 DEF IsInsertionPoint
  <2> QED
    BY <1>3, <1>7, <2>1, <2>3, <2>4, <2>5
<1>11. CASE head # NULL /\ ~(k < storage[head])
  <2>1. head' = head /\ next' = insert_after(taken, storage', head, n)
    BY <1>2, <1>4, <1>11 DEF Push
  <2> HIDE DEF taken
  <2>2. IsChain(taken, head, q)
    <3>1. \A m \in ToSet(q) : taken[m] = next[m]
      BY <1>1, <1>3, <1>8, SetOfSeq
    <3> QED
      BY <1>1, <3>1, ChainStays DEF Lists
  <2>3. q # <<>> /\ head = q[1] /\ head \in ToSet(q) /\ head \in Node
    <3>1. q # <<>> /\ head = q[1]
      BY <1>11 DEF Lists, IsChain
    <3> QED
      BY <1>1, <3>1, SetOfSeq
  <2>4. ~(storage'[n] < storage'[head])
    BY <1>5, <1>11, <2>3
  <2>5. PICK i \in 1 .. Len(q) :
           /\ next' = [taken EXCEPT ![n] = taken[q[i]], ![q[i]] = n]
           /\ IsInsertionPoint(Keys(q, storage'), storage'[n], i + 1)
    <3>1. \E i \in 1 .. Len(q) :
            /\ insert_after(taken, storage', head, n) = [taken EXCEPT ![n] = taken[q[i]], ![q[i]] = n]
            /\ IsInsertionPoint(Keys(q, storage'), storage'[n], i + 1)
      <4>1. /\ q \in Nodes /\ q # <<>> /\ n \in Node /\ storage' \in [Node -> Key]
            /\ IsOrdered(Keys(q, storage'))
        BY <1>1, <1>3, <1>5, <1>6, <2>3
      <4> QED
        BY <2>2, <2>4, <4>1, PlaceIsFound
    <3> QED
      BY <2>1, <3>1
  <2>6. q[i] \in ToSet(q) /\ q[i] \in Node /\ q[i] # n
    BY <1>1, <1>3, SetOfSeq
  <2>7. /\ next' \in [Node -> Node \cup {NULL}] /\ next'[n] = taken[q[i]] /\ next'[q[i]] = n
        /\ \A m \in Node \ {n, q[i]} : next'[m] = taken[m]
    BY <1>3, <1>8, <2>5, <2>6
  <2>8. IsChain(next', head, InsertAt(q, i + 1, n))
    <3>1. \A m \in ToSet(q) \ {q[i]} : next'[m] = taken[m]
      BY <1>1, <1>3, <2>7, SetOfSeq
    <3> QED
      BY <1>1, <1>3, <2>2, <2>7, <3>1, LinkInBehind
  <2>9. \A m \in Node \ (ToSet(q) \cup {n}) : next'[m] = next[m]
    BY <1>8, <2>6, <2>7
  <2> QED
    BY <1>5, <1>7, <2>1, <2>3, <2>5, <2>7, <2>8, <2>9
<1> QED
  BY <1>10, <1>11

(* The head leaves the queue for the front of the free list.               *)
LEMMA ReleaseStep ==
  ASSUME FieldsOK, NEW q, NEW f, Lists(q, f), head # NULL, ReleaseHead, UNCHANGED <<storage, spinning>>
  PROVE  Moves
<1> DEFINE n == q[1]
           r == RemoveAt(q, 1)
           g == InsertAt(f, 1, n)
<1>1. /\ q \in Nodes /\ q \in Seq(Node) /\ f \in Seq(Node) /\ NoDuplicates(q) /\ NoDuplicates(f)
      /\ Entries = EntriesOf(q, storage) /\ free_nodes \in Node \cup {NULL}
  BY ListsMean
<1>2. q # <<>> /\ head = n /\ 1 \in 1 .. Len(q) /\ n \in Node /\ n \in ToSet(q)
  <2>1. q # <<>> /\ head = n
    BY DEF Lists, IsChain
  <2>2. 1 \in 1 .. Len(q)
    BY <1>1, <2>1
  <2> QED
    BY <1>1, <2>1, <2>2, SetOfSeq
<1>3. Split(r, g)
  BY <1>2, MoveOut DEF Lists
<1> HIDE DEF n
<1>4. /\ head' = next[n] /\ next' = [next EXCEPT ![n] = free_nodes] /\ free_nodes' = n
      /\ used_nodes_count' = used_nodes_count - 1
  BY <1>2 DEF ReleaseHead
<1>5. /\ next' \in [Node -> Node \cup {NULL}] /\ next'[n] = free_nodes
      /\ \A m \in Node \ {n} : next'[m] = next[m]
  BY <1>1, <1>2, <1>4 DEF FieldsOK
<1>6. IsChain(next', head', r)
  <2>1. \A m \in ToSet(q) \ {n} : next'[m] = next[m]
    BY <1>1, <1>5, SetOfSeq
  <2>2. IsChain(next, n, q)
    BY <1>2 DEF Lists
  <2> QED
    BY <1>1, <1>2, <1>4, <2>1, <2>2, UnlinkFront
<1>7. IsChain(next', free_nodes', g)
  <2>1. \A m \in ToSet(f) : next'[m] = next[m]
    <3>1. n \notin ToSet(f)
      BY <1>2 DEF Lists, Split
    <3> QED
      BY <1>1, <1>5, <3>1, SetOfSeq
  <2>2. IsChain(next, free_nodes, f)
    BY DEF Lists
  <2> QED
    BY <1>1, <1>2, <1>4, <1>5, <2>1, <2>2, LinkInFront
<1>8. used_nodes_count' = Len(r)
  <2>1. Len(r) = Len(q) - 1
    BY <1>1, <1>2, RemoveAtProperties
  <2> QED
    BY <1>4, <2>1 DEF Lists
<1>9. IsOrdered(Keys(r, storage'))
  BY <1>1, <1>2, OrderedOut DEF Lists, FieldsOK
<1>10. Lists(r, g)'
  BY <1>3, <1>6, <1>7, <1>8, <1>9 DEF Lists
<1>11. LinksInv'
  BY <1>5, <1>10 DEF LinksInv, FieldsOK
<1>12. Entries' = RemoveAt(Entries, 1)
  <2>1. Entries' = EntriesOf(r, storage')
    BY <1>10, NextListsMean
  <2>2. EntriesOf(r, storage) = RemoveAt(EntriesOf(q, storage), 1)
    BY <1>1, <1>2, EntriesOut DEF FieldsOK
  <2> QED
    BY <1>1, <2>1, <2>2
<1>13. 1 \in DOMAIN Entries /\ Entries[1].node = n
  <2>1. /\ EntriesOf(q, storage) \in Seq([node : Node, key : Key]) /\ Len(EntriesOf(q, storage)) = Len(q)
        /\ \A j \in 1 .. Len(q) : EntriesOf(q, storage)[j] = [node |-> q[j], key |-> storage[q[j]]]
    BY <1>1, EntriesType DEF FieldsOK
  <2>2. Entries[1] = [node |-> q[1], key |-> storage[q[1]]]
    BY <1>1, <1>2, <2>1
  <2>3. Entries[1].node = n
    BY <2>2 DEF n
  <2> QED
    BY <1>1, <1>2, <2>1, <2>3
<1>14. List!TakeOut(n)
  BY <1>12, <1>13, ListUsesThem DEF List!TakeOut
<1> QED
  BY <1>2, <1>11, <1>14 DEF Moves, List!Next

LEMMA EraseStep ==
  ASSUME FieldsOK, NEW q, NEW f, Lists(q, f), NEW n \in Listed, Erase(n)
  PROVE  Moves
<1>1. /\ q \in Nodes /\ q \in Seq(Node) /\ f \in Seq(Node) /\ NoDuplicates(q) /\ NoDuplicates(f)
      /\ Entries = EntriesOf(q, storage) /\ free_nodes \in Node \cup {NULL} /\ Chain(head) = q
  BY ListsMean
<1>2. n \in Node /\ n \in ToSet(q)
  BY <1>1, SetOfSeq DEF Listed
<1>3. CASE head = n /\ ReleaseHead /\ UNCHANGED spinning
  <2>1. head # NULL /\ UNCHANGED <<storage, spinning>>
    BY <1>3 DEF Erase
  <2> QED
    BY <1>3, <2>1, ReleaseStep
<1>4. CASE spinning' = TRUE /\ UNCHANGED links
  <2>1. UNCHANGED <<head, next, free_nodes, used_nodes_count, storage>>
    BY <1>4 DEF Erase, links
  <2>2. Lists(q, f)' /\ FieldsOK'
    BY <1>4, <2>1 DEF Lists, FieldsOK
  <2>3. Entries' = EntriesOf(q, storage')
    BY <2>2, NextListsMean
  <2> QED
    BY <1>1, <2>1, <2>2, <2>3 DEF Moves, LinksInv
<1>5. CASE /\ head # n
           /\ next[head] = n
           /\ next' = [next EXCEPT ![head] = next[n], ![n] = free_nodes]
           /\ free_nodes' = n
           /\ used_nodes_count' = used_nodes_count - 1
           /\ UNCHANGED <<head, spinning>>
  <2> DEFINE r == RemoveAt(q, 2)
             g == InsertAt(f, 1, n)
  <2>1. head # NULL /\ UNCHANGED storage
    BY DEF Erase
  <2>2. q # <<>> /\ head = q[1] /\ 1 \in 1 .. Len(q) /\ head \in Node /\ head \in ToSet(q)
    <3>1. q # <<>> /\ head = q[1]
      BY <2>1 DEF Lists, IsChain
    <3>2. 1 \in 1 .. Len(q)
      BY <1>1, <3>1
    <3> QED
      BY <1>1, <3>1, <3>2, SetOfSeq
  <2>3. Len(q) >= 2 /\ 2 \in 1 .. Len(q) /\ q[2] = n
    <3>1. next[q[1]] = IF 1 = Len(q) THEN NULL ELSE q[1 + 1]
      BY <2>2 DEF Lists, IsChain
    <3>2. 1 # Len(q) /\ q[2] = n
      BY <1>2, <1>5, <2>2, <3>1, Constants
    <3> QED
      <4>1. \A m \in Nat : 1 \in 1 .. m /\ m # 1 => m >= 2 /\ 2 \in 1 .. m
        OBVIOUS
      <4>2. Len(q) \in Nat
        BY <1>1
      <4> QED
        BY <2>2, <3>2, <4>1, <4>2
  <2>4. Split(r, g)
    <3>1. Split(RemoveAt(q, 2), InsertAt(f, 1, q[2]))
      BY <2>3, MoveOut DEF Lists
    <3> QED
      BY <2>3, <3>1
  <2>5. /\ next' \in [Node -> Node \cup {NULL}] /\ next'[n] = free_nodes /\ next'[head] = next[n]
        /\ \A m \in Node \ {n, head} : next'[m] = next[m]
    BY <1>1, <1>2, <1>5, <2>2 DEF FieldsOK
  <2>6. IsChain(next', head', r)
    <3>1. \A m \in ToSet(q) \ {head, n} : next'[m] = next[m]
      BY <1>1, <2>5, SetOfSeq
    <3>2. IsChain(next, head, q)
      BY DEF Lists
    <3>3. IsChain(next', head, r)
      BY <1>1, <2>3, <2>5, <3>1, <3>2, UnlinkSecond
    <3> QED
      BY <1>5, <3>3
  <2>7. IsChain(next', free_nodes', g)
    <3>1. \A m \in ToSet(f) : next'[m] = next[m]
      <4>1. n \notin ToSet(f) /\ head \notin ToSet(f)
        BY <1>2, <2>2 DEF Lists, Split
      <4> QED
        BY <1>1, <2>5, <4>1, SetOfSeq
    <3>2. IsChain(next, free_nodes, f)
      BY DEF Lists
    <3>3. IsChain(next', n, g)
      BY <1>1, <1>2, <2>5, <3>1, <3>2, LinkInFront
    <3> QED
      BY <1>5, <3>3
  <2>8. used_nodes_count' = Len(r)
    <3>1. Len(r) = Len(q) - 1
      BY <1>1, <2>3, RemoveAtProperties
    <3> QED
      BY <1>5, <3>1 DEF Lists
  <2>9. IsOrdered(Keys(r, storage'))
    BY <1>1, <2>1, <2>3, OrderedOut DEF Lists, FieldsOK
  <2>10. Lists(r, g)'
    BY <2>4, <2>6, <2>7, <2>8, <2>9 DEF Lists
  <2>11. LinksInv'
    BY <1>5, <2>1, <2>5, <2>10 DEF LinksInv, FieldsOK
  <2>12. Entries' = RemoveAt(Entries, 2)
    <3>1. Entries' = EntriesOf(r, storage')
      BY <2>10, NextListsMean
    <3>2. EntriesOf(r, storage) = RemoveAt(EntriesOf(q, storage), 2)
      BY <1>1, <2>3, EntriesOut DEF FieldsOK
    <3> QED
      BY <1>1, <2>1, <3>1, <3>2
  <2>13. 2 \in DOMAIN Entries /\ Entries[2].node = n
    <3>1. /\ EntriesOf(q, storage) \in Seq([node : Node, key : Key])
          /\ Len(EntriesOf(q, storage)) = Len(q)
          /\ \A j \in 1 .. Len(q) : EntriesOf(q, storage)[j] = [node |-> q[j], key |-> storage[q[j]]]
      BY <1>1, EntriesType DEF FieldsOK
    <3>2. Entries[2] = [node |-> q[2], key |-> storage[q[2]]]
      BY <1>1, <2>3, <3>1
    <3>3. Entries[2].node = n
      BY <2>3, <3>2
    <3> QED
      BY <1>1, <2>3, <3>1, <3>3
  <2>14. List!TakeOut(n)
    BY <2>12, <2>13, ListUsesThem DEF List!TakeOut
  <2> QED
    BY <1>2, <2>11, <2>14 DEF Moves, List!Next
<1> QED
  BY <1>3, <1>4, <1>5 DEF Erase

LEMMA PutBack ==
  ASSUME NEW s \in Seq(Node), s # <<>>
  PROVE  /\ 1 \in 1 .. Len(s) /\ s[1] \in Node /\ RemoveAt(s, 1) \in Seq(Node)
         /\ InsertAt(RemoveAt(s, 1), 1, s[1]) = s
<1> DEFINE r == RemoveAt(s, 1)
           t == InsertAt(r, 1, s[1])
<1>1. 1 \in 1 .. Len(s) /\ s[1] \in Node /\ Len(s) \in Nat
  OBVIOUS
<1>2. /\ r \in Seq(Node) /\ Len(r) = Len(s) - 1
      /\ \A j \in 1 .. Len(s) - 1 : r[j] = IF j < 1 THEN s[j] ELSE s[j + 1]
  BY <1>1, RemoveAtProperties
<1> HIDE DEF r
<1>3. /\ t \in Seq(Node) /\ Len(t) = Len(r) + 1
      /\ \A j \in 1 .. Len(r) + 1 : t[j] = IF j < 1 THEN r[j] ELSE IF j = 1 THEN s[1] ELSE r[j - 1]
  <2>1. r \in Seq(Node) /\ 1 \in 1 .. Len(r) + 1
    BY <1>1, <1>2
  <2> QED
    <3>1. \A e \in Node :
            /\ InsertAt(r, 1, e) \in Seq(Node) /\ Len(InsertAt(r, 1, e)) = Len(r) + 1
            /\ \A j \in 1 .. Len(r) + 1 :
                 InsertAt(r, 1, e)[j] = IF j < 1 THEN r[j] ELSE IF j = 1 THEN e ELSE r[j - 1]
      BY <2>1, InsertAtProperties
    <3> QED
      BY <1>1, <3>1
<1> HIDE DEF t
<1>4. ASSUME NEW j \in 1 .. Len(s)
      PROVE  t[j] = s[j]
  <2>1. CASE j = 1
    BY <1>1, <1>2, <1>3, <2>1
  <2>2. CASE j # 1
    <3>1. j - 1 \in 1 .. Len(s) - 1 /\ ~(j < 1) /\ ~(j - 1 < 1) /\ (j - 1) + 1 = j /\ j \in 1 .. Len(r) + 1
      BY <1>1, <1>2, <2>2
    <3>2. t[j] = r[j - 1]
      BY <1>3, <2>2, <3>1
    <3>3. r[j - 1] = s[j]
      BY <1>2, <3>1
    <3> QED
      BY <3>2, <3>3
  <2> QED
    BY <2>1, <2>2
<1>5. t = s
  BY <1>1, <1>2, <1>3, <1>4, SeqEqual
<1> QED
  BY <1>1, <1>2, <1>5 DEF t, r

LEMMA UpdateHeadStep ==
  ASSUME FieldsOK, NEW q, NEW f, Lists(q, f), NEW k \in Key, UpdateHead(k)
  PROVE  Moves
<1> DEFINE n == q[1]
           r == RemoveAt(q, 1)
<1>1. /\ q \in Nodes /\ q \in Seq(Node) /\ f \in Seq(Node) /\ NoDuplicates(q) /\ NoDuplicates(f)
      /\ Entries = EntriesOf(q, storage)
  BY ListsMean
<1>2. /\ q # <<>> /\ head = n /\ head # NULL /\ 1 \in 1 .. Len(q) /\ n \in Node /\ n \in ToSet(q)
  <2>1. q # <<>> /\ head = n /\ head # NULL
    BY DEF UpdateHead, Lists, IsChain
  <2>2. 1 \in 1 .. Len(q)
    BY <1>1, <2>1
  <2> QED
    BY <1>1, <2>1, <2>2, SetOfSeq
<1>3. /\ r \in Seq(Node) /\ Len(r) = Len(q) - 1 /\ Len(q) \in Nat
      /\ \A j \in 1 .. Len(q) - 1 : r[j] = IF j < 1 THEN q[j] ELSE q[j + 1]
      /\ ToSet(r) = ToSet(q) \ {n} /\ NoDuplicates(r)
  <2>1. /\ r \in Seq(Node) /\ Len(r) = Len(q) - 1
        /\ \A j \in 1 .. Len(q) - 1 : r[j] = IF j < 1 THEN q[j] ELSE q[j + 1]
    BY <1>1, <1>2, RemoveAtProperties
  <2>2. ToSet(r) = ToSet(q) \ {n} /\ NoDuplicates(r)
    BY <1>1, <1>2, RemoveSet
  <2> QED
    BY <1>1, <2>1, <2>2
<1>4. IsChain(next, next[n], r)
  <2>1. IsChain(next, n, q)
    BY <1>2 DEF Lists
  <2> QED
    BY <1>1, <1>2, <2>1, UnlinkFront
<1>5. InsertAt(r, 1, n) = q
  BY <1>1, <1>2, PutBack
<1>6. ASSUME NEW i \in 1 .. Len(r) + 1
      PROVE  Split(InsertAt(r, i, n), f)
  BY <1>2, <1>6, MoveWithin DEF Lists
<1>7. EntriesOf(r, storage) = RemoveAt(Entries, 1)
  BY <1>1, <1>2, EntriesOut DEF FieldsOK
<1>8. IsOrdered(Keys(r, storage))
  BY <1>1, <1>2, OrderedOut DEF Lists, FieldsOK
<1>9. 1 \in DOMAIN Entries /\ Entries[1].node = n
  <2>1. /\ EntriesOf(q, storage) \in Seq([node : Node, key : Key]) /\ Len(EntriesOf(q, storage)) = Len(q)
        /\ \A j \in 1 .. Len(q) : EntriesOf(q, storage)[j] = [node |-> q[j], key |-> storage[q[j]]]
    BY <1>1, EntriesType DEF FieldsOK
  <2>2. Entries[1] = [node |-> q[1], key |-> storage[q[1]]]
    BY <1>1, <1>2, <2>1
  <2>3. Entries[1].node = n
    BY <2>2
  <2> QED
    BY <1>1, <1>2, <2>1, <2>3
<1> HIDE DEF n, r
<1>10. /\ storage' = [storage EXCEPT ![n] = k]
       /\ UNCHANGED <<free_nodes, used_nodes_count, spinning>>
  BY <1>2 DEF UpdateHead
<1>11. /\ storage \in [Node -> Key] /\ storage' \in [Node -> Key] /\ storage'[n] = k
       /\ \A m \in ToSet(r) : storage'[m] = storage[m]
  BY <1>2, <1>3, <1>10, SetOfSeq DEF FieldsOK
<1>12. Keys(r, storage') = Keys(r, storage) /\ IsOrdered(Keys(r, storage'))
  BY <1>3, <1>8, <1>11, KeysStay
<1>13. ASSUME NEW i, IsInsertionPoint(Keys(r, storage'), k, i),
              next' \in [Node -> Node \cup {NULL}], \A m \in Node \ ToSet(q) : next'[m] = next[m],
              IsChain(next', head', InsertAt(r, i, n))
       PROVE  Moves
  <2> DEFINE s == InsertAt(r, i, n)
  <2>1. IsInsertionPoint(Keys(r, storage'), storage'[n], i)
    BY <1>11, <1>13
  <2>2. i \in 1 .. Len(r) + 1 /\ IsOrdered(Keys(s, storage'))
    BY <1>2, <1>3, <1>11, <1>12, <2>1, OrderedIn
  <2>3. Split(s, f)
    BY <1>6, <2>2
  <2>4. IsChain(next', free_nodes', f)
    <3>1. \A m \in ToSet(f) : next'[m] = next[m]
      <4>1. \A m \in ToSet(f) : m \in Node /\ m \notin ToSet(q)
        BY <1>1, SetOfSeq DEF Lists, Split
      <4> QED
        BY <1>13, <4>1
    <3>2. IsChain(next, free_nodes, f)
      BY DEF Lists
    <3>3. IsChain(next', free_nodes, f)
      BY <1>1, <3>1, <3>2, ChainStays
    <3> QED
      BY <1>10, <3>3
  <2>5. used_nodes_count' = Len(s)
    <3>1. Len(s) = Len(r) + 1
      BY <1>2, <1>3, <2>2, InsertAtProperties
    <3> QED
      BY <1>3, <1>10, <3>1 DEF Lists
  <2>6. Lists(s, f)'
    BY <1>13, <2>2, <2>3, <2>4, <2>5 DEF Lists
  <2>7. LinksInv'
    BY <1>10, <1>11, <1>13, <2>6 DEF LinksInv, FieldsOK
  <2>8. Entries' = EntriesOf(s, storage')
    BY <2>6, NextListsMean
  <2>9. List!PutIn(RemoveAt(Entries, 1), n, k)
    <3>1. \E j \in 1 .. Len(RemoveAt(Entries, 1)) + 1 :
             /\ List!IsInsertionPoint(List!KeysOf(RemoveAt(Entries, 1)), k, j)
             /\ Entries' = InsertAt(RemoveAt(Entries, 1), j, [node |-> n, key |-> k])
      <4>1. \E j \in 1 .. Len(EntriesOf(r, storage)) + 1 :
              /\ List!IsInsertionPoint(List!KeysOf(EntriesOf(r, storage)), storage'[n], j)
              /\ EntriesOf(InsertAt(r, i, n), storage') =
                   InsertAt(EntriesOf(r, storage), j, [node |-> n, key |-> storage'[n]])
        BY <1>2, <1>3, <1>11, <2>1, PutInEntries
      <4> QED
        BY <1>7, <1>11, <2>8, <4>1
    <3> QED
      BY <3>1, ListUsesThem DEF List!PutIn
  <2>10. List!Rekey(n, k)
    BY <1>9, <2>9, ListUsesThem DEF List!Rekey
  <2> QED
    BY <1>2, <2>7, <2>10 DEF Moves, List!Next
<1>14. /\ Len(Keys(r, storage')) = Len(r)
       /\ \A j \in 1 .. Len(r) : Keys(r, storage')[j] = storage[r[j]] /\ storage[r[j]] \in Int
       /\ k \in Int /\ Len(r) \in Nat
  <2>1. r \in Seq(Node) /\ Len(r) \in Nat
    BY <1>3
  <2>2. /\ Len(Keys(r, storage)) = Len(r)
        /\ \A j \in 1 .. Len(r) : Keys(r, storage)[j] = storage[r[j]]
    BY <1>11, <2>1, EntriesType
  <2>3. k \in Int /\ \A j \in 1 .. Len(r) : storage[r[j]] \in Int
    <3>1. \A j \in 1 .. Len(r) : r[j] \in Node
      BY <2>1
    <3>2. \A j \in 1 .. Len(r) : storage[r[j]] \in Key
      BY <1>11, <3>1
    <3> QED
      BY <3>2, Constants
  <2> QED
    BY <1>12, <2>1, <2>2, <2>3
<1>15. r # <<>> => next[n] = r[1] /\ r[1] \in ToSet(r) /\ next[n] # NULL /\ 1 \in 1 .. Len(r)
  <2>1. r # <<>> => 1 \in 1 .. Len(r)
    BY <1>3
  <2> QED
    BY <1>3, <1>4, <2>1, SetOfSeq DEF IsChain
<1>16. CASE BelowNext(head, k)
  <2>1. head' = head /\ next' = next
    BY <1>16 DEF UpdateHead
  <2>2. IsChain(next', head', InsertAt(r, 1, n))
    BY <1>5, <2>1 DEF Lists
  <2>3. IsInsertionPoint(Keys(r, storage'), k, 1)
    <3>1. ASSUME NEW j \in 1 .. Len(r)
          PROVE  ~(storage[r[j]] <= k)
      <4>1. r # <<>> /\ 1 \in 1 .. Len(r) /\ next[n] = r[1] /\ next[n] # NULL /\ r[1] \in ToSet(r)
        <5>1. Len(r) > 0
          BY <1>14
        <5>2. r # <<>>
          BY <5>1
        <5> QED
          BY <1>15, <5>2
      <4>3. k < storage[r[1]]
        BY <1>2, <1>16, <4>1 DEF BelowNext
      <4>4. storage[r[1]] <= storage[r[j]]
        <5>1. CASE j = 1
          BY <1>14, <5>1
        <5>2. CASE j # 1
          BY <1>12, <1>14, <4>1, <5>2 DEF IsOrdered
        <5> QED
          BY <5>1, <5>2
      <4> QED
        BY <1>14, <4>1, <4>3, <4>4
    <3>2. \A j \in 1 .. Len(r) : ~(j < 1)
      OBVIOUS
    <3>3. 1 \in 1 .. Len(r) + 1
      BY <1>14
    <3> QED
      BY <1>14, <3>1, <3>2, <3>3 DEF IsInsertionPoint
  <2> QED
    BY <1>13, <2>1, <2>2, <2>3 DEF FieldsOK
<1>17. CASE ~BelowNext(head, k)
  <2>1. head' = next[n] /\ next' = insert_after(next, storage', next[n], n)
    BY <1>2, <1>10, <1>17 DEF UpdateHead
  <2>2. r # <<>> /\ next[n] = r[1] /\ r[1] \in ToSet(r)
    <3>1. next[n] # NULL
      BY <1>2, <1>17 DEF BelowNext
    <3>2. r # <<>>
      BY <1>4, <3>1 DEF IsChain
    <3> QED
      BY <1>15, <3>2
  <2>3. r \in Nodes
    <3>1. Len(r) <= Capacity
      <4>1. Len(q) <= Capacity
        BY <1>1, NodesAre
      <4> QED
        BY <1>3, <4>1, Constants
    <3> QED
      BY <1>3, <3>1, NodesAre
  <2>4. ~(storage'[n] < storage'[next[n]])
    <3>1. ~(k < storage[next[n]])
      BY <1>2, <1>17, <1>11, <2>2 DEF BelowNext
    <3> QED
      BY <1>11, <2>2, <3>1
  <2>5. PICK i \in 1 .. Len(r) :
           /\ next' = [next EXCEPT ![n] = next[r[i]], ![r[i]] = n]
           /\ IsInsertionPoint(Keys(r, storage'), storage'[n], i + 1)
    <3>1. \E i \in 1 .. Len(r) :
            /\ insert_after(next, storage', next[n], n) = [next EXCEPT ![n] = next[r[i]], ![r[i]] = n]
            /\ IsInsertionPoint(Keys(r, storage'), storage'[n], i + 1)
      <4>1. n \in Node /\ r # <<>> /\ storage' \in [Node -> Key] /\ IsOrdered(Keys(r, storage'))
        BY <1>2, <1>11, <1>12, <2>2
      <4> QED
        BY <1>4, <2>3, <2>4, <4>1, PlaceIsFound
    <3> QED
      BY <2>1, <3>1
  <2>6. r[i] \in ToSet(r) /\ r[i] \in Node /\ r[i] # n
    BY <1>3, SetOfSeq
  <2>7. /\ next' \in [Node -> Node \cup {NULL}] /\ next'[n] = next[r[i]] /\ next'[r[i]] = n
        /\ \A m \in Node \ {n, r[i]} : next'[m] = next[m]
    BY <1>2, <2>5, <2>6 DEF FieldsOK
  <2>8. IsChain(next', head', InsertAt(r, i + 1, n))
    <3>1. \A m \in ToSet(r) \ {r[i]} : next'[m] = next[m]
      BY <1>3, <2>7, SetOfSeq
    <3>2. IsChain(next', next[n], InsertAt(r, i + 1, n))
      BY <1>2, <1>3, <1>4, <2>7, <3>1, LinkInBehind, ZenonT(60)
    <3> QED
      BY <2>1, <3>2
  <2>9. \A m \in Node \ ToSet(q) : next'[m] = next[m]
    BY <1>2, <1>3, <2>6, <2>7
  <2> QED
    BY <1>11, <1>13, <2>5, <2>7, <2>8, <2>9
<1> QED
  BY <1>16, <1>17

LEMMA ClearStep ==
  ASSUME FieldsOK, NEW q, NEW f, Lists(q, f), Clear
  PROVE  Moves
<1> DEFINE m == Len(q)
           r == Reverse(q) \o f
           before(n) == CHOOSE i \in DOMAIN q : q[i] = n
<1>1. /\ q \in Nodes /\ q \in Seq(Node) /\ f \in Seq(Node) /\ NoDuplicates(q)
      /\ Chain(head) = q /\ Listed = ToSet(q) /\ free_nodes \in Node \cup {NULL}
      /\ m \in Nat /\ Len(f) \in Nat /\ DOMAIN q = 1 .. m
  <2>1. /\ q \in Nodes /\ q \in Seq(Node) /\ f \in Seq(Node) /\ NoDuplicates(q)
        /\ Chain(head) = q /\ free_nodes \in Node \cup {NULL}
    BY ListsMean
  <2> QED
    BY <2>1 DEF Listed
<1>2. /\ head' = NULL /\ used_nodes_count' = 0 /\ UNCHANGED <<storage, spinning>>
      /\ next' = [n \in Node |->
                    IF n \notin ToSet(q) THEN next[n]
                    ELSE IF before(n) = 1 THEN free_nodes
                    ELSE q[before(n) - 1]]
      /\ free_nodes' = IF q = <<>> THEN free_nodes ELSE Last(q)
  BY <1>1 DEF Clear
<1>3. \A i \in 1 .. m : before(q[i]) = i
  BY <1>1 DEF NoDuplicates
<1> HIDE DEF before
<1>4. ASSUME NEW i \in 1 .. m
      PROVE  next'[q[i]] = IF i = 1 THEN free_nodes ELSE q[i - 1]
  <2>1. q[i] \in Node /\ q[i] \in ToSet(q)
    BY <1>1, SetOfSeq
  <2>2. before(q[i]) = i
    BY <1>3
  <2> QED
    BY <1>2, <2>1, <2>2
<1>5. ASSUME NEW i \in 1 .. Len(f)
      PROVE  next'[f[i]] = IF i = Len(f) THEN NULL ELSE f[i + 1]
  <2>1. f[i] \in Node /\ f[i] \notin ToSet(q)
    BY <1>1, SetOfSeq DEF Lists, Split
  <2>2. next'[f[i]] = next[f[i]]
    BY <1>2, <2>1
  <2> QED
    BY <2>2 DEF Lists, IsChain
<1>6. next' \in [Node -> Node \cup {NULL}]
  <2>1. ASSUME NEW n \in Node
        PROVE  next'[n] \in Node \cup {NULL}
    <3>1. CASE n \notin ToSet(q)
      BY <1>2, <3>1 DEF FieldsOK
    <3>2. CASE n \in ToSet(q)
      <4>1. PICK i \in 1 .. m : q[i] = n
        BY <1>1, <3>2, SetOfSeq
      <4>2. next'[n] = IF i = 1 THEN free_nodes ELSE q[i - 1]
        BY <1>4, <4>1
      <4>3. i # 1 => i - 1 \in 1 .. m
        BY <1>1
      <4> QED
        BY <1>1, <4>2, <4>3
    <3> QED
      BY <3>1, <3>2
  <2> QED
    BY <1>2, <2>1
<1>7. /\ r \in Seq(Node) /\ Len(r) = m + Len(f)
      /\ \A j \in 1 .. m + Len(f) : r[j] = IF j <= m THEN q[m - j + 1] ELSE f[j - m]
  BY <1>1, TurnedRound
<1>8. Split(<<>>, r)
  BY MoveAll DEF Lists
<1>9. IsChain(next, free_nodes, f)
  BY DEF Lists
<1>10. ASSUME m = 0 PROVE IsChain(next', free_nodes', r)
  <2>1. q = <<>>
    BY <1>1, <1>10
  <2>2. free_nodes' = free_nodes
    BY <1>2, <2>1
  <2>3. r = f
    <3> HIDE DEF r, m
    <3>1. Len(r) = Len(f) /\ \A j \in 1 .. Len(r) : r[j] = f[j]
      BY <1>1, <1>7, <1>10
    <3> QED
      BY <1>1, <1>7, <3>1, SeqEqual
  <2>4. \A n \in ToSet(f) : next'[n] = next[n]
    <3>1. \A n \in ToSet(f) : n \in Node /\ n \notin ToSet(q)
      BY <1>1, SetOfSeq DEF Lists, Split
    <3> QED
      BY <1>2, <3>1
  <2>5. IsChain(next', free_nodes, f)
    BY <1>1, <1>9, <2>4, ChainStays
  <2>6. IsChain(next', free_nodes', r)
    BY <2>2, <2>3, <2>5
  <2> QED
    BY <2>6
<1>11. ASSUME m # 0 PROVE IsChain(next', free_nodes', r)
  <2> HIDE DEF r
  <2>1. q # <<>> /\ m \in 1 .. m /\ m > 0
    BY <1>1, <1>11
  <2>2. free_nodes' = q[m] /\ q[m] \in Node
    BY <1>1, <1>2, <2>1 DEF Last
  <2> HIDE DEF m
  <2>3. r # <<>> /\ r[1] = q[m]
    <3>1. 1 \in 1 .. m + Len(f) /\ 1 <= m /\ m - 1 + 1 = m
      BY <1>1, <2>1
    <3>2. r[1] = q[m]
      BY <1>7, <3>1
    <3>3. Len(r) > 0
      BY <1>1, <1>7, <2>1
    <3> QED
      BY <3>2, <3>3
  <2>4. ASSUME NEW j \in 1 .. Len(r)
        PROVE  next'[r[j]] = IF j = Len(r) THEN NULL ELSE r[j + 1]
    <3>1. j \in 1 .. m + Len(f)
      BY <1>7
    <3>2. CASE j < m
      <4>1. /\ j + 1 \in 1 .. m + Len(f) /\ j + 1 <= m /\ j <= m /\ j # Len(r)
            /\ m - (j + 1) + 1 = m - j /\ m - j + 1 \in 1 .. m /\ m - j + 1 # 1 /\ (m - j + 1) - 1 = m - j
        BY <1>1, <1>7, <3>1, <3>2
      <4>2. r[j] = q[m - j + 1] /\ r[j + 1] = q[m - j]
        BY <1>7, <3>1, <4>1
      <4>3. next'[q[m - j + 1]] = q[m - j]
        BY <1>4, <4>1
      <4> QED
        BY <4>1, <4>2, <4>3
    <3>3. CASE j = m
      <4>1. r[j] = q[1] /\ 1 \in 1 .. m
        <5>1. m - j + 1 = 1 /\ j <= m /\ 1 \in 1 .. m
          BY <1>1, <2>1, <3>3
        <5> QED
          BY <1>7, <3>1, <5>1
      <4>2. next'[r[j]] = free_nodes
        BY <1>4, <4>1
      <4>3. CASE f = <<>>
        <5>1. Len(f) = 0 /\ free_nodes = NULL
          BY <1>9, <4>3 DEF IsChain
        <5> QED
          BY <1>1, <1>7, <3>3, <4>2, <5>1
      <4>4. CASE f # <<>>
        <5>1. Len(f) > 0 /\ free_nodes = f[1]
          BY <1>1, <1>9, <4>4 DEF IsChain
        <5>2. j + 1 \in 1 .. m + Len(f) /\ ~(j + 1 <= m) /\ (j + 1) - m = 1 /\ j # Len(r)
          BY <1>1, <1>7, <3>3, <5>1
        <5>3. r[j + 1] = f[1]
          BY <1>7, <5>2
        <5> QED
          BY <4>2, <5>1, <5>2, <5>3
      <4> QED
        BY <4>3, <4>4
    <3>4. CASE j > m
      <4>1. /\ j - m \in 1 .. Len(f) /\ ~(j <= m) /\ (j = Len(r) <=> j - m = Len(f))
            /\ (j + 1) - m = (j - m) + 1
        BY <1>1, <1>7, <3>1, <3>4
      <4>2. r[j] = f[j - m]
        BY <1>7, <3>1, <4>1
      <4>3. j # Len(r) => r[j + 1] = f[(j - m) + 1]
        <5> SUFFICES ASSUME j # Len(r) PROVE r[j + 1] = f[(j - m) + 1]
          OBVIOUS
        <5>1. j + 1 \in 1 .. m + Len(f) /\ ~(j + 1 <= m)
          BY <1>1, <1>7, <3>1, <3>4
        <5> QED
          BY <1>7, <4>1, <5>1
      <4>4. next'[f[j - m]] = IF j - m = Len(f) THEN NULL ELSE f[(j - m) + 1]
        BY <1>5, <4>1
      <4> QED
        BY <4>1, <4>2, <4>3, <4>4
    <3>5. j < m \/ j = m \/ j > m
      BY <1>1
    <3> QED
      BY <3>2, <3>3, <3>4, <3>5
  <2>5. IsChain(next', free_nodes', r)
    BY <2>2, <2>3, <2>4, Constants DEF IsChain
  <2> QED
    BY <2>5
<1>12. IsChain(next', free_nodes', r)
  BY <1>10, <1>11
<1>13. IsChain(next', head', <<>>) /\ Len(<<>>) = 0 /\ IsOrdered(Keys(<<>>, storage'))
  <2>1. Len(<<>>) = 0 /\ 1 .. Len(<<>>) = {}
    OBVIOUS
  <2>2. IsChain(next', head', <<>>)
    BY <1>2, <2>1 DEF IsChain
  <2>3. Keys(<<>>, storage') = <<>>
    BY DEF Keys
  <2>4. IsOrdered(<<>>)
    BY DEF IsOrdered
  <2> QED
    BY <2>1, <2>2, <2>3, <2>4
<1>14. Lists(<<>>, r)'
  <2> HIDE DEF r
  <2> QED
    BY <1>2, <1>8, <1>12, <1>13 DEF Lists
<1>15. LinksInv'
  BY <1>2, <1>6, <1>14 DEF LinksInv, FieldsOK
<1>16. Entries' = <<>>
  <2>1. Entries' = EntriesOf(<<>>, storage')
    BY <1>14, NextListsMean
  <2>2. EntriesOf(<<>>, storage') = <<>>
    BY DEF EntriesOf
  <2> QED
    BY <2>1, <2>2
<1> QED
  BY <1>15, <1>16 DEF Moves, List!Next, List!Clear

LEMMA Initially == Init => LinksInv /\ Entries = <<>>
<1> SUFFICES ASSUME Init PROVE LinksInv /\ Entries = <<>>
  OBVIOUS
<1> DEFINE f == [i \in 1 .. Capacity |-> i]
<1>1. FieldsOK
  <2>1. (CHOOSE k \in Key : TRUE) \in Key
    BY KeyAssumption
  <2>2. storage \in [Node -> Key]
    BY <2>1 DEF Init
  <2>3. next \in [Node -> Node \cup {NULL}]
    BY Constants DEF Init, Node
  <2> QED
    BY <2>2, <2>3 DEF Init, FieldsOK
<1>2. f \in Seq(Node) /\ Len(f) = Capacity /\ \A i \in 1 .. Capacity : f[i] = i
  <2>1. f \in [1 .. Capacity -> Node]
    BY Constants DEF Node
  <2> QED
    BY <2>1, Constants
<1> HIDE DEF f
<1>3. NoDuplicates(f) /\ ToSet(f) = Node
  <2>1. NoDuplicates(f)
    BY <1>2 DEF NoDuplicates
  <2>2. ToSet(f) = {f[i] : i \in 1 .. Capacity}
    BY <1>2, SetOfSeq
  <2>3. {f[i] : i \in 1 .. Capacity} = 1 .. Capacity
    BY <1>2
  <2> QED
    BY <2>1, <2>2, <2>3 DEF Node
<1>4. <<>> \in Seq(Node) /\ Len(<<>>) = 0 /\ NoDuplicates(<<>>) /\ ToSet(<<>>) = {}
  <2>1. <<>> \in Seq(Node) /\ Len(<<>>) = 0
    OBVIOUS
  <2>2. ToSet(<<>>) = {}
    <3>1. ToSet(<<>>) = {<<>>[i] : i \in 1 .. Len(<<>>)} /\ 1 .. Len(<<>>) = {}
      BY <2>1 DEF ToSet
    <3> QED
      BY <3>1, Zenon
  <2> QED
    BY <2>1, <2>2 DEF NoDuplicates
<1>5. Split(<<>>, f)
  BY <1>2, <1>3, <1>4, Constants DEF Split
<1>6. IsChain(next, head, <<>>)
  BY <1>4 DEF Init, IsChain
<1>7. IsChain(next, free_nodes, f)
  <2>1. f # <<>> /\ free_nodes = 1 /\ f[1] = 1 /\ 1 # NULL
    <3>1. 1 \in 1 .. Capacity /\ Len(f) > 0
      BY <1>2, Constants
    <3>2. f # <<>>
      BY <3>1
    <3> QED
      BY <1>2, <3>1, <3>2 DEF Init, NULL
  <2>2. ASSUME NEW i \in 1 .. Capacity
        PROVE  next[f[i]] = IF i = Capacity THEN NULL ELSE f[i + 1]
    <3>1. next[i] = IF i = Capacity THEN NULL ELSE i + 1
      BY DEF Init, Node
    <3>2. i # Capacity => f[i + 1] = i + 1
      BY <1>2, Constants
    <3> QED
      BY <1>2, <3>1, <3>2
  <2> QED
    BY <1>2, <2>1, <2>2 DEF IsChain
<1>8. IsOrdered(Keys(<<>>, storage))
  <2>1. Keys(<<>>, storage) = <<>>
    BY DEF Keys
  <2>2. IsOrdered(<<>>)
    BY DEF IsOrdered
  <2> QED
    BY <2>1, <2>2
<1>9. Lists(<<>>, f)
  BY <1>4, <1>5, <1>6, <1>7, <1>8 DEF Lists, Init
<1>10. Entries = EntriesOf(<<>>, storage)
  BY <1>1, <1>9, ListsMean
<1>11. EntriesOf(<<>>, storage) = <<>>
  BY DEF EntriesOf
<1> QED
  BY <1>1, <1>9, <1>10, <1>11 DEF LinksInv

LEMMA EveryStep == LinksInv /\ [Next]_vars => [List!Next]_Entries /\ LinksInv'
<1> SUFFICES ASSUME LinksInv, [Next]_vars PROVE Moves
  BY DEF Moves
<1>1. FieldsOK /\ \E q, f : Lists(q, f)
  BY DEF LinksInv
<1>2. PICK q, f : Lists(q, f)
  BY <1>1
<1>3. ASSUME NEW k \in Key, Push(k) PROVE Moves
  BY <1>1, <1>2, <1>3, PushStep
<1>4. ASSUME Pop PROVE Moves
  <2>1. head # NULL /\ ReleaseHead /\ UNCHANGED <<storage, spinning>>
    BY <1>4 DEF Pop
  <2> QED
    BY <1>1, <1>2, <2>1, ReleaseStep
<1>5. ASSUME NEW n \in Listed, Erase(n) PROVE Moves
  BY <1>1, <1>2, <1>5, EraseStep
<1>6. ASSUME NEW k \in Key, UpdateHead(k) PROVE Moves
  BY <1>1, <1>2, <1>6, UpdateHeadStep
<1>7. ASSUME Clear PROVE Moves
  BY <1>1, <1>2, <1>7, ClearStep
<1>8. ASSUME UNCHANGED vars PROVE Moves
  <2>1. Lists(q, f)' /\ FieldsOK'
    BY <1>1, <1>2, <1>8 DEF vars, Lists, FieldsOK
  <2>2. Entries = EntriesOf(q, storage) /\ Entries' = EntriesOf(q, storage')
    BY <1>1, <1>2, <2>1, ListsMean, NextListsMean
  <2> QED
    BY <1>8, <2>1, <2>2 DEF Moves, LinksInv, vars
<1> QED
  BY <1>3, <1>4, <1>5, <1>6, <1>7, <1>8 DEF Next, Spin

-----------------------------------------------------------------------------
(* The links lead to nodes or nowhere, and size() stays within the array.  *)
THEOREM TypeCorrect == Spec => []TypeOK
<1>1. LinksInv => TypeOK
  <2> SUFFICES ASSUME LinksInv PROVE TypeOK
    OBVIOUS
  <2>1. PICK q, f : Lists(q, f)
    BY DEF LinksInv
  <2>2. head \in Node \cup {NULL} /\ free_nodes \in Node \cup {NULL}
    BY <2>1, ListsMean DEF LinksInv
  <2>3. used_nodes_count \in 0 .. Capacity
    BY <2>1, SplitIsNodes DEF Lists
  <2> QED
    BY <2>2, <2>3 DEF LinksInv, FieldsOK, TypeOK
<1> QED
  BY <1>1, Initially, EveryStep, PTL DEF Spec

(* No operation of the queue loses, shares or miscounts a node: the two walks end and
   meet every node once.                                                   *)
THEOREM NoNodeIsLost == Spec => []NodesAccounted
<1>1. LinksInv => NodesAccounted
  <2> SUFFICES ASSUME LinksInv PROVE NodesAccounted
    OBVIOUS
  <2>1. PICK q, f : Lists(q, f)
    BY DEF LinksInv
  <2>2. q \in Nodes /\ f \in Nodes /\ q \in Seq(Node) /\ f \in Seq(Node) /\ Split(q, f)
    BY <2>1, ListsMean DEF LinksInv, Lists
  <2> DEFINE all == q \o f
  <2>3. /\ all \in Seq(Node) /\ Len(all) = Len(q) + Len(f)
        /\ \A j \in 1 .. Len(q) + Len(f) : all[j] = IF j <= Len(q) THEN q[j] ELSE f[j - Len(q)]
    BY <2>2, ConcatProperties
  <2> HIDE DEF all
  <2>4. Len(all) = Capacity
    BY <2>2, <2>3 DEF Split
  <2>5. ASSUME NEW n \in Node PROVE n \in ToSet(all)
    <3>1. CASE n \in ToSet(q)
      <4>1. PICK i \in 1 .. Len(q) : q[i] = n
        BY <2>2, <3>1, SetOfSeq
      <4>2. i \in 1 .. Len(q) + Len(f) /\ i <= Len(q)
        BY <2>2
      <4>3. all[i] = n
        BY <2>3, <4>1, <4>2
      <4> QED
        BY <2>3, <4>2, <4>3, SetOfSeq
    <3>2. CASE n \in ToSet(f)
      <4>1. PICK i \in 1 .. Len(f) : f[i] = n
        BY <2>2, <3>2, SetOfSeq
      <4>2. Len(q) + i \in 1 .. Len(q) + Len(f) /\ ~(Len(q) + i <= Len(q)) /\ (Len(q) + i) - Len(q) = i
        BY <2>2
      <4>3. all[Len(q) + i] = n
        BY <2>3, <4>1, <4>2
      <4> QED
        BY <2>3, <4>2, <4>3, SetOfSeq
    <3> QED
      BY <2>2, <3>1, <3>2 DEF Split
  <2>6. ToSet(all) = Node
    BY <2>3, <2>5, SetOfSeq
  <2> QED
    BY <2>1, <2>2, <2>4, <2>6 DEF NodesAccounted, Lists, all
<1> QED
  BY <1>1, Initially, EveryStep, PTL DEF Spec

(* The linked nodes are an ordered list: an element goes behind those it is not smaller
   than, and leaves when it is popped, erased or cleared.                  *)
THEOREM LinksImplementList == Spec => ImplementsSortedList
<1>1. Init => List!Init
  BY Initially DEF List!Init
<1> QED
  BY <1>1, Initially, EveryStep, PTL DEF Spec, ImplementsSortedList, List!Spec
=============================================================================
