----------------------------- MODULE QueueLemmas -----------------------------
(***************************************************************************)
(* Facts about queues and finite sets that the proofs about the components *)
(* share: what the list and deque operations of the code do to the set of  *)
(* a queue's elements, when no element is in it twice.                     *)
(***************************************************************************)
EXTENDS Integers, SequencesExt, FiniteSetTheorems, SequenceTheorems, TLAPS

(***************************************************************************)
(* What the operations on a queue do to its elements.                      *)
(***************************************************************************)

\* push_back adds its argument and nothing else.
LEMMA AppendSet ==
    ASSUME NEW S, NEW q \in Seq(S), NEW e \in S
    PROVE  /\ Append(q, e) \in Seq(S)
           /\ ToSet(Append(q, e)) = ToSet(q) \cup {e}
           /\ IsInjective(q) /\ e \notin ToSet(q) => IsInjective(Append(q, e))
<1>1. /\ Append(q, e) \in Seq(S)
      /\ Len(q) \in Nat
      /\ Len(Append(q, e)) = Len(q) + 1
      /\ \A i \in 1..Len(q) : Append(q, e)[i] = q[i]
      /\ Append(q, e)[Len(q) + 1] = e
  OBVIOUS
<1>2. ToSet(Append(q, e)) \subseteq ToSet(q) \cup {e}
  BY <1>1 DEF ToSet
<1>3. ToSet(q) \subseteq ToSet(Append(q, e))
  <2>1. 1..Len(q) \subseteq 1..Len(Append(q, e))
    BY <1>1
  <2> QED
    BY <2>1, <1>1 DEF ToSet
<1>4. e \in ToSet(Append(q, e))
  <2>1. Len(q) + 1 \in 1..Len(Append(q, e))
    BY <1>1
  <2> QED
    BY <2>1, <1>1 DEF ToSet
<1>5. IsInjective(q) /\ e \notin ToSet(q) => IsInjective(Append(q, e))
  BY <1>1 DEF ToSet, IsInjective
<1> QED
  BY <1>1, <1>2, <1>3, <1>4, <1>5

\* front and pop_front split the queue into its head and the others.
LEMMA TailSet ==
    ASSUME NEW S, NEW q \in Seq(S), q # <<>>
    PROVE  /\ Head(q) \in ToSet(q) /\ Head(q) \in S
           /\ Tail(q) \in Seq(S)
           /\ IsInjective(q) => ToSet(Tail(q)) = ToSet(q) \ {Head(q)} /\ IsInjective(Tail(q))
<1>1. /\ Len(q) \in Nat \ {0}
      /\ Head(q) = q[1] /\ Head(q) \in S
      /\ Tail(q) \in Seq(S)
      /\ Len(Tail(q)) = Len(q) - 1
      /\ \A i \in 1..Len(q) - 1 : Tail(q)[i] = q[i + 1]
  OBVIOUS
<1>2. Head(q) \in ToSet(q)
  BY <1>1 DEF ToSet
<1>3. ASSUME IsInjective(q) PROVE ToSet(Tail(q)) = ToSet(q) \ {Head(q)} /\ IsInjective(Tail(q))
  <2>1. ASSUME NEW i \in 1..Len(Tail(q))
        PROVE  Tail(q)[i] \in ToSet(q) /\ Tail(q)[i] # Head(q)
    <3>1. i + 1 \in 1..Len(q) /\ 1 \in 1..Len(q) /\ Tail(q)[i] = q[i + 1] /\ i + 1 # 1
      BY <1>1
    <3> QED
      BY <3>1, <1>1, <1>3 DEF ToSet, IsInjective
  <2>2. ASSUME NEW i \in 1..Len(q), q[i] # Head(q)
        PROVE  q[i] \in ToSet(Tail(q))
    <3>1. i - 1 \in 1..Len(Tail(q)) /\ Tail(q)[i - 1] = q[i]
      BY <1>1, <2>2
    <3>2. DOMAIN Tail(q) = 1..Len(Tail(q))
      BY <1>1
    <3> QED
      BY <3>1, <3>2 DEF ToSet
  <2>3. IsInjective(Tail(q))
    BY <1>1, <1>3 DEF IsInjective
  <2> QED
    BY <2>1, <2>2, <2>3 DEF ToSet
<1> QED
  BY <1>1, <1>2, <1>3

\* erase() takes out one element, wherever it is.
LEMMA RemoveSet ==
    ASSUME NEW S, NEW q \in Seq(S), NEW i \in 1..Len(q)
    PROVE  /\ q[i] \in ToSet(q) /\ q[i] \in S
           /\ RemoveAt(q, i) \in Seq(S)
           /\ IsInjective(q) => /\ ToSet(RemoveAt(q, i)) = ToSet(q) \ {q[i]}
                               /\ IsInjective(RemoveAt(q, i))
<1> DEFINE a == SubSeq(q, 1, i - 1)
           b == SubSeq(q, i + 1, Len(q))
           r == a \o b
<1>1. Len(q) \in Nat /\ i \in Nat \ {0} /\ i <= Len(q) /\ DOMAIN q = 1..Len(q)
      /\ \A k \in 1..Len(q) : q[k] \in S
  OBVIOUS
<1>2. a \in Seq(S) /\ Len(a) = i - 1 /\ \A k \in 1..i - 1 : a[k] = q[k]
  BY <1>1, SubSeqProperties
<1>3. b \in Seq(S) /\ Len(b) = Len(q) - i /\ \A k \in 1..Len(q) - i : b[k] = q[i + k]
  <2>1. \A k \in i + 1..Len(q) : q[k] \in S
    BY <1>1
  <2>2. /\ b \in Seq(S)
        /\ Len(b) = IF i + 1 <= Len(q) THEN Len(q) - (i + 1) + 1 ELSE 0
        /\ \A k \in 1..Len(q) - (i + 1) + 1 : b[k] = q[(i + 1) + k - 1]
    BY <1>1, <2>1, SubSeqProperties
  <2> HIDE DEF b
  <2>3. Len(b) = Len(q) - i
    <3>1. CASE i + 1 <= Len(q)
      <4>1. Len(b) = Len(q) - (i + 1) + 1
        BY <3>1, <2>2
      <4> QED
        BY <4>1, <1>1
    <3>2. CASE i = Len(q)
      BY <3>2, <2>2, <1>1
    <3>3. Len(q) \in Nat /\ i \in Nat /\ i <= Len(q)
      BY <1>1
    <3>4. i + 1 <= Len(q) \/ i = Len(q)
      BY ONLY <3>3
    <3> QED
      BY <3>1, <3>2, <3>4
  <2>4. ASSUME NEW k \in 1..Len(q) - i PROVE b[k] = q[i + k]
    <3>1. k \in 1..Len(q) - (i + 1) + 1 /\ (i + 1) + k - 1 = i + k
      BY <1>1
    <3> QED
      BY <3>1, <2>2
  <2> QED
    BY <2>2, <2>3, <2>4
<1> HIDE DEF a, b
<1>4. /\ r \in Seq(S) /\ Len(r) = Len(q) - 1
      /\ \A k \in 1..Len(q) - 1 : r[k] = IF k <= i - 1 THEN q[k] ELSE q[k + 1]
  <2>1. /\ r \in Seq(S) /\ Len(r) = Len(a) + Len(b)
        /\ \A k \in 1..Len(a) + Len(b) : r[k] = IF k <= Len(a) THEN a[k] ELSE b[k - Len(a)]
    BY <1>2, <1>3, ConcatProperties
  <2>2. Len(a) + Len(b) = Len(q) - 1
    BY <1>1, <1>2, <1>3
  <2> HIDE DEF r
  <2>3. ASSUME NEW k \in 1..Len(q) - 1
        PROVE  r[k] = IF k <= i - 1 THEN q[k] ELSE q[k + 1]
    <3>1. CASE k <= i - 1
      <4>1. k \in 1..Len(a) + Len(b) /\ k <= Len(a) /\ k \in 1..i - 1
        BY <3>1, <1>1, <1>2, <2>2
      <4>2. r[k] = a[k]
        BY <4>1, <2>1
      <4>3. a[k] = q[k]
        BY <4>1, <1>2
      <4> QED
        BY <3>1, <4>2, <4>3
    <3>2. CASE ~(k <= i - 1)
      <4>1. r[k] = b[k - Len(a)] /\ k - Len(a) \in 1..Len(q) - i /\ i + (k - Len(a)) = k + 1
        BY <3>2, <1>1, <1>2, <2>1, <2>2
      <4> QED
        BY <3>2, <4>1, <1>3
    <3> QED
      BY <3>1, <3>2
  <2> QED
    BY <2>1, <2>2, <2>3
<1> HIDE DEF r
<1>5. DOMAIN r = 1..Len(q) - 1
  BY <1>4
<1>6. q[i] \in ToSet(q) /\ q[i] \in S
  BY <1>1 DEF ToSet
<1>7. ASSUME IsInjective(q) PROVE ToSet(r) = ToSet(q) \ {q[i]} /\ IsInjective(r)
  <2>1. ASSUME NEW k \in 1..Len(q) - 1
        PROVE  r[k] \in ToSet(q) /\ r[k] # q[i]
    <3>1. k \in 1..Len(q) /\ k + 1 \in 1..Len(q)
      BY <1>1
    <3>2. \A m \in 1..Len(q) : q[m] \in ToSet(q) /\ (q[m] = q[i] => m = i)
      BY <1>1, <1>7 DEF ToSet, IsInjective
    <3>3. r[k] = (IF k <= i - 1 THEN q[k] ELSE q[k + 1])
      BY <1>4
    <3>4. CASE k <= i - 1
      <4>1. k # i /\ r[k] = q[k]
        BY <3>3, <3>4, <1>1
      <4> QED
        BY <4>1, <3>1, <3>2
    <3>5. CASE ~(k <= i - 1)
      <4>1. k + 1 # i /\ r[k] = q[k + 1]
        BY <3>3, <3>5, <1>1
      <4> QED
        BY <4>1, <3>1, <3>2
    <3> QED
      BY <3>4, <3>5
  <2>2. ASSUME NEW k \in 1..Len(q), q[k] # q[i]
        PROVE  q[k] \in ToSet(r)
    <3>1. k # i
      BY <2>2
    <3>2. CASE k < i
      <4>1. k \in 1..Len(q) - 1 /\ r[k] = q[k]
        BY <3>2, <1>1, <1>4
      <4> QED
        BY <4>1, <1>5 DEF ToSet
    <3>3. CASE k > i
      <4>1. k - 1 \in 1..Len(q) - 1 /\ r[k - 1] = q[k]
        BY <3>3, <1>1, <1>4
      <4> QED
        BY <4>1, <1>5 DEF ToSet
    <3> QED
      BY <3>1, <3>2, <3>3, <1>1
  <2>3. ASSUME NEW k \in 1..Len(q) - 1, NEW l \in 1..Len(q) - 1, r[k] = r[l]
        PROVE  k = l
    <3>1. k \in 1..Len(q) /\ k + 1 \in 1..Len(q) /\ l \in 1..Len(q) /\ l + 1 \in 1..Len(q)
      BY <1>1
    <3>2. \A m, n \in 1..Len(q) : q[m] = q[n] => m = n
      BY <1>1, <1>7 DEF IsInjective
    <3>3. CASE k <= i - 1 /\ l <= i - 1
      BY <3>1, <3>2, <3>3, <2>3, <1>4
    <3>4. CASE ~(k <= i - 1) /\ ~(l <= i - 1)
      <4>1. q[k + 1] = q[l + 1]
        BY <3>4, <2>3, <1>4
      <4> QED
        BY <4>1, <3>1, <3>2
    <3>5. CASE k <= i - 1 /\ ~(l <= i - 1)
      <4>1. q[k] = q[l + 1]
        BY <3>5, <2>3, <1>4
      <4> QED
        BY <4>1, <3>1, <3>2, <3>5, <1>1
    <3>6. CASE ~(k <= i - 1) /\ l <= i - 1
      <4>1. q[k + 1] = q[l]
        BY <3>6, <2>3, <1>4
      <4> QED
        BY <4>1, <3>1, <3>2, <3>6, <1>1
    <3> QED
      BY <3>3, <3>4, <3>5, <3>6
  <2>4. ToSet(r) = {r[k] : k \in 1..Len(q) - 1} /\ ToSet(q) = {q[k] : k \in 1..Len(q)}
    BY <1>1, <1>5 DEF ToSet
  <2>5. ToSet(r) \subseteq ToSet(q) \ {q[i]}
    BY <2>1, <2>4
  <2>6. ToSet(q) \ {q[i]} \subseteq ToSet(r)
    BY <2>2, <2>4
  <2>7. IsInjective(r)
    BY <2>3, <1>5 DEF IsInjective
  <2> QED
    BY <2>5, <2>6, <2>7
<1> QED
  BY <1>4, <1>6, <1>7 DEF RemoveAt, r, a, b

\* Members of a queue are what the queue is a queue of.
LEMMA SetOfQueue ==
    ASSUME NEW S, NEW q \in Seq(S)
    PROVE  ToSet(q) \subseteq S /\ (ToSet(q) = {} <=> q = <<>>)
<1>1. Len(q) \in Nat /\ (Len(q) = 0 <=> q = <<>>) /\ \A i \in 1..Len(q) : q[i] \in S
  OBVIOUS
<1>2. q # <<>> => q[1] \in ToSet(q)
  BY <1>1 DEF ToSet
<1> QED
  BY <1>1, <1>2 DEF ToSet

\* An empty queue.
LEMMA EmptyQueue ==
    ASSUME NEW S
    PROVE  <<>> \in Seq(S) /\ ToSet(<<>>) = {} /\ IsInjective(<<>>)
<1>1. Len(<<>>) = 0 /\ <<>> \in Seq(S) /\ DOMAIN <<>> = {}
  OBVIOUS
<1> QED
  BY <1>1 DEF ToSet, IsInjective
-----------------------------------------------------------------------------
(***************************************************************************)
(* Counting.                                                               *)
(***************************************************************************)

LEMMA DisjointUnion ==
    ASSUME NEW A, NEW B, IsFiniteSet(A), IsFiniteSet(B), A \cap B = {}
    PROVE  Cardinality(A \cup B) = Cardinality(A) + Cardinality(B)
<1>1. Cardinality(A) \in Nat /\ Cardinality(B) \in Nat
  BY FS_CardinalityType
<1>2. Cardinality(A \cup B) = Cardinality(A) + Cardinality(B) - Cardinality(A \cap B)
  BY FS_Union
<1>3. Cardinality(A \cap B) = 0
  BY FS_EmptySet
<1> QED
  BY <1>1, <1>2, <1>3

\* A finite set that has no two elements.
LEMMA AtMostOne ==
    ASSUME NEW S, IsFiniteSet(S), \A x, y \in S : x = y
    PROVE  Cardinality(S) = IF S = {} THEN 0 ELSE 1
<1>1. CASE S = {}
  BY <1>1, FS_EmptySet
<1>2. ASSUME NEW x \in S PROVE Cardinality(S) = 1
  <2>1. S = {x}
    OBVIOUS
  <2> QED
    BY <2>1, FS_Singleton
<1> QED
  BY <1>1, <1>2

\* Two sets that differ at most in x.
LEMMA CountChange ==
    ASSUME NEW S, NEW T, NEW x, IsFiniteSet(S), T \ {x} = S \ {x}
    PROVE  /\ IsFiniteSet(T) /\ Cardinality(S) \in Nat /\ Cardinality(T) \in Nat
           /\ x \in T /\ x \notin S => Cardinality(T) = Cardinality(S) + 1
           /\ x \notin T /\ x \in S => Cardinality(T) = Cardinality(S) - 1 /\ Cardinality(S) > 0
           /\ (x \in T <=> x \in S) => T = S
<1>1. IsFiniteSet(S \ {x}) /\ Cardinality(S \ {x}) = IF x \in S THEN Cardinality(S) - 1
                                                                ELSE Cardinality(S)
  BY FS_RemoveElement
<1>2. IsFiniteSet(S \cup {x}) /\ Cardinality(S \cup {x}) = IF x \in S THEN Cardinality(S)
                                                                    ELSE Cardinality(S) + 1
  BY FS_AddElement
<1>3. T = IF x \in T THEN S \cup {x} ELSE S \ {x}
  OBVIOUS
<1>4. IsFiniteSet(T)
  BY <1>1, <1>2, <1>3
<1>5. Cardinality(S) \in Nat /\ Cardinality(T) \in Nat
  BY <1>4, FS_CardinalityType
<1>6. x \in T /\ x \notin S => Cardinality(T) = Cardinality(S) + 1
  BY <1>2, <1>3
<1>7. x \notin T /\ x \in S => Cardinality(T) = Cardinality(S) - 1 /\ Cardinality(S) > 0
  <2>1. x \in S => Cardinality(S) # 0
    BY FS_EmptySet
  <2>2. x \notin T /\ x \in S => Cardinality(T) = Cardinality(S) - 1
    BY <1>1, <1>3
  <2>3. Cardinality(S) # 0 => Cardinality(S) > 0
    BY <1>5
  <2> QED
    BY <2>1, <2>2, <2>3
<1>8. (x \in T <=> x \in S) => T = S
  BY <1>3
<1> QED
  BY <1>4, <1>5, <1>6, <1>7, <1>8
-----------------------------------------------------------------------------
(***************************************************************************)
(* Numbers.                                                                *)
(***************************************************************************)

\* What CHOOSE finds when it looks for the first of some indices.
LEMMA SmallestOf ==
    ASSUME NEW S, S \subseteq Nat, S # {}
    PROVE  \E n \in S : \A m \in S : n <= m
<1> DEFINE R == OpToRel(<, Nat)
<1>1. IsWellFoundedOn(R, Nat)
  BY NatLessThanWellFounded, Zenon
<1>2. \A m, n \in Nat : m < n => <<m, n>> \in R
  BY DEF OpToRel
<1> HIDE DEF R
<1>3. PICK n \in S : \A m \in S : ~ (<<m, n>> \in R)
  BY <1>1, WFMin
<1>4. \A m \in S : ~(m < n)
  BY <1>2, <1>3
<1> QED
  BY <1>4
=============================================================================
