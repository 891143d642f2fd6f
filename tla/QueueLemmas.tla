----------------------------- MODULE QueueLemmas -----------------------------
(* What the operations of the kernel's queues and lists do to the elements  *)
(* of a sequence: which they add or remove, and that none is repeated.      *)
EXTENDS SequencesExt, SequenceTheorems, WellFoundedInduction, Integers, TLAPS

\* The elements of a sequence and their repetition, index by index.
LEMMA Members ==
  ASSUME NEW S, NEW q \in Seq(S)
  PROVE  /\ DOMAIN q = 1..Len(q) /\ Len(q) \in Nat
         /\ \A x : x \in ToSet(q) <=> \E i \in 1..Len(q) : q[i] = x
         /\ ToSet(q) \subseteq S
         /\ IsInjective(q) <=> \A i, j \in 1..Len(q) : q[i] = q[j] => i = j
<1>1. DOMAIN q = 1..Len(q) /\ Len(q) \in Nat /\ \A i \in 1..Len(q) : q[i] \in S
  BY LenProperties
<1>2. \A x : x \in ToSet(q) <=> \E i \in 1..Len(q) : q[i] = x
  BY <1>1, Zenon DEF ToSet
<1>3. IsInjective(q) <=> \A i, j \in 1..Len(q) : q[i] = q[j] => i = j
  BY <1>1, Zenon DEF IsInjective
<1> QED BY <1>1, <1>2, <1>3

\* What it takes for r to be q with one more element at position k.
LEMMA AddAt ==
  ASSUME NEW S, NEW q \in Seq(S), NEW p \in S, NEW r \in Seq(S),
         NEW k \in 1..(Len(q) + 1), Len(r) = Len(q) + 1, r[k] = p,
         \A j \in 1..(k - 1) : r[j] = q[j],
         \A j \in k..Len(q) : r[j + 1] = q[j]
  PROVE  /\ ToSet(r) = ToSet(q) \cup {p}
         /\ IsInjective(q) /\ p \notin ToSet(q) => IsInjective(r)
<1> DEFINE at(j) == IF j < k THEN j ELSE j + 1
           from(j) == IF j < k THEN j ELSE j - 1
<1>1. Len(q) \in Nat /\ Len(r) \in Nat
  BY LenProperties
<1>2. \A j \in 1..Len(q) : at(j) \in 1..Len(r) /\ r[at(j)] = q[j]
  BY <1>1
<1>3. \A j \in 1..Len(r) : j # k =>
        /\ from(j) \in 1..Len(q) /\ r[j] = q[from(j)]
        /\ \A i \in 1..Len(r) : i # k /\ from(i) = from(j) => i = j
  <2> TAKE j \in 1..Len(r)
  <2> HAVE j # k
  <2>1. CASE j < k
    BY <1>1, <2>1
  <2>2. CASE j > k
    <3>1. j - 1 \in k..Len(q) /\ j - 1 \in 1..Len(q) /\ (j - 1) + 1 = j
      BY <1>1, <2>2
    <3> QED BY <1>1, <2>2, <3>1
  <2> QED BY <1>1, <2>1, <2>2
<1> HIDE DEF at, from
<1>4. ToSet(r) = ToSet(q) \cup {p}
  <2>1. ASSUME NEW x \in ToSet(r) PROVE x \in ToSet(q) \cup {p}
    <3>1. PICK j \in 1..Len(r) : r[j] = x
      BY Members
    <3>2. CASE j = k
      BY <3>1, <3>2
    <3>3. CASE j # k
      <4>1. from(j) \in 1..Len(q) /\ q[from(j)] = x
        BY <1>3, <3>1, <3>3
      <4> QED BY <4>1, Members
    <3> QED BY <3>2, <3>3
  <2>2. ASSUME NEW x \in ToSet(q) PROVE x \in ToSet(r)
    <3>1. PICK j \in 1..Len(q) : q[j] = x
      BY Members
    <3>2. at(j) \in 1..Len(r) /\ r[at(j)] = x
      BY <1>2, <3>1
    <3> QED BY <3>2, Members
  <2>3. p \in ToSet(r)
    BY <1>1, Members
  <2> QED BY <2>1, <2>2, <2>3
<1>5. ASSUME IsInjective(q), p \notin ToSet(q)
      PROVE  IsInjective(r)
  <2>1. \A i, j \in 1..Len(q) : q[i] = q[j] => i = j
    BY <1>5, Members
  <2>2. \A i \in 1..Len(q) : q[i] # p
    BY <1>5, Members
  <2>3. \A i, j \in 1..Len(r) : r[i] = r[j] => i = j
    BY SMTT(30), <1>1, <1>3, <2>1, <2>2
  <2> QED BY <2>3, Members
<1> QED BY <1>4, <1>5

\* queue_push
LEMMA AppendAdds ==
  ASSUME NEW S, NEW q \in Seq(S), NEW p \in S
  PROVE  /\ Append(q, p) \in Seq(S)
         /\ Len(Append(q, p)) = Len(q) + 1
         /\ ToSet(Append(q, p)) = ToSet(q) \cup {p}
         /\ IsInjective(q) /\ p \notin ToSet(q) => IsInjective(Append(q, p))
<1> DEFINE r == Append(q, p)
<1>1. /\ r \in Seq(S) /\ Len(r) = Len(q) + 1 /\ r[Len(q) + 1] = p
      /\ \A j \in 1..Len(q) : r[j] = q[j]
      /\ Len(q) \in Nat
  BY AppendProperties, LenProperties
<1> HIDE DEF r
<1>2. /\ ToSet(r) = ToSet(q) \cup {p}
      /\ IsInjective(q) /\ p \notin ToSet(q) => IsInjective(r)
  BY <1>1, AddAt
<1> QED BY <1>1, <1>2 DEF r

\* list_add_in_index
LEMMA InsertAdds ==
  ASSUME NEW S, NEW q \in Seq(S), NEW p \in S, NEW k \in 1..(Len(q) + 1)
  PROVE  /\ InsertAt(q, k, p) \in Seq(S)
         /\ Len(InsertAt(q, k, p)) = Len(q) + 1
         /\ ToSet(InsertAt(q, k, p)) = ToSet(q) \cup {p}
         /\ IsInjective(q) /\ p \notin ToSet(q) => IsInjective(InsertAt(q, k, p))
<1> DEFINE a == SubSeq(q, 1, k - 1)
           b == SubSeq(q, k, Len(q))
           m == a \o <<p>>
           r == m \o b
<1>0. Len(q) \in Nat /\ \A j \in 1..Len(q) : q[j] \in S
  BY LenProperties
<1>1. /\ a \in Seq(S) /\ Len(a) = k - 1
      /\ \A j \in 1..(k - 1) : a[j] = q[j]
  BY <1>0, SubSeqProperties
<1>2. /\ b \in Seq(S) /\ Len(b) = Len(q) - k + 1
      /\ \A j \in 1..(Len(q) - k + 1) : b[j] = q[k + j - 1]
  BY <1>0, SubSeqProperties
<1> HIDE DEF a, b
<1>3. /\ m \in Seq(S) /\ Len(m) = k /\ m[k] = p
      /\ \A j \in 1..(k - 1) : m[j] = q[j]
  <2>1. <<p>> \in Seq(S) /\ Len(<<p>>) = 1 /\ <<p>>[1] = p
    OBVIOUS
  <2> QED BY <1>0, <1>1, <2>1, ConcatProperties
<1> HIDE DEF m
<1>4. /\ r \in Seq(S) /\ Len(r) = Len(q) + 1
      /\ \A j \in 1..(Len(q) + 1) : r[j] = IF j <= k THEN m[j] ELSE b[j - k]
  BY <1>0, <1>2, <1>3, ConcatProperties
<1> HIDE DEF r
<1>5. r[k] = p /\ \A j \in 1..(k - 1) : r[j] = q[j]
  BY <1>0, <1>3, <1>4
<1>6. \A j \in k..Len(q) : r[j + 1] = q[j]
  <2> TAKE j \in k..Len(q)
  <2>1. j + 1 \in 1..(Len(q) + 1) /\ j + 1 > k /\ (j + 1) - k \in 1..(Len(q) - k + 1)
    BY <1>0
  <2>2. k + ((j + 1) - k) - 1 = j
    BY <1>0
  <2> QED BY <1>2, <1>4, <2>1, <2>2
<1>7. /\ ToSet(r) = ToSet(q) \cup {p}
      /\ IsInjective(q) /\ p \notin ToSet(q) => IsInjective(r)
  BY <1>4, <1>5, <1>6, AddAt
<1> QED BY <1>4, <1>7 DEF InsertAt, a, b, m, r

\* queue_pop, list_remove at index 0: without repetitions, what is taken is
\* no longer there.
LEMMA TailRemoves ==
  ASSUME NEW S, NEW q \in Seq(S), q # <<>>
  PROVE  /\ Head(q) \in S /\ Head(q) \in ToSet(q)
         /\ Tail(q) \in Seq(S) /\ Len(q) > 0 /\ Len(Tail(q)) = Len(q) - 1
         /\ ToSet(Tail(q)) \subseteq ToSet(q)
         /\ IsInjective(q) => IsInjective(Tail(q)) /\ Head(q) \notin ToSet(Tail(q))
<1> DEFINE t == Tail(q)
<1>1. Len(q) \in Nat \ {0} /\ Head(q) = q[1]
  BY EmptySeq
<1>2. /\ t \in Seq(S) /\ Len(t) = Len(q) - 1
      /\ \A i \in 1..(Len(q) - 1) : t[i] = q[i + 1]
      /\ Head(q) \in S
  BY HeadTailProperties
<1> HIDE DEF t
<1>3. Head(q) \in ToSet(q)
  BY <1>1, Members
<1>4. ToSet(t) \subseteq ToSet(q)
  BY <1>1, <1>2, Members
<1>5. ASSUME IsInjective(q)
      PROVE  IsInjective(t) /\ Head(q) \notin ToSet(t)
  <2>1. \A i, j \in 1..Len(q) : q[i] = q[j] => i = j
    BY <1>5, Members
  <2>2. \A i, j \in 1..Len(t) : t[i] = t[j] => i = j
    BY <1>1, <1>2, <2>1
  <2>3. \A i \in 1..Len(t) : t[i] # q[1]
    BY <1>1, <1>2, <2>1
  <2> QED BY <1>1, <1>2, <2>2, <2>3, Members
<1> QED BY <1>1, <1>2, <1>3, <1>4, <1>5 DEF t

\* list_remove at any index
LEMMA RemoveAtShifts ==
  ASSUME NEW S, NEW q \in Seq(S), NEW k \in 1..Len(q)
  PROVE  /\ RemoveAt(q, k) \in Seq(S)
         /\ Len(RemoveAt(q, k)) = Len(q) - 1
         /\ \A j \in 1..(Len(q) - 1) :
              RemoveAt(q, k)[j] = IF j < k THEN q[j] ELSE q[j + 1]
<1> DEFINE a == SubSeq(q, 1, k - 1)
           b == SubSeq(q, k + 1, Len(q))
           r == a \o b
<1>0. Len(q) \in Nat /\ \A j \in 1..Len(q) : q[j] \in S
  BY LenProperties
<1>1. /\ a \in Seq(S) /\ Len(a) = k - 1
      /\ \A j \in 1..(k - 1) : a[j] = q[j]
  BY <1>0, SubSeqProperties
<1>2. /\ b \in Seq(S) /\ Len(b) = Len(q) - k
      /\ \A j \in 1..(Len(q) - k) : b[j] = q[k + j]
  <2>1. \A j \in (k + 1)..Len(q) : q[j] \in S
    BY <1>0
  <2>2. /\ b \in Seq(S)
        /\ Len(b) = IF k + 1 <= Len(q) THEN Len(q) - (k + 1) + 1 ELSE 0
        /\ \A j \in 1..(Len(q) - (k + 1) + 1) : b[j] = q[(k + 1) + j - 1]
    BY <1>0, <2>1, SubSeqProperties
  <2> QED BY <1>0, <2>2
<1> HIDE DEF a, b
<1>3. /\ r \in Seq(S) /\ Len(r) = Len(q) - 1
      /\ \A j \in 1..(Len(q) - 1) : r[j] = IF j <= k - 1 THEN a[j] ELSE b[j - (k - 1)]
  BY <1>0, <1>1, <1>2, ConcatProperties
<1> HIDE DEF r
<1>4. \A j \in 1..(Len(q) - 1) : r[j] = IF j < k THEN q[j] ELSE q[j + 1]
  <2> TAKE j \in 1..(Len(q) - 1)
  <2>1. CASE j < k
    BY <1>0, <1>1, <1>3, <2>1
  <2>2. CASE j >= k
    <3>1. j - (k - 1) \in 1..(Len(q) - k) /\ k + (j - (k - 1)) = j + 1
      BY <1>0, <1>3, <2>2
    <3> QED BY <1>0, <1>2, <1>3, <2>2, <3>1
  <2> QED BY <1>0, <2>1, <2>2
<1> QED BY <1>3, <1>4 DEF RemoveAt, a, b, r

LEMMA RemoveAtRemoves ==
  ASSUME NEW S, NEW q \in Seq(S), NEW k \in 1..Len(q)
  PROVE  /\ RemoveAt(q, k) \in Seq(S)
         /\ Len(RemoveAt(q, k)) = Len(q) - 1
         /\ ToSet(RemoveAt(q, k)) \subseteq ToSet(q)
         /\ IsInjective(q) => IsInjective(RemoveAt(q, k))
<1> DEFINE r == RemoveAt(q, k)
           from(j) == IF j < k THEN j ELSE j + 1
<1>1. /\ r \in Seq(S) /\ Len(r) = Len(q) - 1 /\ Len(q) \in Nat
      /\ \A j \in 1..(Len(q) - 1) : r[j] = IF j < k THEN q[j] ELSE q[j + 1]
  BY RemoveAtShifts, LenProperties
<1> HIDE DEF r
<1>4. \A j \in 1..Len(r) : from(j) \in 1..Len(q) /\ r[j] = q[from(j)]
  BY <1>1
<1>5. \A i, j \in 1..Len(r) : from(i) = from(j) => i = j
  BY <1>1
<1> HIDE DEF from
<1>6. ToSet(r) \subseteq ToSet(q)
  BY <1>1, <1>4, Members
<1>7. IsInjective(q) => IsInjective(r)
  <2> HAVE IsInjective(q)
  <2>1. \A i, j \in 1..Len(q) : q[i] = q[j] => i = j
    BY Members
  <2>2. \A i, j \in 1..Len(r) : r[i] = r[j] => i = j
    BY <1>4, <1>5, <2>1
  <2> QED BY <1>1, <2>2, Members
<1> QED BY <1>1, <1>6, <1>7 DEF r

(* A set of numbers has a least one.                                        *)
LEMMA LeastNumber ==
  ASSUME NEW S, S \subseteq Nat, S # {}
  PROVE  Min(S) \in S /\ \A y \in S : Min(S) <= y
<1>1. PICK x \in S : \A y \in S : <<y, x>> \notin OpToRel(<, Nat)
  BY WFMin, NatLessThanWellFounded
<1>2. \A y \in S : x <= y
  <2>1. SUFFICES ASSUME NEW y \in S, y < x PROVE FALSE
    OBVIOUS
  <2>2. <<y, x>> \in Nat \X Nat /\ <<y, x>>[1] = y /\ <<y, x>>[2] = x
    OBVIOUS
  <2> QED  BY <1>1, <2>1, <2>2 DEF OpToRel
<1> QED  BY <1>1, <1>2 DEF Min

(* Removing position k of a sequence of distinct members removes q[k].       *)
LEMMA RemoveAtDrops ==
  ASSUME NEW S, NEW q \in Seq(S), NEW k \in 1..Len(q), IsInjective(q)
  PROVE  /\ RemoveAt(q, k) \in Seq(S) /\ IsInjective(RemoveAt(q, k))
         /\ ToSet(RemoveAt(q, k)) = ToSet(q) \ {q[k]}
<1> DEFINE a == SubSeq(q, 1, k - 1)
           b == SubSeq(q, k + 1, Len(q))
           r == RemoveAt(q, k)
<1>0. Len(q) \in Nat /\ \A i, j \in 1..Len(q) : q[i] = q[j] => i = j
  BY Members
<1>1. \A j \in 1..Len(q) : q[j] \in S
  BY LenProperties
<1>2. /\ r \in Seq(S) /\ Len(r) = Len(q) - 1 /\ ToSet(r) \subseteq ToSet(q)
      /\ IsInjective(r)
  BY RemoveAtRemoves
<1>3. /\ a \in Seq(S) /\ Len(a) = k - 1
      /\ \A j \in 1..(k - 1) : a[j] = q[j]
  BY <1>0, <1>1, SubSeqProperties
<1>4. /\ b \in Seq(S) /\ Len(b) = Len(q) - k
      /\ \A j \in 1..(Len(q) - k) : b[j] = q[k + j]
  <2>1. \A j \in (k + 1)..Len(q) : q[j] \in S
    BY <1>1, <1>0
  <2>2. /\ b \in Seq(S)
        /\ Len(b) = IF k + 1 <= Len(q) THEN Len(q) - (k + 1) + 1 ELSE 0
        /\ \A j \in 1..(Len(q) - (k + 1) + 1) : b[j] = q[(k + 1) + j - 1]
    BY <1>0, <2>1, SubSeqProperties
  <2> QED BY <1>0, <2>2
<1>5. r = a \o b
  BY DEF RemoveAt
<1> HIDE DEF a, b, r
<1>6. \A j \in 1..(Len(q) - 1) : r[j] = IF j <= k - 1 THEN a[j] ELSE b[j - (k - 1)]
  BY <1>0, <1>3, <1>4, <1>5, ConcatProperties
<1>7. /\ \A i \in 1..(k - 1) : r[i] = q[i]
      /\ \A i \in k..(Len(q) - 1) : r[i] = q[i + 1]
  <2>1. \A i \in 1..(k - 1) : r[i] = q[i]
    BY <1>0, <1>3, <1>6
  <2>2. ASSUME NEW i \in k..(Len(q) - 1) PROVE r[i] = q[i + 1]
    <3>1. r[i] = b[i - (k - 1)] /\ i - (k - 1) \in 1..(Len(q) - k)
      BY <1>0, <1>6
    <3>2. b[i - (k - 1)] = q[k + (i - (k - 1))] /\ k + (i - (k - 1)) = i + 1
      BY <1>0, <1>4, <3>1
    <3> QED  BY <3>1, <3>2
  <2> QED  BY <2>1, <2>2
<1>8. ToSet(q) \ {q[k]} \subseteq ToSet(r)
  <2>1. SUFFICES ASSUME NEW y \in ToSet(q), y # q[k]
                 PROVE  \E j \in 1..Len(r) : r[j] = y
    BY <1>2, Members
  <2>0. PICK i \in 1..Len(q) : q[i] = y /\ i # k
    BY <2>1, Members
  <2>2. CASE i < k
    BY <2>0, <2>2, <1>7, <1>2, <1>0
  <2>3. CASE i > k
    <3>1. i - 1 \in 1..Len(r) /\ i - 1 \in k..(Len(q) - 1)
      BY <2>3, <1>2, <1>0
    <3>2. r[i - 1] = q[(i - 1) + 1] /\ (i - 1) + 1 = i
      BY <3>1, <1>7
    <3> QED  BY <2>0, <3>1, <3>2
  <2> QED  BY <2>0, <2>2, <2>3
<1>9. q[k] \notin ToSet(r)
  <2>1. SUFFICES ASSUME NEW j \in 1..Len(r), r[j] = q[k]
                 PROVE  FALSE
    BY <1>2, Members
  <2>2. CASE j < k
    BY <2>1, <2>2, <1>2, <1>7, <1>0
  <2>3. CASE j >= k
    <3>1. j + 1 \in 1..Len(q) /\ j \in k..(Len(q) - 1)
      BY <2>3, <1>2, <1>0
    <3> QED  BY <3>1, <2>1, <1>7, <1>0, <2>3
  <2> QED  BY <2>2, <2>3
<1> QED  BY <1>2, <1>8, <1>9 DEF r

(* Removing the first x of a sequence of distinct members removes x.         *)
LEMMA RemoveFirstRemoves ==
  ASSUME NEW S, NEW q \in Seq(S), NEW x, IsInjective(q)
  PROVE  /\ RemoveFirst(q, x) \in Seq(S) /\ IsInjective(RemoveFirst(q, x))
         /\ ToSet(RemoveFirst(q, x)) = ToSet(q) \ {x}
<1> DEFINE I == {i \in 1..Len(q) : q[i] = x}
<1>0. Len(q) \in Nat /\ \A i, j \in 1..Len(q) : q[i] = q[j] => i = j
  BY Members
<1>1. CASE I = {}
  <2>1. RemoveFirst(q, x) = q
    BY <1>1 DEF RemoveFirst
  <2> QED  BY <1>1, <2>1, Members
<1>2. CASE I # {}
  <2>1. I \subseteq Nat
    BY <1>0
  <2>2. PICK k \in 1..Len(q) : q[k] = x /\ k = Min(I)
    BY <1>2, <2>1, LeastNumber
  <2>3. RemoveFirst(q, x) = RemoveAt(q, k)
    BY <1>2, <2>2 DEF RemoveFirst, SelectInSeq
  <2>4. /\ RemoveAt(q, k) \in Seq(S) /\ IsInjective(RemoveAt(q, k))
        /\ ToSet(RemoveAt(q, k)) = ToSet(q) \ {q[k]}
    BY RemoveAtDrops
  <2> QED  BY <2>2, <2>3, <2>4
<1> QED  BY <1>1, <1>2
==============================================================================
