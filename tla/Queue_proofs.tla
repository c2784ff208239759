---------------------------- MODULE Queue_proofs ----------------------------
(***************************************************************************)
(* What the operations on queues return, for queues of every length.       *)
(***************************************************************************)
EXTENDS Queue, Integers, FiniteSetTheorems, FunctionTheorems,
        SequenceTheorems, WellFoundedInduction, TLAPS

-----------------------------------------------------------------------------
(* Sets of positions.                                                      *)

\* A set of natural numbers that is not empty has a least element.
LEMMA LeastElement ==
    ASSUME NEW K \in SUBSET Nat, K # {}
    PROVE  /\ FirstOf(K) \in K
           /\ \A k \in K : FirstOf(K) <= k
<1>1. PICK x \in K : \A y \in K : ~(<<y, x>> \in OpToRel(<, Nat))
  BY NatLessThanWellFounded, WFMin
<1>2. \A i, k \in Nat : i < k => <<i, k>> \in OpToRel(<, Nat)
  BY DEF OpToRel
<1>3. \A k \in K : k \in Nat
  OBVIOUS
<1>4. \A y \in K : x <= y
  <2>1. \A y \in K : ~(y < x)
    BY <1>1, <1>2, <1>3, Zenon
  <2>2. QED
    BY <1>3, <2>1
<1>5. QED
  BY <1>4 DEF FirstOf

\* The positions up to i that are in K.
Rank(K, i) == Cardinality({k \in K : k <= i})

\* A finite set of positions is numbered by the ranks of its elements, in order.
LEMMA NthProperties ==
    ASSUME NEW K \in SUBSET Nat, IsFiniteSet(K)
    PROVE  /\ \A j \in 1 .. Cardinality(K) : Nth(K, j) \in K
           /\ \A i, j \in 1 .. Cardinality(K) : i < j => Nth(K, i) < Nth(K, j)
           /\ \A i \in K : \E j \in 1 .. Cardinality(K) : Nth(K, j) = i
<1> DEFINE n == Cardinality(K)
           Upto(i) == {k \in K : k <= i}
           r == [i \in K |-> Rank(K, i)]
<1>0. n \in Nat
  BY FS_CardinalityType
<1>a. \A i \in K : i \in Nat
  OBVIOUS
<1>1. \A i \in K : /\ Upto(i) \in SUBSET K
                   /\ IsFiniteSet(Upto(i))
                   /\ i \in Upto(i)
  BY FS_Subset
<1>2. \A i \in K : Rank(K, i) \in 1 .. n
  <2> SUFFICES ASSUME NEW i \in K PROVE Rank(K, i) \in 1 .. n
    OBVIOUS
  <2>1. Cardinality(Upto(i)) \in Nat /\ Cardinality(Upto(i)) <= n
    BY <1>1, FS_CardinalityType, FS_Subset
  <2>2. Cardinality(Upto(i)) # 0
    BY <1>1, FS_EmptySet
  <2>3. QED
    BY <1>0, <2>1, <2>2 DEF Rank
<1>3. \A i, k \in K : i < k => Rank(K, i) < Rank(K, k)
  <2> SUFFICES ASSUME NEW i \in K, NEW k \in K, i < k
               PROVE  Rank(K, i) < Rank(K, k)
    OBVIOUS
  <2>0. i \in Nat /\ k \in Nat
    BY <1>a
  <2>1. Upto(i) \in SUBSET Upto(k)
    <3>1. ASSUME NEW j \in K, j <= i PROVE j <= k
      BY <1>a, <2>0, <3>1
    <3>2. QED
      BY <3>1
  <2>5. k \in Upto(k) /\ k \notin Upto(i)
    BY <2>0
  <2>2. /\ Cardinality(Upto(i)) <= Cardinality(Upto(k))
        /\ Cardinality(Upto(i)) # Cardinality(Upto(k))
    BY <1>1, <2>1, <2>5, FS_Subset
  <2>3. Cardinality(Upto(i)) \in Nat /\ Cardinality(Upto(k)) \in Nat
    BY <1>1, FS_CardinalityType
  <2>4. QED
    BY <2>2, <2>3 DEF Rank
<1>4. r \in Injection(K, 1 .. n)
  <2>1. r \in [K -> 1 .. n]
    BY <1>2
  <2>2. \A i, k \in K : r[i] = r[k] => i = k
    BY <1>2, <1>3
  <2>3. QED
    BY <2>1, <2>2 DEF Injection, IsInjective
<1>5. IsFiniteSet(1 .. n) /\ Cardinality(1 .. n) = n
  BY <1>0, FS_Interval
<1>6. r \in Surjection(K, 1 .. n)
  BY <1>4, <1>5, FS_Injection
<1>7. \A j \in 1 .. n : \E i \in K : Rank(K, i) = j
  BY <1>6 DEF Surjection
<1>8. \A j \in 1 .. n : Nth(K, j) \in K /\ Rank(K, Nth(K, j)) = j
  BY <1>7 DEF Nth, Rank
<1>9. \A i, j \in 1 .. n : i < j => Nth(K, i) < Nth(K, j)
  <2> SUFFICES ASSUME NEW i \in 1 .. n, NEW j \in 1 .. n, i < j,
                      ~(Nth(K, i) < Nth(K, j))
               PROVE  FALSE
    OBVIOUS
  <2>1. Nth(K, j) = Nth(K, i) \/ Nth(K, j) < Nth(K, i)
    <3>1. Nth(K, i) \in Nat /\ Nth(K, j) \in Nat
      BY <1>a, <1>8
    <3>2. QED
      BY <3>1
  <2>2. i \in Nat /\ j \in Nat
    BY <1>0
  <2>3. Rank(K, Nth(K, i)) = i /\ Rank(K, Nth(K, j)) = j
    BY <1>8
  <2>4. Nth(K, i) \in K /\ Nth(K, j) \in K
    BY <1>8
  <2>5. CASE Nth(K, j) = Nth(K, i)
    BY <2>2, <2>3, <2>5
  <2>6. CASE Nth(K, j) < Nth(K, i)
    <3>1. j < i
      BY <1>3, <2>3, <2>4, <2>6
    <3>2. QED
      BY <2>2, <3>1
  <2>7. QED
    BY <2>1, <2>5, <2>6
<1>10. \A i \in K : \E j \in 1 .. n : Nth(K, j) = i
  <2> SUFFICES ASSUME NEW i \in K PROVE Nth(K, Rank(K, i)) = i
    BY <1>2
  <2>1. Nth(K, Rank(K, i)) \in K /\ Rank(K, Nth(K, Rank(K, i))) = Rank(K, i)
    BY <1>2, <1>8
  <2>2. Rank(K, i) \in Nat
    BY <1>0, <1>2
  <2>3. ASSUME NEW k \in K, Rank(K, k) = Rank(K, i) PROVE k = i
    <3>1. ~(k < i) /\ ~(i < k)
      BY <1>3, <2>2, <2>3
    <3>2. QED
      BY <1>a, <3>1
  <2>4. QED
    BY <2>1, <2>3
<1>11. QED
  BY <1>8, <1>9, <1>10

\* q without the positions I is q on the other positions, in the same order.
LEMMA WithoutProperties ==
    ASSUME NEW S, NEW q \in Seq(S), NEW I \in SUBSET DOMAIN q
    PROVE  /\ Without(q, I) \in Seq(S)
           /\ Cardinality(I) \in Nat
           /\ Len(Without(q, I)) = Len(q) - Cardinality(I)
           /\ \E g \in [DOMAIN Without(q, I) -> DOMAIN q \ I] :
                /\ \A j, k \in DOMAIN g : j < k => g[j] < g[k]
                /\ \A i \in DOMAIN q \ I : \E j \in DOMAIN g : g[j] = i
                /\ \A j \in DOMAIN g : Without(q, I)[j] = q[g[j]]
<1> DEFINE len == Len(q)
           K == (1 .. len) \ I
           n == Cardinality(K)
           g == [j \in 1 .. n |-> Nth(K, j)]
           w == [j \in 1 .. n |-> q[Nth(K, j)]]
<1>1. DOMAIN q = 1 .. len /\ len \in Nat /\ q \in [1 .. len -> S]
  OBVIOUS
<1>2. I \in SUBSET (1 .. len)
  BY <1>1
<1>3. Without(q, I) = w
  BY <1>1, Zenon DEF Without
<1> HIDE DEF len
<1>4. IsFiniteSet(1 .. len) /\ Cardinality(1 .. len) = len
  BY <1>1, FS_Interval
<1>5. IsFiniteSet(I) /\ IsFiniteSet(K) /\ K \in SUBSET Nat
  <2>1. K \in SUBSET (1 .. len)
    OBVIOUS
  <2>2. IsFiniteSet(I) /\ IsFiniteSet(K)
    BY <1>2, <1>4, <2>1, FS_Subset
  <2>3. K \in SUBSET Nat
    BY <1>1
  <2>4. QED
    BY <2>2, <2>3
<1>6. n = len - Cardinality(I) /\ n \in Nat /\ Cardinality(I) \in Nat
  <2>1. (1 .. len) \cap I = I
    BY <1>2
  <2>2. n = Cardinality(1 .. len) - Cardinality((1 .. len) \cap I)
    BY <1>4, FS_Difference
  <2>3. n \in Nat /\ Cardinality(I) \in Nat
    BY <1>5, FS_CardinalityType
  <2>4. n = len - Cardinality(I)
    BY <1>4, <2>1, <2>2
  <2>5. QED
    BY <2>3, <2>4
<1> HIDE DEF n
<1>7. /\ \A j \in 1 .. n : Nth(K, j) \in K
      /\ \A i, j \in 1 .. n : i < j => Nth(K, i) < Nth(K, j)
      /\ \A i \in K : \E j \in 1 .. n : Nth(K, j) = i
  BY <1>5, NthProperties DEF n
<1>8. w \in Seq(S) /\ Len(w) = n /\ DOMAIN w = 1 .. n
  <2>1. \A j \in 1 .. n : q[Nth(K, j)] \in S
    BY <1>1, <1>7
  <2>2. w \in [1 .. n -> S]
    BY <2>1
  <2> HIDE DEF w
  <2>3. QED
    BY <1>6, <2>2
<1>9. /\ g \in [1 .. n -> DOMAIN q \ I]
      /\ \A j, k \in 1 .. n : j < k => g[j] < g[k]
      /\ \A i \in DOMAIN q \ I : \E j \in 1 .. n : g[j] = i
      /\ \A j \in 1 .. n : w[j] = q[g[j]]
  BY <1>1, <1>7
<1> HIDE DEF w, g
<1>10. QED
  BY <1>3, <1>6, <1>8, <1>9 DEF len

-----------------------------------------------------------------------------
(* Elements.                                                               *)

\* No element is in the queue twice.
Once(s) == \A i, j \in DOMAIN s : s[i] = s[j] => i = j

\* Two sequences without repetition and without a common element.
LEMMA OnceConcat ==
    ASSUME NEW S, NEW s \in Seq(S), NEW t \in Seq(S), Once(s), Once(t),
           \A i \in DOMAIN s, j \in DOMAIN t : s[i] # t[j]
    PROVE  /\ s \o t \in Seq(S)
           /\ Once(s \o t)
           /\ Members(s \o t) = Members(s) \cup Members(t)
<1> DEFINE m == Len(s)
           n == Len(t)
           u == s \o t
<1>1. m \in Nat /\ n \in Nat /\ DOMAIN s = 1 .. m /\ DOMAIN t = 1 .. n
  BY LenProperties
<1>2. /\ u \in Seq(S) /\ Len(u) = m + n
      /\ \A i \in 1 .. m + n : u[i] = IF i <= m THEN s[i] ELSE t[i - m]
  BY ConcatProperties
<1>3. DOMAIN u = 1 .. m + n
  BY <1>2, LenProperties
<1> HIDE DEF m, n, u
<1>4. \A i \in 1 .. m + n : \/ i <= m /\ i \in 1 .. m
                            \/ ~(i <= m) /\ i - m \in 1 .. n
  BY <1>1
<1>5. Once(u)
  <2> SUFFICES ASSUME NEW i \in 1 .. m + n, NEW j \in 1 .. m + n, u[i] = u[j]
               PROVE  i = j
    BY <1>3 DEF Once
  <2>1. CASE i <= m /\ j <= m
    BY <1>1, <1>2, <1>4, <2>1 DEF Once
  <2>2. CASE ~(i <= m) /\ ~(j <= m)
    <3>1. u[i] = t[i - m] /\ u[j] = t[j - m] /\ i - m \in 1 .. n /\ j - m \in 1 .. n
      BY <1>2, <1>4, <2>2
    <3>2. i - m = j - m
      BY <1>1, <3>1 DEF Once
    <3>3. QED
      BY <1>1, <3>2
  <2>3. CASE i <= m /\ ~(j <= m)
    BY <1>1, <1>2, <1>4, <2>3
  <2>4. CASE ~(i <= m) /\ j <= m
    BY <1>1, <1>2, <1>4, <2>4
  <2>5. QED
    BY <2>1, <2>2, <2>3, <2>4
<1>6. {u[i] : i \in DOMAIN u} = {s[i] : i \in DOMAIN s} \cup {t[i] : i \in DOMAIN t}
  <2>1. ASSUME NEW i \in 1 .. m + n
        PROVE  u[i] \in {s[k] : k \in DOMAIN s} \cup {t[k] : k \in DOMAIN t}
    BY <1>1, <1>2, <1>4
  <2>2. ASSUME NEW i \in 1 .. m PROVE s[i] \in {u[k] : k \in DOMAIN u}
    <3>1. i \in 1 .. m + n /\ i <= m
      BY <1>1
    <3>2. QED
      BY <1>2, <1>3, <3>1
  <2>3. ASSUME NEW i \in 1 .. n PROVE t[i] \in {u[k] : k \in DOMAIN u}
    <3>1. m + i \in 1 .. m + n /\ ~(m + i <= m) /\ (m + i) - m = i
      BY <1>1
    <3>2. QED
      BY <1>2, <1>3, <3>1
  <2>4. QED
    BY <1>1, <1>3, <2>1, <2>2, <2>3
<1>7. QED
  BY <1>2, <1>5, <1>6 DEF u, Members

LEMMA NoMembers ==
    /\ Members(<<>>) = {} /\ Once(<<>>)
    /\ \A S : \A q \in Seq(S) : Members(q) \subseteq S /\ (Members(q) = {} => q = <<>>)
<1>1. Members(<<>>) = {} /\ Once(<<>>)
  BY DEF Members, Once
<1>2. ASSUME NEW S, NEW q \in Seq(S)
      PROVE  Members(q) \subseteq S /\ (Members(q) = {} => q = <<>>)
  <2>1. DOMAIN q = 1 .. Len(q) /\ Len(q) \in Nat /\ \A i \in 1 .. Len(q) : q[i] \in S
    BY LenProperties, ElementOfSeq
  <2>2. Members(q) \subseteq S
    BY <2>1 DEF Members
  <2>3. ASSUME Members(q) = {} PROVE q = <<>>
    <3>1. DOMAIN q = {}
      BY <2>3 DEF Members
    <3>2. Len(q) = 0
      BY <2>1, <3>1
    <3>3. QED
      BY <3>2, EmptySeq
  <2>4. QED
    BY <2>2, <2>3
<1>3. QED
  BY <1>1, <1>2

LEMMA AppendMembers ==
    ASSUME NEW S, NEW q \in Seq(S), NEW e \in S
    PROVE  /\ Append(q, e) \in Seq(S)
           /\ Append(q, e) # <<>>
           /\ Members(Append(q, e)) = Members(q) \cup {e}
           /\ Once(q) /\ e \notin Members(q) => Once(Append(q, e))
<1> DEFINE a == Append(q, e)
           n == Len(q)
<1>1. /\ a \in Seq(S) /\ DOMAIN a = 1 .. n + 1 /\ DOMAIN q = 1 .. n /\ n \in Nat
      /\ Len(a) = n + 1
      /\ \A i \in 1 .. n : a[i] = q[i]
      /\ a[n + 1] = e
  BY AppendProperties, LenProperties
<1>0. Append(q, e) # <<>>
  BY <1>1, EmptySeq
<1> HIDE DEF a, n
<1>2. \A i \in 1 .. n + 1 : i \in 1 .. n \/ i = n + 1
  BY <1>1
<1>3. \A i \in 1 .. n : i \in 1 .. n + 1
  BY <1>1
<1>4. n + 1 \in 1 .. n + 1
  BY <1>1
<1>5. Members(a) = Members(q) \cup {e}
  BY <1>1, <1>2, <1>3, <1>4 DEF Members
<1>6. ASSUME Once(q), e \notin Members(q) PROVE Once(a)
  BY <1>1, <1>2, <1>6 DEF Once, Members
<1>7. QED
  BY <1>0, <1>1, <1>5, <1>6 DEF a, n

\* The head leaves the queue.
LEMMA TailMembers ==
    ASSUME NEW S, NEW q \in Seq(S), q # <<>>
    PROVE  /\ Tail(q) \in Seq(S) /\ Len(Tail(q)) = Len(q) - 1
           /\ Head(q) \in S /\ Head(q) \in Members(q)
           /\ Members(q) = Members(Tail(q)) \cup {Head(q)}
           /\ Once(q) => Once(Tail(q)) /\ Head(q) \notin Members(Tail(q))
<1> DEFINE t == Tail(q)
           n == Len(q)
<1>1. n \in Nat /\ n >= 1 /\ DOMAIN q = 1 .. n
  BY LenProperties, EmptySeq
<1>2. /\ t \in Seq(S) /\ Len(t) = n - 1
      /\ Head(q) \in S /\ Head(q) = q[1]
      /\ \A i \in 1 .. n - 1 : t[i] = q[i + 1]
  BY <1>1, HeadTailProperties
<1>3. DOMAIN t = 1 .. n - 1
  BY <1>2, LenProperties
<1> HIDE DEF t, n
<1>4. \A i \in 1 .. n : i = 1 \/ (i - 1 \in 1 .. n - 1 /\ (i - 1) + 1 = i)
  BY <1>1
<1>5. \A i \in 1 .. n - 1 : i + 1 \in 1 .. n /\ i + 1 # 1
  BY <1>1
<1>6. 1 \in 1 .. n
  BY <1>1
<1>7. Members(q) = Members(t) \cup {Head(q)}
  <2>1. ASSUME NEW i \in 1 .. n PROVE q[i] \in Members(t) \cup {Head(q)}
    <3>1. CASE i = 1
      BY <1>2, <3>1
    <3>2. CASE i # 1
      <4>1. i - 1 \in 1 .. n - 1 /\ t[i - 1] = q[i]
        BY <1>2, <1>4, <3>2
      <4>2. QED
        BY <1>3, <4>1 DEF Members
    <3>3. QED
      BY <3>1, <3>2
  <2>2. ASSUME NEW i \in 1 .. n - 1 PROVE t[i] \in Members(q)
    BY <1>1, <1>2, <1>5 DEF Members
  <2>3. Head(q) \in Members(q)
    BY <1>1, <1>2, <1>6 DEF Members
  <2>4. QED
    BY <1>1, <1>3, <2>1, <2>2, <2>3 DEF Members
<1>8. ASSUME Once(q) PROVE Once(t)
  <2> SUFFICES ASSUME NEW i \in 1 .. n - 1, NEW j \in 1 .. n - 1, q[i + 1] = q[j + 1]
               PROVE  i = j
    BY <1>2, <1>3 DEF Once
  <2>1. i + 1 = j + 1
    BY <1>1, <1>5, <1>8 DEF Once
  <2>2. QED
    BY <1>1, <2>1
<1>9. ASSUME Once(q) PROVE Head(q) \notin Members(t)
  <2> SUFFICES ASSUME NEW i \in 1 .. n - 1, q[1] = q[i + 1] PROVE FALSE
    BY <1>2, <1>3 DEF Members
  <2>1. 1 = i + 1
    BY <1>1, <1>5, <1>6, <1>9 DEF Once
  <2>2. QED
    BY <1>5, <2>1
<1>10. QED
  BY <1>2, <1>7, <1>8, <1>9 DEF t, n

\* What is left behind the first n elements.
LEMMA SuffixMembers ==
    ASSUME NEW S, NEW q \in Seq(S), NEW n \in 0 .. Len(q)
    PROVE  LET r == SubSeq(q, n + 1, Len(q)) IN
           /\ r \in Seq(S) /\ Len(r) = Len(q) - n /\ DOMAIN r = 1 .. Len(q) - n
           /\ \A i \in DOMAIN r : n + i \in DOMAIN q /\ r[i] = q[n + i]
           /\ Members(r) = {q[i] : i \in n + 1 .. Len(q)}
           /\ Once(q) => Once(r) /\ \A i \in 1 .. n : q[i] \notin Members(r)
<1> DEFINE r == SubSeq(q, n + 1, Len(q))
           len == Len(q)
           m == len - n
<1>1. len \in Nat /\ n \in Nat /\ n <= len /\ DOMAIN q = 1 .. len
  BY LenProperties
<1>2. /\ r \in Seq(S) /\ Len(r) = m /\ DOMAIN r = 1 .. m
      /\ \A i \in 1 .. m : r[i] = q[n + i]
  <2>1. n + 1 \in 1 .. len + 1 /\ len \in n .. len
    BY <1>1
  <2>2. /\ r \in Seq(S) /\ Len(r) = IF n + 1 <= len THEN len - (n + 1) + 1 ELSE 0
        /\ \A i \in 1 .. len - (n + 1) + 1 : r[i] = q[n + 1 + i - 1]
    BY <1>1, <2>1, SubSeqProperties
  <2> HIDE DEF r, len
  <2>3. Len(r) = m
    BY <1>1, <2>2
  <2>4. DOMAIN r = 1 .. m
    BY <2>2, <2>3, LenProperties
  <2>5. \A i \in 1 .. m : i \in 1 .. len - (n + 1) + 1 /\ n + 1 + i - 1 = n + i
    BY <1>1
  <2>6. QED
    BY <2>2, <2>3, <2>4, <2>5
<1> HIDE DEF r, len
<1>3. \A i \in 1 .. m : n + i \in DOMAIN q /\ n + i \in n + 1 .. len
  BY <1>1
<1>4. \A k \in n + 1 .. len : k - n \in 1 .. m /\ n + (k - n) = k
  BY <1>1
<1>5. Members(r) = {q[i] : i \in n + 1 .. len}
  <2>1. ASSUME NEW i \in DOMAIN r PROVE r[i] \in {q[k] : k \in n + 1 .. len}
    BY <1>2, <1>3
  <2>2. ASSUME NEW k \in n + 1 .. len PROVE q[k] \in Members(r)
    BY <1>2, <1>4 DEF Members
  <2>3. QED
    BY <2>1, <2>2 DEF Members
<1>7. ASSUME Once(q) PROVE Once(r)
  <2> SUFFICES ASSUME NEW i \in 1 .. m, NEW j \in 1 .. m, q[n + i] = q[n + j]
               PROVE  i = j
    BY <1>2 DEF Once
  <2>1. n + i = n + j
    BY <1>3, <1>7 DEF Once
  <2>2. QED
    BY <1>1, <2>1
<1>8. ASSUME Once(q), NEW i \in 1 .. n PROVE q[i] \notin Members(r)
  <2> SUFFICES ASSUME NEW k \in n + 1 .. len, q[i] = q[k] PROVE FALSE
    BY <1>5
  <2>1. i \in DOMAIN q /\ k \in DOMAIN q
    BY <1>1
  <2>2. i = k
    BY <1>8, <2>1 DEF Once
  <2>3. QED
    BY <1>1, <2>2
<1>9. QED
  BY <1>2, <1>3, <1>5, <1>7, <1>8 DEF r, len

\* The first n elements.
LEMMA PrefixMembers ==
    ASSUME NEW S, NEW q \in Seq(S), NEW n \in 0 .. Len(q)
    PROVE  /\ Members(SubSeq(q, 1, n)) = {q[i] : i \in 1 .. n}
           /\ Once(q) => /\ IsFiniteSet({q[i] : i \in 1 .. n})
                         /\ Cardinality({q[i] : i \in 1 .. n}) = n
<1> DEFINE r == SubSeq(q, 1, n)
           F == {q[i] : i \in 1 .. n}
<1>1. Len(q) \in Nat /\ n \in Nat /\ n <= Len(q) /\ DOMAIN q = 1 .. Len(q)
  BY LenProperties
<1>2. DOMAIN r = 1 .. n /\ \A i \in 1 .. n : r[i] = q[i]
  BY <1>1, SubSeqProperties
<1>3. Members(r) = F
  BY <1>2 DEF Members
<1>4. ASSUME Once(q) PROVE IsFiniteSet(F) /\ Cardinality(F) = n
  <2> DEFINE f == [i \in 1 .. n |-> q[i]]
  <2>1. f \in Surjection(1 .. n, F)
    BY DEF Surjection
  <2>2. \A i, j \in 1 .. n : q[i] = q[j] => i = j
    BY <1>1, <1>4 DEF Once
  <2>3. f \in Injection(1 .. n, F)
    BY <2>2 DEF Injection, IsInjective
  <2>4. IsFiniteSet(1 .. n) /\ Cardinality(1 .. n) = n
    BY <1>1, FS_Interval
  <2> HIDE DEF f, F
  <2>5. IsFiniteSet(F) /\ Cardinality(F) = Cardinality(1 .. n)
    BY <2>1, <2>3, <2>4, FS_Surjection
  <2>6. QED
    BY <2>4, <2>5
<1>5. QED
  BY <1>3, <1>4

LEMMA ConcatMembers ==
    ASSUME NEW S, NEW s \in Seq(S), NEW t \in Seq(S)
    PROVE  s \o t \in Seq(S) /\ Members(s \o t) = Members(s) \cup Members(t)
<1> DEFINE m == Len(s)
           n == Len(t)
           u == s \o t
<1>1. m \in Nat /\ n \in Nat /\ DOMAIN s = 1 .. m /\ DOMAIN t = 1 .. n
  BY LenProperties
<1>2. /\ u \in Seq(S) /\ Len(u) = m + n
      /\ \A i \in 1 .. m + n : u[i] = IF i <= m THEN s[i] ELSE t[i - m]
  BY ConcatProperties
<1>3. DOMAIN u = 1 .. m + n
  BY <1>2, LenProperties
<1> HIDE DEF m, n, u
<1>4. \A i \in 1 .. m + n : \/ i <= m /\ i \in 1 .. m
                            \/ ~(i <= m) /\ i - m \in 1 .. n
  BY <1>1
<1>5. ASSUME NEW i \in 1 .. m + n PROVE u[i] \in Members(s) \cup Members(t)
  BY <1>1, <1>2, <1>4 DEF Members
<1>6. ASSUME NEW i \in 1 .. m PROVE s[i] \in Members(u)
  <2>1. i \in 1 .. m + n /\ i <= m
    BY <1>1
  <2>2. QED
    BY <1>2, <1>3, <2>1 DEF Members
<1>7. ASSUME NEW i \in 1 .. n PROVE t[i] \in Members(u)
  <2>1. m + i \in 1 .. m + n /\ ~(m + i <= m) /\ (m + i) - m = i
    BY <1>1
  <2>2. QED
    BY <1>2, <1>3, <2>1 DEF Members
<1>8. Members(u) = Members(s) \cup Members(t)
  BY <1>1, <1>3, <1>5, <1>6, <1>7 DEF Members
<1>9. QED
  BY <1>2, <1>8 DEF u

\* The elements at the positions I leave, the others stay.
LEMMA WithoutMembers ==
    ASSUME NEW S, NEW q \in Seq(S), NEW I \in SUBSET DOMAIN q
    PROVE  /\ Without(q, I) \in Seq(S)
           /\ Members(Without(q, I)) = {q[i] : i \in DOMAIN q \ I}
           /\ Once(q) => Once(Without(q, I))
<1> DEFINE w == Without(q, I)
<1>1. PICK g \in [DOMAIN w -> DOMAIN q \ I] :
        /\ \A j, k \in DOMAIN g : j < k => g[j] < g[k]
        /\ \A i \in DOMAIN q \ I : \E j \in DOMAIN g : g[j] = i
        /\ \A j \in DOMAIN g : w[j] = q[g[j]]
  BY WithoutProperties
<1>2. w \in Seq(S)
  BY WithoutProperties
<1> HIDE DEF w
<1>3. /\ DOMAIN w = 1 .. Len(w) /\ Len(w) \in Nat
      /\ DOMAIN q = 1 .. Len(q) /\ Len(q) \in Nat
  BY <1>2, LenProperties
<1>4. /\ DOMAIN g = DOMAIN w
      /\ \A j \in DOMAIN w : g[j] \in DOMAIN q \ I /\ w[j] = q[g[j]]
  BY <1>1
<1>5. \A i \in DOMAIN q \ I : \E j \in DOMAIN w : w[j] = q[i]
  BY <1>1, <1>4
<1>6. Members(w) = {q[i] : i \in DOMAIN q \ I}
  BY <1>4, <1>5 DEF Members
<1>7. ASSUME Once(q) PROVE Once(w)
  <2> SUFFICES ASSUME NEW j \in DOMAIN w, NEW k \in DOMAIN w, w[j] = w[k]
               PROVE  j = k
    BY DEF Once
  <2>1. g[j] = g[k]
    BY <1>4, <1>7 DEF Once
  <2>2. j \in Nat /\ k \in Nat /\ g[j] \in Nat
    BY <1>3, <1>4
  <2>3. ~(j < k) /\ ~(k < j)
    BY <1>1, <1>4, <2>1, <2>2
  <2>4. QED
    BY <2>2, <2>3
<1>8. QED
  BY <1>2, <1>6, <1>7 DEF w

LEMMA UnlinkedMembers ==
    ASSUME NEW S, NEW q \in Seq(S), NEW x
    PROVE  /\ Unlinked(q, x) \in Seq(S)
           /\ Members(Unlinked(q, x)) = Members(q) \ {x}
           /\ Once(q) => Once(Unlinked(q, x))
<1> DEFINE I == {i \in DOMAIN q : q[i] = x}
<1>1. I \in SUBSET DOMAIN q
  OBVIOUS
<1>2. {q[i] : i \in DOMAIN q \ I} = Members(q) \ {x}
  BY DEF Members
<1>3. Unlinked(q, x) = Without(q, I)
  BY DEF Unlinked
<1> HIDE DEF I
<1>4. QED
  BY <1>1, <1>2, <1>3, WithoutMembers
=============================================================================
