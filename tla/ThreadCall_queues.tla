-------------------------- MODULE ThreadCall_queues --------------------------
(***************************************************************************)
(* The queues of thread_call.c, for every number of entries, jobs and      *)
(* processors.                                                             *)
(***************************************************************************)
EXTENDS ThreadCall, Queue_proofs

-----------------------------------------------------------------------------
(* Queues of entries.                                                      *)

\* By deadline, the earliest first.
Sorted(q) == \A i, j \in DOMAIN q : i <= j => q[i].deadline <= q[j].deadline

\* No entry is in the queue twice.
Distinct(q) == \A i, j \in DOMAIN q : q[i].call = q[j].call => i = j

LEMMA WithoutCalls ==
    ASSUME NEW S, NEW q \in Seq(S), NEW I \in SUBSET DOMAIN q
    PROVE  /\ CallsIn(Without(q, I)) \subseteq CallsIn(q)
           /\ \A i \in DOMAIN q \ I : q[i].call \in CallsIn(Without(q, I))
           /\ Sorted(q) => Sorted(Without(q, I))
           /\ Distinct(q) => /\ Distinct(Without(q, I))
                             /\ \A i \in I : q[i].call \notin CallsIn(Without(q, I))
<1> DEFINE w == Without(q, I)
<1>1. PICK g \in [DOMAIN w -> DOMAIN q \ I] :
        /\ \A j, k \in DOMAIN g : j < k => g[j] < g[k]
        /\ \A i \in DOMAIN q \ I : \E j \in DOMAIN g : g[j] = i
        /\ \A j \in DOMAIN g : w[j] = q[g[j]]
  BY WithoutProperties
<1>2. /\ DOMAIN g = DOMAIN w
      /\ \A j \in DOMAIN w : g[j] \in DOMAIN q /\ g[j] \notin I /\ w[j] = q[g[j]]
  BY <1>1
<1>3. /\ DOMAIN w = 1 .. Len(w) /\ Len(w) \in Nat
      /\ DOMAIN q = 1 .. Len(q) /\ Len(q) \in Nat
  BY WithoutProperties, LenProperties
<1> HIDE DEF w
<1>4. \A j, k \in DOMAIN w : j <= k => g[j] <= g[k]
  <2> SUFFICES ASSUME NEW j \in DOMAIN w, NEW k \in DOMAIN w, j <= k
               PROVE  g[j] <= g[k]
    OBVIOUS
  <2>1. j \in Nat /\ k \in Nat /\ g[j] \in Nat /\ g[k] \in Nat
    BY <1>2, <1>3
  <2>2. CASE j = k
    BY <2>1, <2>2
  <2>3. CASE j < k
    BY <1>1, <1>2, <2>1, <2>3
  <2>4. QED
    BY <2>1, <2>2, <2>3
<1>5. \A j, k \in DOMAIN w : g[j] = g[k] => j = k
  <2> SUFFICES ASSUME NEW j \in DOMAIN w, NEW k \in DOMAIN w, g[j] = g[k]
               PROVE  j = k
    OBVIOUS
  <2>1. j \in Nat /\ k \in Nat /\ g[j] \in Nat /\ g[k] \in Nat
    BY <1>2, <1>3
  <2>2. ~(j < k) /\ ~(k < j)
    BY <1>1, <1>2, <2>1
  <2>3. QED
    BY <2>1, <2>2
<1>6. CallsIn(w) \subseteq CallsIn(q)
  BY <1>2 DEF CallsIn
<1>7. \A i \in DOMAIN q \ I : q[i].call \in CallsIn(w)
  BY <1>1, <1>2 DEF CallsIn
<1>8. Sorted(q) => Sorted(w)
  BY <1>2, <1>4 DEF Sorted
<1>9. ASSUME Distinct(q) PROVE Distinct(w)
  BY <1>2, <1>5, <1>9 DEF Distinct
<1>10. ASSUME Distinct(q), NEW i \in I PROVE q[i].call \notin CallsIn(w)
  BY <1>2, <1>10 DEF Distinct, CallsIn
<1>11. QED
  BY <1>6, <1>7, <1>8, <1>9, <1>10 DEF w

LEMMA AppendCalls ==
    ASSUME NEW S, NEW q \in Seq(S), NEW e \in S
    PROVE  /\ Append(q, e) \in Seq(S)
           /\ Len(Append(q, e)) = Len(q) + 1
           /\ CallsIn(Append(q, e)) = CallsIn(q) \cup {e.call}
           /\ Distinct(q) /\ e.call \notin CallsIn(q) => Distinct(Append(q, e))
<1> DEFINE a == Append(q, e)
           n == Len(q)
<1>1. /\ a \in Seq(S) /\ DOMAIN a = 1 .. n + 1 /\ DOMAIN q = 1 .. n /\ n \in Nat
      /\ Len(a) = n + 1
      /\ \A i \in 1 .. n : a[i] = q[i]
      /\ a[n + 1] = e
  BY AppendProperties, LenProperties
<1> HIDE DEF a, n
<1>2. \A i \in 1 .. n + 1 : i \in 1 .. n \/ i = n + 1
  BY <1>1
<1>3. \A i \in 1 .. n : i \in 1 .. n + 1
  BY <1>1
<1>4. n + 1 \in 1 .. n + 1
  BY <1>1
<1>5. CallsIn(a) = CallsIn(q) \cup {e.call}
  BY <1>1, <1>2, <1>3, <1>4 DEF CallsIn
<1>6. ASSUME Distinct(q), e.call \notin CallsIn(q) PROVE Distinct(a)
  BY <1>1, <1>2, <1>6 DEF Distinct, CallsIn
<1>7. QED
  BY <1>1, <1>5, <1>6 DEF a, n

LEMMA TailCalls ==
    ASSUME NEW S, NEW q \in Seq(S), q # <<>>
    PROVE  /\ Tail(q) \in Seq(S) /\ Len(Tail(q)) = Len(q) - 1
           /\ Head(q) \in S
           /\ CallsIn(q) = CallsIn(Tail(q)) \cup {Head(q).call}
           /\ Distinct(q) => Distinct(Tail(q)) /\ Head(q).call \notin CallsIn(Tail(q))
<1> DEFINE t == Tail(q)
           n == Len(q)
<1>1. n \in Nat /\ n >= 1 /\ DOMAIN q = 1 .. n
  BY LenProperties, EmptySeq
<1>2. /\ t \in Seq(S) /\ Len(t) = n - 1
      /\ Head(q) \in S /\ Head(q) = q[1]
      /\ \A i \in 1 .. n - 1 : t[i] = q[i + 1]
  BY <1>1, HeadTailProperties
<1>3. DOMAIN t = 1 .. n - 1
  BY <1>2, LenProperties
<1> HIDE DEF t, n
<1>4. \A i \in 1 .. n : i = 1 \/ (i - 1 \in 1 .. n - 1 /\ (i - 1) + 1 = i)
  BY <1>1
<1>5. \A i \in 1 .. n - 1 : i + 1 \in 1 .. n /\ i + 1 # 1
  BY <1>1
<1>6. 1 \in 1 .. n
  BY <1>1
<1>7. CallsIn(q) = CallsIn(t) \cup {Head(q).call}
  <2>1. ASSUME NEW i \in 1 .. n PROVE q[i].call \in CallsIn(t) \cup {Head(q).call}
    <3>1. CASE i = 1
      BY <1>2, <3>1
    <3>2. CASE i # 1
      <4>1. i - 1 \in 1 .. n - 1 /\ t[i - 1] = q[i]
        BY <1>2, <1>4, <3>2
      <4>2. QED
        BY <1>3, <4>1 DEF CallsIn
    <3>3. QED
      BY <3>1, <3>2
  <2>2. ASSUME NEW i \in 1 .. n - 1 PROVE t[i].call \in CallsIn(q)
    BY <1>1, <1>2, <1>5 DEF CallsIn
  <2>3. Head(q).call \in CallsIn(q)
    BY <1>1, <1>2, <1>6 DEF CallsIn
  <2>4. QED
    BY <1>1, <1>3, <2>1, <2>2, <2>3 DEF CallsIn
<1>8. ASSUME Distinct(q) PROVE Distinct(t)
  <2> SUFFICES ASSUME NEW i \in 1 .. n - 1, NEW j \in 1 .. n - 1,
                      q[i + 1].call = q[j + 1].call
               PROVE  i = j
    BY <1>2, <1>3 DEF Distinct
  <2>1. i + 1 = j + 1
    BY <1>1, <1>5, <1>8 DEF Distinct
  <2>2. QED
    BY <1>1, <2>1
<1>9. ASSUME Distinct(q) PROVE Head(q).call \notin CallsIn(t)
  <2> SUFFICES ASSUME NEW i \in 1 .. n - 1, q[1].call = q[i + 1].call PROVE FALSE
    BY <1>2, <1>3 DEF CallsIn
  <2>1. 1 = i + 1
    BY <1>1, <1>5, <1>6, <1>9 DEF Distinct
  <2>2. QED
    BY <1>5, <2>1
<1>10. QED
  BY <1>2, <1>7, <1>8, <1>9 DEF t, n

\* What a removal leaves: only entries that were there, and all the others.
LEMMA WithoutOthers ==
    ASSUME NEW S, NEW q \in Seq(S), NEW I \in SUBSET DOMAIN q
    PROVE  /\ \A j \in DOMAIN Without(q, I) :
                \E i \in DOMAIN q : Without(q, I)[j] = q[i]
           /\ \A c \in CallsIn(q) :
                (\A i \in I : q[i].call # c) => c \in CallsIn(Without(q, I))
<1>1. \A j \in DOMAIN Without(q, I) : \E i \in DOMAIN q : Without(q, I)[j] = q[i]
  BY WithoutProperties
<1>2. ASSUME NEW c \in CallsIn(q), \A i \in I : q[i].call # c
      PROVE  c \in CallsIn(Without(q, I))
  <2>1. PICK i \in DOMAIN q : q[i].call = c
    BY DEF CallsIn
  <2>2. i \in DOMAIN q \ I
    BY <1>2, <2>1
  <2>3. QED
    BY <2>1, <2>2, WithoutCalls
<1>3. QED
  BY <1>1, <1>2

\* A tail of a queue.
LEMMA SuffixCalls ==
    ASSUME NEW S, NEW q \in Seq(S), NEW n \in 0 .. Len(q)
    PROVE  LET r == SubSeq(q, n + 1, Len(q)) IN
           /\ r \in Seq(S) /\ Len(r) = Len(q) - n
           /\ \A i \in DOMAIN r : n + i \in DOMAIN q /\ r[i] = q[n + i]
           /\ CallsIn(r) = {q[i].call : i \in n + 1 .. Len(q)}
           /\ Sorted(q) => Sorted(r)
           /\ Distinct(q) => /\ Distinct(r)
                             /\ \A i \in 1 .. n : q[i].call \notin CallsIn(r)
<1> DEFINE r == SubSeq(q, n + 1, Len(q))
           len == Len(q)
           m == len - n
<1>1. len \in Nat /\ n \in Nat /\ n <= len /\ DOMAIN q = 1 .. len
  BY LenProperties
<1>2. /\ r \in Seq(S) /\ Len(r) = m /\ DOMAIN r = 1 .. m
      /\ \A i \in 1 .. m : r[i] = q[n + i]
  BY <1>1, SubSeqProperties
<1> HIDE DEF r, len
<1>3. \A i \in 1 .. m : n + i \in DOMAIN q /\ n + i \in n + 1 .. len
  BY <1>1
<1>4. \A k \in n + 1 .. len : k - n \in 1 .. m /\ n + (k - n) = k
  BY <1>1
<1>5. CallsIn(r) = {q[i].call : i \in n + 1 .. len}
  <2>1. ASSUME NEW i \in DOMAIN r
        PROVE  r[i].call \in {q[k].call : k \in n + 1 .. len}
    BY <1>2, <1>3
  <2>2. ASSUME NEW k \in n + 1 .. len PROVE q[k].call \in CallsIn(r)
    BY <1>2, <1>4 DEF CallsIn
  <2>3. QED
    BY <2>1, <2>2 DEF CallsIn
<1>6. ASSUME Sorted(q) PROVE Sorted(r)
  <2> SUFFICES ASSUME NEW i \in 1 .. m, NEW j \in 1 .. m, i <= j
               PROVE  q[n + i].deadline <= q[n + j].deadline
    BY <1>2 DEF Sorted
  <2>1. n + i <= n + j
    BY <1>1
  <2>2. QED
    BY <1>3, <1>6, <2>1 DEF Sorted
<1>7. ASSUME Distinct(q) PROVE Distinct(r)
  <2> SUFFICES ASSUME NEW i \in 1 .. m, NEW j \in 1 .. m,
                      q[n + i].call = q[n + j].call
               PROVE  i = j
    BY <1>2 DEF Distinct
  <2>1. n + i = n + j
    BY <1>3, <1>7 DEF Distinct
  <2>2. QED
    BY <1>1, <2>1
<1>8. ASSUME Distinct(q), NEW i \in 1 .. n PROVE q[i].call \notin CallsIn(r)
  <2> SUFFICES ASSUME NEW k \in n + 1 .. len, q[i].call = q[k].call PROVE FALSE
    BY <1>5
  <2>1. i \in DOMAIN q /\ k \in DOMAIN q
    BY <1>1
  <2>2. i = k
    BY <1>8, <2>1 DEF Distinct
  <2>3. QED
    BY <1>1, <2>2
<1>9. QED
  BY <1>2, <1>3, <1>5, <1>6, <1>7, <1>8 DEF r, len

\* q with e behind its first p entries.
Inserted(q, p, e) == SubSeq(q, 1, p) \o <<e>> \o SubSeq(q, p + 1, Len(q))

LEMMA InsertCalls ==
    ASSUME NEW S, NEW q \in Seq(S), NEW e \in S, NEW p \in 0 .. Len(q)
    PROVE  /\ Inserted(q, p, e) \in Seq(S)
           /\ Len(Inserted(q, p, e)) = Len(q) + 1
           /\ \A k \in 1 .. Len(q) + 1 :
                Inserted(q, p, e)[k] = IF k <= p THEN q[k]
                                       ELSE IF k = p + 1 THEN e ELSE q[k - 1]
           /\ CallsIn(Inserted(q, p, e)) = CallsIn(q) \cup {e.call}
           /\ Distinct(q) /\ e.call \notin CallsIn(q) => Distinct(Inserted(q, p, e))
<1> DEFINE r == Inserted(q, p, e)
           n == Len(q)
           a == SubSeq(q, 1, p)
           b == SubSeq(q, p + 1, n)
           ae == a \o <<e>>
<1>1. n \in Nat /\ p \in Nat /\ p <= n /\ DOMAIN q = 1 .. n
  BY LenProperties
<1>2. a \in Seq(S) /\ Len(a) = p /\ \A k \in 1 .. p : a[k] = q[k]
  BY <1>1, SubSeqProperties
<1>3. b \in Seq(S) /\ Len(b) = n - p /\ \A k \in 1 .. n - p : b[k] = q[p + k]
  <2>1. b \in Seq(S) /\ Len(b) = n - p /\ \A k \in DOMAIN b : b[k] = q[p + k]
    BY SuffixCalls
  <2> HIDE DEF b, n
  <2>2. DOMAIN b = 1 .. n - p
    BY <2>1, LenProperties
  <2>3. QED
    BY <2>1, <2>2
<1>4. <<e>> \in Seq(S) /\ Len(<<e>>) = 1 /\ <<e>>[1] = e
  OBVIOUS
<1> DEFINE one == <<e>>
<1>a. r = (a \o one) \o b
  BY DEF Inserted
<1>b. one \in Seq(S) /\ Len(one) = 1 /\ one[1] = e
  BY <1>4
<1> HIDE DEF a, b, n, r, one
<1>5. /\ ae \in Seq(S) /\ Len(ae) = p + 1
      /\ \A k \in 1 .. p + 1 : ae[k] = IF k <= p THEN q[k] ELSE e
  <2>1. /\ ae \in Seq(S) /\ Len(ae) = p + 1
        /\ \A k \in 1 .. p + 1 : ae[k] = IF k <= p THEN a[k] ELSE one[k - p]
    BY <1>2, <1>b, ConcatProperties DEF one
  <2>2. \A k \in 1 .. p + 1 : k <= p \/ k - p = 1
    BY <1>1
  <2>3. \A k \in 1 .. p + 1 : k <= p => k \in 1 .. p
    BY <1>1
  <2>4. QED
    BY <1>2, <1>b, <2>1, <2>2, <2>3
<1>c. r = ae \o b
  BY <1>a DEF one
<1> HIDE DEF ae
<1>6. /\ r \in Seq(S) /\ Len(r) = n + 1
      /\ \A k \in 1 .. n + 1 : r[k] = IF k <= p + 1 THEN ae[k] ELSE b[k - (p + 1)]
  <2>1. /\ r \in Seq(S) /\ Len(r) = (p + 1) + (n - p)
        /\ \A k \in 1 .. (p + 1) + (n - p) :
             r[k] = IF k <= p + 1 THEN ae[k] ELSE b[k - (p + 1)]
    <3>1. /\ ae \o b \in Seq(S) /\ Len(ae \o b) = Len(ae) + Len(b)
          /\ \A k \in 1 .. Len(ae) + Len(b) :
               (ae \o b)[k] = IF k <= Len(ae) THEN ae[k] ELSE b[k - Len(ae)]
      BY <1>3, <1>5, ConcatProperties
    <3>2. QED
      BY <1>3, <1>5, <1>c, <3>1
  <2>2. (p + 1) + (n - p) = n + 1
    BY <1>1
  <2>3. QED
    BY <2>1, <2>2
<1>7. \A k \in 1 .. n + 1 : r[k] = IF k <= p THEN q[k]
                                   ELSE IF k = p + 1 THEN e ELSE q[k - 1]
  <2> SUFFICES ASSUME NEW k \in 1 .. n + 1
               PROVE  r[k] = IF k <= p THEN q[k]
                             ELSE IF k = p + 1 THEN e ELSE q[k - 1]
    OBVIOUS
  <2>1. CASE k <= p + 1
    <3>1. k \in 1 .. p + 1 /\ (k <= p \/ k = p + 1)
      BY <1>1, <2>1
    <3>2. QED
      BY <1>1, <1>5, <1>6, <2>1, <3>1
  <2>2. CASE ~(k <= p + 1)
    <3>1. k - (p + 1) \in 1 .. n - p /\ p + (k - (p + 1)) = k - 1 /\ ~(k <= p) /\ k # p + 1
      BY <1>1, <2>2
    <3>2. b[k - (p + 1)] = q[p + (k - (p + 1))]
      BY <1>3, <3>1
    <3>3. QED
      BY <1>6, <2>2, <3>1, <3>2
  <2>3. QED
    BY <2>1, <2>2
<1>8. DOMAIN r = 1 .. n + 1
  BY <1>6, LenProperties
\* Where the k-th entry of r comes from, and where the i-th entry of q goes.
<1>9. \A k \in 1 .. n + 1 : \/ k <= p /\ k \in 1 .. n
                            \/ k = p + 1
                            \/ ~(k <= p) /\ k # p + 1 /\ k - 1 \in 1 .. n
  BY <1>1
<1>10. CallsIn(r) = CallsIn(q) \cup {e.call}
  <2>1. ASSUME NEW k \in 1 .. n + 1 PROVE r[k].call \in CallsIn(q) \cup {e.call}
    <3>1. r[k] = e \/ \E i \in 1 .. n : r[k] = q[i]
      BY <1>7, <1>9
    <3>2. QED
      BY <1>1, <3>1 DEF CallsIn
  <2>2. ASSUME NEW i \in 1 .. n PROVE q[i].call \in CallsIn(r)
    <3>1. CASE i <= p
      <4>1. i \in 1 .. n + 1
        BY <1>1
      <4>2. r[i] = q[i]
        BY <1>7, <3>1, <4>1
      <4>3. QED
        BY <1>8, <4>1, <4>2 DEF CallsIn
    <3>2. CASE ~(i <= p)
      <4>1. i + 1 \in 1 .. n + 1 /\ ~(i + 1 <= p) /\ i + 1 # p + 1 /\ (i + 1) - 1 = i
        BY <1>1, <3>2
      <4>2. r[i + 1] = q[(i + 1) - 1]
        BY <1>7, <4>1
      <4>3. QED
        BY <1>8, <4>1, <4>2 DEF CallsIn
    <3>3. QED
      BY <3>1, <3>2
  <2>3. e.call \in CallsIn(r)
    <3>1. p + 1 \in 1 .. n + 1 /\ ~(p + 1 <= p)
      BY <1>1
    <3>2. r[p + 1] = e
      BY <1>7, <3>1
    <3>3. QED
      BY <1>8, <3>1, <3>2 DEF CallsIn
  <2>4. QED
    BY <1>1, <1>8, <2>1, <2>2, <2>3 DEF CallsIn
<1>11. ASSUME Distinct(q), e.call \notin CallsIn(q) PROVE Distinct(r)
  <2> SUFFICES ASSUME NEW j \in 1 .. n + 1, NEW k \in 1 .. n + 1, r[j].call = r[k].call
               PROVE  j = k
    BY <1>8 DEF Distinct
  <2>1. \A i \in 1 .. n : q[i].call # e.call
    BY <1>1, <1>11 DEF CallsIn
  <2>2. j = p + 1 <=> k = p + 1
    BY <1>1, <1>7, <1>9, <2>1
  <2>3. CASE j # p + 1
    <3> DEFINE src(i) == IF i <= p THEN i ELSE i - 1
    <3>1. k # p + 1 /\ src(j) \in 1 .. n /\ src(k) \in 1 .. n
      BY <1>9, <2>2, <2>3
    <3>2. r[j] = q[src(j)] /\ r[k] = q[src(k)]
      BY <1>7, <2>3, <3>1
    <3>3. src(j) = src(k)
      BY <1>1, <1>11, <3>1, <3>2 DEF Distinct
    <3>4. QED
      BY <1>1, <2>3, <3>1, <3>3
  <2>4. QED
    BY <2>2, <2>3
<1>12. QED
  BY <1>6, <1>7, <1>10, <1>11 DEF r, n

\* An entry goes behind the entries that are due before it and ahead of those
\* that are due after it.
LEMMA InsertAtProperties ==
    ASSUME NEW q \in Seq(DelayedEntry), Sorted(q), NEW d \in Times
    PROVE  /\ InsertAt(q, d) \in 0 .. Len(q)
           /\ \A i \in DOMAIN q : i <= InsertAt(q, d) => q[i].deadline <= d
           /\ \A i \in DOMAIN q : ~(i <= InsertAt(q, d)) => d <= q[i].deadline
<1> DEFINE n == Len(q)
           later == {i \in DOMAIN q : d <= q[i].deadline}
           f == FirstOf(later)
<1>1. n \in Nat /\ DOMAIN q = 1 .. n /\ d \in Nat
  BY LenProperties, CountsAssumption DEF Times
<1>2. \A i \in DOMAIN q : q[i].deadline \in Nat /\ i \in Nat
  <2>1. \A i \in DOMAIN q : q[i] \in DelayedEntry
    BY <1>1, ElementOfSeq
  <2>2. QED
    BY <1>1, <2>1, CountsAssumption DEF DelayedEntry, Times
<1>3. CASE later = {}
  <2>1. InsertAt(q, d) = n
    BY <1>3 DEF InsertAt
  <2>2. \A i \in DOMAIN q : i <= n /\ q[i].deadline <= d
    BY <1>1, <1>2, <1>3
  <2>3. QED
    BY <1>1, <2>1, <2>2
<1>4. CASE later # {}
  <2>1. f \in later /\ \A k \in later : f <= k
    <3>1. later \in SUBSET Nat
      BY <1>2
    <3>2. QED
      BY <1>4, <3>1, LeastElement
  <2>2. InsertAt(q, d) = IF d = q[f].deadline THEN f ELSE f - 1
    BY <1>4 DEF InsertAt
  <2> HIDE DEF f
  <2>3. f \in 1 .. n /\ d <= q[f].deadline /\ q[f].deadline \in Nat
    BY <1>1, <1>2, <2>1
  <2>4. \A i \in DOMAIN q : i < f => q[i].deadline <= d
    BY <1>1, <1>2, <2>1, <2>3
  <2>5. \A i \in DOMAIN q : f <= i => d <= q[i].deadline
    <3> SUFFICES ASSUME NEW i \in DOMAIN q, f <= i PROVE d <= q[i].deadline
      OBVIOUS
    <3>1. q[f].deadline <= q[i].deadline
      BY <1>1, <2>3 DEF Sorted
    <3>2. QED
      BY <1>1, <1>2, <2>3, <3>1
  <2>6. CASE d = q[f].deadline
    <3>1. \A i \in DOMAIN q : i <= f => i < f \/ i = f
      BY <1>1, <2>3
    <3>2. \A i \in DOMAIN q : ~(i <= f) => f <= i
      BY <1>1, <2>3
    <3>3. \A i \in DOMAIN q : i <= f => q[i].deadline <= d
      <4> SUFFICES ASSUME NEW i \in DOMAIN q, i <= f PROVE q[i].deadline <= d
        OBVIOUS
      <4>1. CASE i < f
        BY <2>4, <4>1
      <4>2. CASE i = f
        BY <1>1, <2>6, <4>2
      <4>3. QED
        BY <3>1, <4>1, <4>2
    <3>4. QED
      BY <1>1, <2>2, <2>3, <2>5, <2>6, <3>2, <3>3
  <2>7. CASE d # q[f].deadline
    <3>1. \A i \in DOMAIN q : (i <= f - 1 => i < f) /\ (~(i <= f - 1) => f <= i)
      BY <1>1, <2>3
    <3>2. f - 1 \in 0 .. n
      BY <1>1, <2>3
    <3>3. QED
      BY <2>2, <2>4, <2>5, <2>7, <3>1, <3>2
  <2>8. QED
    BY <2>6, <2>7
<1>5. QED
  BY <1>3, <1>4

\* The delayed queue stays in order.
LEMMA InsertSorted ==
    ASSUME NEW q \in Seq(DelayedEntry), Sorted(q), NEW e \in DelayedEntry
    PROVE  Sorted(Inserted(q, InsertAt(q, e.deadline), e))
<1> DEFINE d == e.deadline
           p == InsertAt(q, d)
           n == Len(q)
           r == Inserted(q, p, e)
<1>1. d \in Times
  BY DEF DelayedEntry
<1>2. n \in Nat /\ DOMAIN q = 1 .. n
  BY LenProperties
<1>3. /\ p \in 0 .. n
      /\ \A i \in 1 .. n : i <= p => q[i].deadline <= d
      /\ \A i \in 1 .. n : ~(i <= p) => d <= q[i].deadline
  BY <1>1, <1>2, InsertAtProperties
<1> HIDE DEF p
<1>4. /\ r \in Seq(DelayedEntry) /\ Len(r) = n + 1
      /\ \A k \in 1 .. n + 1 : r[k] = IF k <= p THEN q[k]
                                      ELSE IF k = p + 1 THEN e ELSE q[k - 1]
  <2>1. p \in 0 .. Len(q)
    BY <1>3
  <2>2. Inserted(q, p, e) \in Seq(DelayedEntry)
    BY <2>1, InsertCalls
  <2>3. Len(Inserted(q, p, e)) = Len(q) + 1
    BY <2>1, InsertCalls
  <2>4. \A k \in 1 .. Len(q) + 1 :
          Inserted(q, p, e)[k] = IF k <= p THEN q[k]
                                 ELSE IF k = p + 1 THEN e ELSE q[k - 1]
    BY <2>1, InsertCalls
  <2>5. QED
    BY <2>2, <2>3, <2>4
<1>5. DOMAIN r = 1 .. n + 1
  BY <1>4, LenProperties
<1> HIDE DEF r, d
<1>6. \A i, j \in 1 .. n : i <= j => q[i].deadline <= q[j].deadline
  BY <1>2 DEF Sorted
<1>7. \A i \in 1 .. n : q[i].deadline \in Nat
  <2>1. \A i \in 1 .. n : q[i] \in DelayedEntry
    BY ElementOfSeq DEF n
  <2>2. QED
    BY <2>1, CountsAssumption DEF DelayedEntry, Times
<1>8. d \in Nat
  BY <1>1, CountsAssumption DEF Times
<1> HIDE DEF n
<1> SUFFICES ASSUME NEW j \in 1 .. n + 1, NEW k \in 1 .. n + 1, j < k
             PROVE  r[j].deadline <= r[k].deadline
  <2>1. \A j \in 1 .. n + 1 : r[j].deadline \in Nat
    <3>1. \A j \in 1 .. n + 1 : r[j] \in DelayedEntry
      BY <1>4, <1>5, ElementOfSeq
    <3>2. QED
      BY <3>1, CountsAssumption DEF DelayedEntry, Times
  <2>2. \A j, k \in 1 .. n + 1 : j <= k => j < k \/ j = k
    BY <1>2
  <2>3. ASSUME \A j, k \in 1 .. n + 1 : j < k => r[j].deadline <= r[k].deadline
        PROVE  Sorted(r)
    BY <1>5, <2>1, <2>2, <2>3 DEF Sorted
  <2>4. QED
    BY <2>3 DEF r, p, d
<1>9. CASE j <= p /\ k <= p
  <2>1. j \in 1 .. n /\ k \in 1 .. n
    BY <1>2, <1>3, <1>9
  <2>2. QED
    BY <1>4, <1>6, <1>9, <2>1
<1>10. CASE j <= p /\ k = p + 1
  <2>1. j \in 1 .. n /\ ~(k <= p)
    BY <1>2, <1>3, <1>10
  <2>2. r[j] = q[j] /\ r[k] = e
    BY <1>4, <1>10, <2>1
  <2>3. QED
    BY <1>3, <1>10, <2>1, <2>2 DEF d
<1>11. CASE j <= p /\ ~(k <= p + 1)
  <2>1. j \in 1 .. n /\ k - 1 \in 1 .. n /\ ~(k - 1 <= p) /\ ~(k <= p) /\ k # p + 1
        /\ j <= k - 1
    BY <1>2, <1>3, <1>11
  <2>2. r[j] = q[j] /\ r[k] = q[k - 1]
    BY <1>4, <1>11, <2>1
  <2>3. QED
    BY <1>6, <2>1, <2>2
<1>12. CASE j = p + 1
  <2>1. k - 1 \in 1 .. n /\ ~(k - 1 <= p) /\ ~(k <= p) /\ k # p + 1 /\ ~(j <= p)
    BY <1>2, <1>3, <1>12
  <2>2. r[j] = e /\ r[k] = q[k - 1]
    BY <1>4, <1>12, <2>1
  <2>3. QED
    BY <1>3, <2>1, <2>2 DEF d
<1>13. CASE ~(j <= p + 1)
  <2>1. /\ j - 1 \in 1 .. n /\ k - 1 \in 1 .. n /\ j - 1 <= k - 1
        /\ ~(j <= p) /\ j # p + 1 /\ ~(k <= p) /\ k # p + 1
    BY <1>2, <1>3, <1>13
  <2>2. r[j] = q[j - 1] /\ r[k] = q[k - 1]
    BY <1>4, <2>1
  <2>3. QED
    BY <1>6, <2>1, <2>2
<1>14. QED
  <2>1. j <= p \/ j = p + 1 \/ ~(j <= p + 1)
    BY <1>2, <1>3
  <2>2. k <= p \/ k = p + 1 \/ ~(k <= p + 1)
    BY <1>2, <1>3
  <2>3. QED
    BY <1>9, <1>10, <1>11, <1>12, <1>13, <2>1, <2>2

\* The due entries are those at the head of the delayed queue.
LEMMA DueProperties ==
    ASSUME delayed \in Seq(DelayedEntry), stamp \in Times
    PROVE  DueNum \in 0 .. Len(delayed)
<1> DEFINE n == Len(delayed)
           late == {i \in 1 .. n : delayed[i].deadline > stamp}
           Due(k) == /\ \A i \in 1 .. k : delayed[i].deadline <= stamp
                     /\ k < n => delayed[k + 1].deadline > stamp
<1>1. n \in Nat /\ stamp \in Nat
  BY LenProperties, CountsAssumption DEF Times
<1>2. \A i \in 1 .. n : delayed[i].deadline \in Nat
  <2>1. \A i \in 1 .. n : delayed[i] \in DelayedEntry
    BY ElementOfSeq
  <2>2. QED
    BY <2>1, CountsAssumption DEF DelayedEntry, Times
<1>3. \E k \in 0 .. n : Due(k)
  <2>1. CASE late = {}
    <3>1. \A i \in 1 .. n : delayed[i].deadline <= stamp
      BY <1>1, <1>2, <2>1
    <3>2. Due(n) /\ n \in 0 .. n
      BY <1>1, <3>1
    <3>3. QED
      BY <3>2
  <2>2. CASE late # {}
    <3> DEFINE f == FirstOf(late)
    <3>1. f \in late /\ \A k \in late : f <= k
      <4>1. late \in SUBSET Nat
        BY <1>1
      <4>2. QED
        BY <2>2, <4>1, LeastElement
    <3> HIDE DEF f
    <3>2. f \in 1 .. n /\ delayed[f].deadline > stamp
      BY <3>1
    <3>3. \A i \in 1 .. f - 1 : delayed[i].deadline <= stamp
      <4> SUFFICES ASSUME NEW i \in 1 .. f - 1 PROVE delayed[i].deadline <= stamp
        OBVIOUS
      <4>1. i \in 1 .. n /\ ~(f <= i)
        BY <1>1, <3>2
      <4>2. i \notin late
        BY <3>1, <4>1
      <4>3. QED
        BY <1>1, <1>2, <4>1, <4>2
    <3>4. f - 1 \in 0 .. n /\ (f - 1) + 1 = f
      BY <1>1, <3>2
    <3>5. Due(f - 1)
      BY <3>2, <3>3, <3>4
    <3>6. QED
      BY <3>4, <3>5
  <2>3. QED
    BY <2>1, <2>2
<1>4. DueNum \in 0 .. n
  BY <1>3 DEF DueNum
<1>5. QED
  BY <1>4

-----------------------------------------------------------------------------
(* The queues on any number of processors.                                 *)

\* An entry whose status names a queue is there.  The converse fails on a
\* multiprocessor, where an entry in transit can be entered again.
Listed ==
    \A c \in Calls : /\ status[c] = "PENDING" => c \in CallsIn(pending)
                     /\ status[c] = "DELAYED" => c \in CallsIn(delayed)

\* The inductive invariant.
QueueInv ==
    /\ TypeOK
    /\ pending_call_num = Len(pending)
    /\ Listed
    /\ Sorted(delayed)
    /\ TimerArmed

\* What the steps that leave the queues, the clock and the interrupt alone have
\* to show.
LEMMA QueuesUntouched ==
    ASSUME QueueInv, TypeOK',
           UNCHANGED <<status, pending, delayed, pending_call_num, timer, intr>>
    PROVE  QueueInv'
BY DEF QueueInv, Listed, Sorted, TimerArmed, CallsIn

\* _delayed_call_enqueue keeps the queue in order, and the timer expires in time
\* for the new entry too.
LEMMA EnqueueDelayed ==
    ASSUME QueueInv, NEW e \in DelayedEntry, _delayed_call_enqueue(e), UNCHANGED intr
    PROVE  /\ delayed' \in Seq(DelayedEntry)
           /\ Sorted(delayed')
           /\ CallsIn(delayed') = CallsIn(delayed) \cup {e.call}
           /\ timer' \in [is_set : BOOLEAN, expire_time : Times]
           /\ TimerArmed'
<1> DEFINE d == e.deadline
           p == InsertAt(delayed, d)
           n == Len(delayed)
           r == Inserted(delayed, p, e)
<1>1. /\ delayed \in Seq(DelayedEntry) /\ Sorted(delayed)
      /\ timer \in [is_set : BOOLEAN, expire_time : Times]
  BY DEF QueueInv, TypeOK
<1>2. d \in Times /\ d \in Nat
  BY CountsAssumption DEF DelayedEntry, Times
<1>3. n \in Nat /\ DOMAIN delayed = 1 .. n
  BY <1>1, LenProperties
<1>4. /\ p \in 0 .. n
      /\ \A i \in 1 .. n : i <= p => delayed[i].deadline <= d
      /\ \A i \in 1 .. n : ~(i <= p) => d <= delayed[i].deadline
  BY <1>1, <1>2, <1>3, InsertAtProperties
<1>5. delayed' = r /\ timer' = IF p = 0 THEN [is_set |-> TRUE, expire_time |-> d]
                               ELSE timer
  BY DEF _delayed_call_enqueue, Inserted
<1>6. Sorted(r)
  BY <1>1, InsertSorted
<1> HIDE DEF p
<1>7. /\ r \in Seq(DelayedEntry) /\ Len(r) = n + 1
      /\ CallsIn(r) = CallsIn(delayed) \cup {e.call}
      /\ \A k \in 1 .. n + 1 : r[k] = IF k <= p THEN delayed[k]
                                      ELSE IF k = p + 1 THEN e ELSE delayed[k - 1]
  <2>1. p \in 0 .. Len(delayed)
    BY <1>4
  <2>2. Inserted(delayed, p, e) \in Seq(DelayedEntry)
    BY <1>1, <2>1, InsertCalls
  <2>3. Len(Inserted(delayed, p, e)) = Len(delayed) + 1
    BY <1>1, <2>1, InsertCalls
  <2>4. CallsIn(Inserted(delayed, p, e)) = CallsIn(delayed) \cup {e.call}
    BY <1>1, <2>1, InsertCalls
  <2>5. \A k \in 1 .. Len(delayed) + 1 :
          Inserted(delayed, p, e)[k] = IF k <= p THEN delayed[k]
                                       ELSE IF k = p + 1 THEN e ELSE delayed[k - 1]
    BY <1>1, <2>1, InsertCalls
  <2>6. QED
    BY <2>2, <2>3, <2>4, <2>5
<1> HIDE DEF r
<1>8. DOMAIN r = 1 .. n + 1
  BY <1>7, LenProperties
<1>9. timer' \in [is_set : BOOLEAN, expire_time : Times]
  BY <1>1, <1>2, <1>5
<1>10. \A i \in 1 .. n : delayed[i].deadline \in Nat
  <2>1. \A i \in 1 .. n : delayed[i] \in DelayedEntry
    BY <1>1, ElementOfSeq
  <2>2. QED
    BY <2>1, CountsAssumption DEF DelayedEntry, Times
<1>11. TimerArmed'
  <2> SUFFICES ASSUME intr # "lock", NEW k \in 1 .. n + 1
               PROVE  timer'.is_set /\ timer'.expire_time <= r[k].deadline
    BY <1>5, <1>8 DEF TimerArmed
  <2>0. \A i \in 1 .. n : timer.is_set /\ timer.expire_time <= delayed[i].deadline
    BY <1>3 DEF QueueInv, TimerArmed
  <2> HIDE DEF n
  <2>1. CASE p = 0
    <3>1. timer'.is_set /\ timer'.expire_time = d
      BY <1>5, <2>1
    <3>2. CASE k = 1
      <4>1. r[k] = e
        BY <1>7, <2>1, <3>2
      <4>2. QED
        BY <1>2, <3>1, <4>1
    <3>3. CASE k # 1
      <4>1. k - 1 \in 1 .. n /\ ~(k - 1 <= p) /\ ~(k <= p) /\ k # p + 1
        BY <1>3, <2>1, <3>3
      <4>2. r[k] = delayed[k - 1]
        BY <1>7, <4>1
      <4>3. QED
        BY <1>4, <3>1, <4>1, <4>2
    <3>4. QED
      BY <3>2, <3>3
  <2>2. CASE p # 0
    <3>1. timer' = timer
      BY <1>5, <2>2
    <3>2. p \in 1 .. n /\ p <= p
      BY <1>3, <1>4, <2>2
    <3>3. delayed[p].deadline <= d
      BY <1>4, <3>2
    <3>4. timer.is_set /\ timer.expire_time <= d
      <4>1. timer.is_set /\ timer.expire_time <= delayed[p].deadline
        BY <2>0, <3>2
      <4>2. timer.expire_time \in Nat
        BY <1>1, CountsAssumption DEF Times
      <4>3. QED
        BY <1>2, <1>10, <3>2, <3>3, <4>1, <4>2
    <3>5. CASE k <= p
      <4>1. k \in 1 .. n
        BY <1>3, <3>2, <3>5
      <4>2. QED
        BY <1>7, <2>0, <3>1, <3>5, <4>1
    <3>6. CASE k = p + 1
      <4>1. ~(k <= p)
        BY <3>2, <3>6
      <4>2. r[k] = e
        BY <1>7, <3>6, <4>1
      <4>3. QED
        BY <3>1, <3>4, <4>2
    <3>7. CASE ~(k <= p) /\ k # p + 1
      <4>1. k - 1 \in 1 .. n
        BY <1>3, <3>2, <3>7
      <4>2. r[k] = delayed[k - 1]
        BY <1>7, <3>7
      <4>3. QED
        BY <2>0, <3>1, <4>1, <4>2
    <3>8. QED
      BY <3>5, <3>6, <3>7
  <2>3. QED
    BY <2>1, <2>2
<1>12. QED
  BY <1>5, <1>6, <1>7, <1>9, <1>11

\* Removals leave the delayed queue in order and the timer early enough.
LEMMA RemoveDelayed ==
    ASSUME QueueInv, NEW I \in SUBSET DOMAIN delayed, delayed' = Without(delayed, I),
           UNCHANGED <<timer, intr>>
    PROVE  /\ delayed' \in Seq(DelayedEntry)
           /\ Sorted(delayed')
           /\ TimerArmed'
           /\ \A c \in CallsIn(delayed) :
                (\A i \in I : delayed[i].call # c) => c \in CallsIn(delayed')
<1>1. delayed \in Seq(DelayedEntry) /\ Sorted(delayed)
  BY DEF QueueInv, TypeOK
<1>2. /\ delayed' \in Seq(DelayedEntry) /\ Sorted(delayed')
      /\ \A j \in DOMAIN delayed' : \E i \in DOMAIN delayed : delayed'[j] = delayed[i]
  BY <1>1, WithoutProperties, WithoutCalls, WithoutOthers
<1>3. TimerArmed'
  BY <1>2 DEF QueueInv, TimerArmed
<1>4. QED
  BY <1>1, <1>2, <1>3, WithoutOthers

\* Removals from the pending queue.
LEMMA RemovePending ==
    ASSUME QueueInv, NEW I \in SUBSET DOMAIN pending, pending' = Without(pending, I),
           pending_call_num' = pending_call_num - Cardinality(I)
    PROVE  /\ pending' \in Seq(Entry)
           /\ pending_call_num' = Len(pending')
           /\ \A c \in CallsIn(pending) :
                (\A i \in I : pending[i].call # c) => c \in CallsIn(pending')
<1>1. pending \in Seq(Entry) /\ pending_call_num = Len(pending)
  BY DEF QueueInv, TypeOK
<1>2. pending' \in Seq(Entry) /\ Len(pending') = Len(pending) - Cardinality(I)
  BY <1>1, WithoutProperties
<1>3. QED
  BY <1>1, <1>2, WithoutOthers

LEMMA AppendPending ==
    ASSUME QueueInv, NEW e \in Entry, pending' = Append(pending, e),
           pending_call_num' = pending_call_num + 1
    PROVE  /\ pending' \in Seq(Entry)
           /\ pending_call_num' = Len(pending')
           /\ CallsIn(pending') = CallsIn(pending) \cup {e.call}
<1>1. pending \in Seq(Entry) /\ pending_call_num = Len(pending)
  BY DEF QueueInv, TypeOK
<1>2. QED
  BY <1>1, AppendCalls

\* thread_call_release: the entries it takes from the queues are on the free
\* queue again.
LEMMA ReleaseType ==
    ASSUME free \in Seq(Internal), NEW c
    PROVE  Release(free, c) \in Seq(Internal)
BY AppendProperties DEF Release

\* A length is a natural number.
LEMMA CountType ==
    ASSUME pending' \in Seq(Entry), pending_call_num' = Len(pending')
    PROVE  pending_call_num' \in Nat
BY LenProperties

\* The parts of TypeOK, by the section that changes them.
ClientTypes == /\ spec_proto \in [External -> Jobs]
               /\ allocated \subseteq External
               /\ cancelled \subseteq allocated
QueueTypes  == /\ status \in [Calls -> Status]
               /\ free \in Seq(Internal)
               /\ pending \in Seq(Entry)
               /\ delayed \in Seq(DelayedEntry)
               /\ pending_call_num \in Nat
PoolTypes   == /\ active_call_num \in Nat /\ call_thread_num \in Nat
               /\ ready \in Nat /\ waiters \in Nat
               /\ activate \in BOOLEAN
ClockTypes  == /\ timer \in [is_set : BOOLEAN, expire_time : Times]
               /\ now \in Times
IntrTypes   == /\ intr \in {"off", "lock", "loop", "wake", "relock"}
               /\ stamp \in Times
               /\ transit \in Seq(Entry)
               /\ intrWake \in BOOLEAN
WakeTypes   == waking \in [WakeKinds -> Nat]

LEMMA TypeParts ==
    /\ TypeOK <=> /\ ClientTypes /\ QueueTypes /\ PoolTypes
                  /\ ClockTypes /\ IntrTypes /\ WakeTypes
    /\ TypeOK' <=> /\ ClientTypes' /\ QueueTypes' /\ PoolTypes'
                   /\ ClockTypes' /\ IntrTypes' /\ WakeTypes'
BY DEF TypeOK, ClientTypes, QueueTypes, PoolTypes, ClockTypes, IntrTypes, WakeTypes

\* What does not change keeps its type.
LEMMA TypesKept ==
    /\ ClientTypes /\ UNCHANGED clientVars => ClientTypes'
    /\ QueueTypes /\ UNCHANGED queueVars => QueueTypes'
    /\ PoolTypes /\ UNCHANGED poolVars => PoolTypes'
    /\ ClockTypes /\ UNCHANGED clockVars => ClockTypes'
    /\ IntrTypes /\ UNCHANGED intrVars => IntrTypes'
    /\ WakeTypes /\ UNCHANGED waking => WakeTypes'
BY DEF ClientTypes, QueueTypes, PoolTypes, ClockTypes, IntrTypes, WakeTypes,
       clientVars, queueVars, poolVars, clockVars, intrVars

-----------------------------------------------------------------------------
(* Entering a call.                                                        *)

\* An entry goes to the pending queue.
LEMMA PendStep ==
    ASSUME QueueInv, NEW e \in Entry, PendAndWake(e),
           status' = [status EXCEPT ![e.call] = "PENDING"],
           ClientTypes', free' \in Seq(Internal),
           UNCHANGED <<delayed, poolVars, clockVars, intrVars>>
    PROVE  QueueInv'
<1>1. /\ pending' = Append(pending, e) /\ pending_call_num' = pending_call_num + 1
      /\ \E kind \in WakeKinds : waking' = [waking EXCEPT ![kind] = @ + 1]
  BY DEF PendAndWake, WakeKinds
<1>2. /\ pending' \in Seq(Entry) /\ pending_call_num' = Len(pending')
      /\ CallsIn(pending') = CallsIn(pending) \cup {e.call}
  BY <1>1, AppendPending
<1>3. /\ QueueTypes /\ PoolTypes /\ ClockTypes /\ IntrTypes /\ WakeTypes
      /\ Listed /\ Sorted(delayed) /\ TimerArmed
  BY TypeParts DEF QueueInv
<1>4. e.call \in Calls
  BY DEF Entry
<1>5. QueueTypes'
  <2>1. pending_call_num' \in Nat
    BY <1>2, CountType
  <2>2. QED
    BY <1>2, <1>3, <1>4, <2>1 DEF QueueTypes, Status
<1>6. WakeTypes'
  BY <1>1, <1>3 DEF WakeTypes
<1>7. TypeOK'
  BY <1>3, <1>5, <1>6, TypeParts, TypesKept
<1>8. Listed'
  BY <1>2, <1>3, <1>4 DEF Listed, QueueTypes
<1>9. Sorted(delayed') /\ TimerArmed'
  <2>1. delayed' = delayed /\ timer' = timer /\ intr' = intr
    BY DEF clockVars, intrVars
  <2>2. QED
    BY <1>3, <2>1 DEF Sorted, TimerArmed
<1>10. QED
  BY <1>2, <1>7, <1>8, <1>9 DEF QueueInv

\* An entry goes to the delayed queue.
LEMMA DelayStep ==
    ASSUME QueueInv, NEW e \in DelayedEntry, _delayed_call_enqueue(e),
           status' = [status EXCEPT ![e.call] = "DELAYED"],
           ClientTypes', free' \in Seq(Internal),
           UNCHANGED <<pending, pending_call_num, poolVars, waking, now, intrVars>>
    PROVE  QueueInv'
<1>1. intr' = intr /\ now' = now /\ pending' = pending /\ pending_call_num' = pending_call_num
  BY DEF intrVars
<1>2. /\ delayed' \in Seq(DelayedEntry) /\ Sorted(delayed')
      /\ CallsIn(delayed') = CallsIn(delayed) \cup {e.call}
      /\ timer' \in [is_set : BOOLEAN, expire_time : Times]
      /\ TimerArmed'
  BY <1>1, EnqueueDelayed
<1>3. /\ QueueTypes /\ PoolTypes /\ ClockTypes /\ IntrTypes /\ WakeTypes
      /\ Listed /\ pending_call_num = Len(pending)
  BY TypeParts DEF QueueInv
<1>4. e.call \in Calls
  BY DEF DelayedEntry
<1>5. QueueTypes'
  BY <1>1, <1>2, <1>3, <1>4 DEF QueueTypes, Status
<1>6. ClockTypes'
  BY <1>1, <1>2, <1>3 DEF ClockTypes
<1>7. TypeOK'
  BY <1>3, <1>5, <1>6, TypeParts, TypesKept
<1>8. Listed'
  BY <1>1, <1>2, <1>3, <1>4 DEF Listed, QueueTypes
<1>9. QED
  BY <1>1, <1>2, <1>3, <1>7, <1>8 DEF QueueInv

\* The first free entry, as the function callouts use it.
LEMMA FreeHead ==
    ASSUME QueueInv, free # <<>>
    PROVE  Head(free) \in Calls /\ Tail(free) \in Seq(Internal)
BY HeadTailProperties DEF QueueInv, TypeOK, Calls

LEMMA EnterKeeps ==
    ASSUME QueueInv
    PROVE  /\ \A job \in Jobs, unique \in BOOLEAN :
                thread_call_func(job, unique) => QueueInv'
           /\ \A job \in Jobs, deadline \in Times :
                thread_call_func_delayed(job, deadline) => QueueInv'
           /\ \A call \in External, job \in Jobs :
                thread_call_enter_spec(call, job) => QueueInv'
           /\ \A call \in External, job \in Jobs, deadline \in Times :
                thread_call_enter_spec_delayed(call, job, deadline) => QueueInv'
<1>0. ClientTypes /\ free \in Seq(Internal)
  BY TypeParts DEF QueueInv, QueueTypes
<1>1. ASSUME NEW job \in Jobs, NEW unique \in BOOLEAN, thread_call_func(job, unique)
      PROVE  QueueInv'
  <2> DEFINE e == [call |-> Head(free), job |-> job]
  <2>1. /\ free # <<>> /\ free' = Tail(free)
        /\ status' = [status EXCEPT ![Head(free)] = "PENDING"]
        /\ PendAndWake(e)
        /\ UNCHANGED <<clientVars, delayed, poolVars, clockVars, intrVars>>
    BY <1>1 DEF thread_call_func
  <2>2. e \in Entry /\ e.call = Head(free) /\ free' \in Seq(Internal)
    BY <2>1, FreeHead DEF Entry
  <2>3. ClientTypes'
    BY <1>0, <2>1, TypesKept
  <2> HIDE DEF e
  <2>4. QED
    BY <2>1, <2>2, <2>3, PendStep
<1>2. ASSUME NEW job \in Jobs, NEW deadline \in Times,
             thread_call_func_delayed(job, deadline)
      PROVE  QueueInv'
  <2> DEFINE e == [call |-> Head(free), job |-> job, deadline |-> deadline]
  <2>1. /\ free # <<>> /\ free' = Tail(free)
        /\ status' = [status EXCEPT ![Head(free)] = "DELAYED"]
        /\ _delayed_call_enqueue(e)
        /\ UNCHANGED <<clientVars, pending, pending_call_num, poolVars, waking, now, intrVars>>
    BY <1>2 DEF thread_call_func_delayed
  <2>2. e \in DelayedEntry /\ e.call = Head(free) /\ free' \in Seq(Internal)
    BY <2>1, FreeHead DEF DelayedEntry
  <2>3. ClientTypes'
    BY <1>0, <2>1, TypesKept
  <2> HIDE DEF e
  <2>4. QED
    BY <2>1, <2>2, <2>3, DelayStep
<1>3. ASSUME NEW call \in External, NEW job \in Jobs, thread_call_enter_spec(call, job)
      PROVE  QueueInv'
  <2> DEFINE e == [call |-> call, job |-> job]
  <2>1. /\ status' = [status EXCEPT ![call] = "PENDING"]
        /\ PendAndWake(e)
        /\ cancelled' = cancelled \ {call}
        /\ UNCHANGED <<spec_proto, allocated, free, delayed, poolVars, clockVars, intrVars>>
    BY <1>3 DEF thread_call_enter_spec
  <2>2. e \in Entry /\ e.call = call
    BY DEF Entry, Calls
  <2>3. ClientTypes' /\ free' \in Seq(Internal)
    BY <1>0, <2>1 DEF ClientTypes
  <2> HIDE DEF e
  <2>4. QED
    BY <2>1, <2>2, <2>3, PendStep
<1>4. ASSUME NEW call \in External, NEW job \in Jobs, NEW deadline \in Times,
             thread_call_enter_spec_delayed(call, job, deadline)
      PROVE  QueueInv'
  <2> DEFINE e == [call |-> call, job |-> job, deadline |-> deadline]
  <2>1. /\ status' = [status EXCEPT ![call] = "DELAYED"]
        /\ _delayed_call_enqueue(e)
        /\ cancelled' = cancelled \ {call}
        /\ UNCHANGED <<spec_proto, allocated, free, pending, pending_call_num, poolVars,
                       waking, now, intrVars>>
    BY <1>4 DEF thread_call_enter_spec_delayed
  <2>2. e \in DelayedEntry /\ e.call = call
    BY DEF DelayedEntry, Calls
  <2>3. ClientTypes' /\ free' \in Seq(Internal)
    BY <1>0, <2>1 DEF ClientTypes
  <2> HIDE DEF e
  <2>4. QED
    BY <2>1, <2>2, <2>3, DelayStep
<1>5. QED
  BY <1>1, <1>2, <1>3, <1>4

-----------------------------------------------------------------------------
(* Cancelling calls.                                                       *)

LEMMA CancelStep ==
    ASSUME QueueInv,
           pending' \in Seq(Entry), pending_call_num' = Len(pending'),
           delayed' \in Seq(DelayedEntry), Sorted(delayed'), TimerArmed',
           status' \in [Calls -> Status],
           \A c \in Calls :
              /\ status'[c] = "PENDING" =>
                   status[c] = "PENDING" /\ (c \in CallsIn(pending) => c \in CallsIn(pending'))
              /\ status'[c] = "DELAYED" =>
                   status[c] = "DELAYED" /\ (c \in CallsIn(delayed) => c \in CallsIn(delayed')),
           ClientTypes', free' \in Seq(Internal),
           UNCHANGED <<poolVars, waking, clockVars, intrVars>>
    PROVE  QueueInv'
<1>1. PoolTypes /\ ClockTypes /\ IntrTypes /\ WakeTypes /\ Listed
  BY TypeParts DEF QueueInv
<1>2. QueueTypes'
  <2>1. pending_call_num' \in Nat
    BY CountType
  <2>2. QED
    BY <2>1 DEF QueueTypes
<1>3. TypeOK'
  BY <1>1, <1>2, TypeParts, TypesKept
<1>4. Listed'
  BY <1>1 DEF Listed
<1>5. QED
  BY <1>3, <1>4 DEF QueueInv

\* The first position with some property is one.
LEMMA FirstPosition ==
    ASSUME NEW S, NEW q \in Seq(S), NEW I \in SUBSET DOMAIN q, I # {}
    PROVE  /\ FirstOf(I) \in I
           /\ {FirstOf(I)} \in SUBSET DOMAIN q
           /\ Cardinality({FirstOf(I)}) = 1
<1>1. DOMAIN q = 1 .. Len(q) /\ Len(q) \in Nat
  BY LenProperties
<1>2. I \in SUBSET Nat
  <2>1. \A i \in 1 .. Len(q) : i \in Nat
    BY <1>1
  <2>2. QED
    BY <1>1, <2>1
<1>3. FirstOf(I) \in I
  BY <1>2, LeastElement
<1>4. QED
  BY <1>3, FS_Singleton

\* One entry leaves the pending queue and is idle.
LEMMA RemoveOnePending ==
    ASSUME QueueInv, NEW I \in SUBSET DOMAIN pending, I # {},
           pending' = Without(pending, {FirstOf(I)}),
           pending_call_num' = pending_call_num - 1,
           status' = [status EXCEPT ![pending[FirstOf(I)].call] = "IDLE"],
           ClientTypes', free' \in Seq(Internal),
           UNCHANGED <<delayed, poolVars, waking, clockVars, intrVars>>
    PROVE  QueueInv'
<1> DEFINE f == FirstOf(I)
<1>1. /\ pending \in Seq(Entry) /\ status \in [Calls -> Status]
      /\ delayed \in Seq(DelayedEntry) /\ Sorted(delayed) /\ TimerArmed
  BY DEF QueueInv, TypeOK
<1>2. f \in I /\ {f} \in SUBSET DOMAIN pending /\ Cardinality({f}) = 1
  BY <1>1, FirstPosition
<1>3. status' = [status EXCEPT ![pending[f].call] = "IDLE"]
  OBVIOUS
<1> HIDE DEF f
<1>4. pending' = Without(pending, {f}) /\ pending_call_num' = pending_call_num - Cardinality({f})
  BY <1>2 DEF f
<1>5. /\ pending' \in Seq(Entry) /\ pending_call_num' = Len(pending')
      /\ \A c \in CallsIn(pending) : pending[f].call # c => c \in CallsIn(pending')
  <2>1. /\ pending' \in Seq(Entry) /\ pending_call_num' = Len(pending')
        /\ \A c \in CallsIn(pending) :
             (\A i \in {f} : pending[i].call # c) => c \in CallsIn(pending')
    BY <1>2, <1>4, RemovePending
  <2>2. QED
    BY <2>1
<1>6. status' \in [Calls -> Status]
  BY <1>1, <1>3 DEF Status
<1>7. \A c \in Calls : /\ status'[c] # "IDLE" => c # pending[f].call
                       /\ c # pending[f].call => status'[c] = status[c]
  BY <1>1, <1>3
<1>8. delayed' = delayed /\ timer' = timer /\ intr' = intr
  BY DEF clockVars, intrVars
<1>9. Sorted(delayed') /\ TimerArmed' /\ CallsIn(delayed') = CallsIn(delayed)
  BY <1>1, <1>8 DEF Sorted, TimerArmed, CallsIn
<1>10. QED
  BY <1>1, <1>5, <1>6, <1>7, <1>8, <1>9, CancelStep

\* One entry leaves the delayed queue and is idle.
LEMMA RemoveOneDelayed ==
    ASSUME QueueInv, NEW I \in SUBSET DOMAIN delayed, I # {},
           delayed' = Without(delayed, {FirstOf(I)}),
           status' = [status EXCEPT ![delayed[FirstOf(I)].call] = "IDLE"],
           ClientTypes', free' \in Seq(Internal),
           UNCHANGED <<pending, pending_call_num, poolVars, waking, clockVars, intrVars>>
    PROVE  QueueInv'
<1> DEFINE f == FirstOf(I)
<1>1. /\ pending \in Seq(Entry) /\ status \in [Calls -> Status]
      /\ delayed \in Seq(DelayedEntry)
      /\ pending_call_num = Len(pending)
  BY DEF QueueInv, TypeOK
<1>2. f \in I /\ {f} \in SUBSET DOMAIN delayed
  BY <1>1, FirstPosition
<1>3. status' = [status EXCEPT ![delayed[f].call] = "IDLE"]
  OBVIOUS
<1>4. delayed' = Without(delayed, {f})
  OBVIOUS
<1> HIDE DEF f
<1>5. /\ delayed' \in Seq(DelayedEntry) /\ Sorted(delayed') /\ TimerArmed'
      /\ \A c \in CallsIn(delayed) : delayed[f].call # c => c \in CallsIn(delayed')
  <2>1. timer' = timer /\ intr' = intr
    BY DEF clockVars, intrVars
  <2>2. /\ delayed' \in Seq(DelayedEntry) /\ Sorted(delayed') /\ TimerArmed'
        /\ \A c \in CallsIn(delayed) :
             (\A i \in {f} : delayed[i].call # c) => c \in CallsIn(delayed')
    BY <1>2, <1>4, <2>1, RemoveDelayed
  <2>3. QED
    BY <2>2
<1>6. status' \in [Calls -> Status]
  BY <1>1, <1>3 DEF Status
<1>7. \A c \in Calls : /\ status'[c] # "IDLE" => c # delayed[f].call
                       /\ c # delayed[f].call => status'[c] = status[c]
  BY <1>1, <1>3
<1>8. CallsIn(pending') = CallsIn(pending)
  OBVIOUS
<1>9. QED
  BY <1>1, <1>5, <1>6, <1>7, <1>8, CancelStep

LEMMA MatchesDomain ==
    ASSUME NEW q, NEW job
    PROVE  Matches(q, job) \in SUBSET DOMAIN q
BY DEF Matches

LEMMA CancelOneKeeps ==
    ASSUME QueueInv, NEW job, thread_call_func_cancel_one(job)
    PROVE  QueueInv'
<1> DEFINE p == Matches(pending, job)
           d == Matches(delayed, job)
<1>1. ClientTypes /\ free \in Seq(Internal)
  BY TypeParts DEF QueueInv, QueueTypes
<1>2. UNCHANGED <<clientVars, poolVars, waking, clockVars, intrVars>>
  BY DEF thread_call_func_cancel_one
<1>3. ClientTypes'
  BY <1>1, <1>2, TypesKept
<1>4. CASE /\ p # {}
           /\ pending' = Without(pending, {FirstOf(p)})
           /\ status' = [status EXCEPT ![pending[FirstOf(p)].call] = "IDLE"]
           /\ free' = Release(free, pending[FirstOf(p)].call)
           /\ pending_call_num' = pending_call_num - 1
           /\ UNCHANGED delayed
  <2>1. free' \in Seq(Internal) /\ p \in SUBSET DOMAIN pending
    BY <1>1, <1>4, ReleaseType, MatchesDomain
  <2> HIDE DEF p
  <2>2. QED
    BY <1>2, <1>3, <1>4, <2>1, RemoveOnePending
<1>5. CASE /\ p = {} /\ d # {}
           /\ delayed' = Without(delayed, {FirstOf(d)})
           /\ status' = [status EXCEPT ![delayed[FirstOf(d)].call] = "IDLE"]
           /\ free' = Release(free, delayed[FirstOf(d)].call)
           /\ UNCHANGED <<pending, pending_call_num>>
  <2>1. free' \in Seq(Internal) /\ d \in SUBSET DOMAIN delayed
    BY <1>1, <1>5, ReleaseType, MatchesDomain
  <2> HIDE DEF d, p
  <2>2. QED
    BY <1>2, <1>3, <1>5, <2>1, RemoveOneDelayed
<1>6. QED
  BY <1>4, <1>5 DEF thread_call_func_cancel_one

\* The entries that go back to the free queue are internal.
LEMMA ReleasedType ==
    ASSUME NEW S, NEW q \in Seq(S), NEW job
    PROVE  ReleasedBy(q, job) \in Seq(Internal)
<1> DEFINE stay == {i \in DOMAIN q : q[i].job # job \/ q[i].call \notin Internal}
           gone == Without(q, stay)
           r == [i \in DOMAIN gone |-> gone[i].call]
<1>1. stay \in SUBSET DOMAIN q
  OBVIOUS
<1>2. \A i \in DOMAIN q \ stay : q[i].call \in Internal
  OBVIOUS
<1> HIDE DEF stay
<1>3. /\ gone \in Seq(S)
      /\ \A j \in DOMAIN gone : \E i \in DOMAIN q \ stay : gone[j] = q[i]
  BY <1>1, WithoutProperties
<1>4. DOMAIN gone = 1 .. Len(gone) /\ Len(gone) \in Nat
  BY <1>3, LenProperties
<1>5. \A j \in DOMAIN gone : gone[j].call \in Internal
  BY <1>2, <1>3
<1> HIDE DEF gone
<1>6. r \in [1 .. Len(gone) -> Internal]
  BY <1>4, <1>5
<1>7. r \in Seq(Internal)
  <2> HIDE DEF r
  <2> QED BY <1>4, <1>6
<1>8. QED
  BY <1>7 DEF ReleasedBy, r, gone, stay

LEMMA CancelAllKeeps ==
    ASSUME QueueInv, NEW job, thread_call_func_cancel_all(job)
    PROVE  QueueInv'
<1> DEFINE I == Matches(pending, job)
           J == Matches(delayed, job)
           gone == Victims(pending, job) \cup Victims(delayed, job)
<1>1. /\ ClientTypes /\ free \in Seq(Internal)
      /\ status \in [Calls -> Status]
      /\ pending \in Seq(Entry) /\ delayed \in Seq(DelayedEntry)
  BY TypeParts DEF QueueInv, QueueTypes
<1>2. /\ pending' = Without(pending, I)
      /\ pending_call_num' = pending_call_num - Cardinality(I)
      /\ delayed' = Without(delayed, J)
      /\ status' = [c \in Calls |-> IF c \in gone THEN "IDLE" ELSE status[c]]
      /\ free' = free \o ReleasedBy(pending, job) \o ReleasedBy(delayed, job)
      /\ UNCHANGED <<clientVars, poolVars, waking, clockVars, intrVars>>
  BY DEF thread_call_func_cancel_all
<1>3. \A c \in Calls : c \notin gone => /\ \A i \in I : pending[i].call # c
                                        /\ \A i \in J : delayed[i].call # c
  BY DEF Victims
<1>4. I \in SUBSET DOMAIN pending /\ J \in SUBSET DOMAIN delayed
  BY MatchesDomain
<1>5. UNCHANGED <<timer, intr>>
  BY <1>2 DEF clockVars, intrVars
<1> HIDE DEF I, J, gone
<1>6. /\ pending' \in Seq(Entry) /\ pending_call_num' = Len(pending')
      /\ \A c \in CallsIn(pending) :
           (\A i \in I : pending[i].call # c) => c \in CallsIn(pending')
  BY <1>2, <1>4, RemovePending
<1>7. /\ delayed' \in Seq(DelayedEntry) /\ Sorted(delayed') /\ TimerArmed'
      /\ \A c \in CallsIn(delayed) :
           (\A i \in J : delayed[i].call # c) => c \in CallsIn(delayed')
  BY <1>2, <1>4, <1>5, RemoveDelayed
<1>8. ClientTypes'
  BY <1>1, <1>2, TypesKept
<1>9. free' \in Seq(Internal)
  <2>1. /\ ReleasedBy(pending, job) \in Seq(Internal)
        /\ ReleasedBy(delayed, job) \in Seq(Internal)
    BY <1>1, ReleasedType
  <2>2. QED
    BY <1>1, <1>2, <2>1, ConcatProperties
<1>10. status' \in [Calls -> Status]
  BY <1>1, <1>2 DEF Status
<1>11. \A c \in Calls : status'[c] # "IDLE" => c \notin gone /\ status'[c] = status[c]
  BY <1>2
<1>12. QED
  BY <1>2, <1>3, <1>6, <1>7, <1>8, <1>9, <1>10, <1>11, CancelStep

LEMMA CancelKeeps ==
    ASSUME QueueInv, NEW call \in External, thread_call_cancel(call)
    PROVE  QueueInv'
<1> DEFINE P == {i \in DOMAIN pending : pending[i].call = call}
           D == {i \in DOMAIN delayed : delayed[i].call = call}
<1>1. /\ ClientTypes /\ free \in Seq(Internal)
      /\ status \in [Calls -> Status] /\ Listed
      /\ pending \in Seq(Entry) /\ delayed \in Seq(DelayedEntry)
      /\ pending_call_num = Len(pending) /\ Sorted(delayed) /\ TimerArmed
  BY TypeParts DEF QueueInv, QueueTypes
<1>2. /\ call \in allocated
      /\ status' = [status EXCEPT ![call] = "IDLE"]
      /\ cancelled' = cancelled \cup {call}
      /\ UNCHANGED <<spec_proto, allocated, free, poolVars, waking, clockVars, intrVars>>
  BY DEF thread_call_cancel
<1>3. ClientTypes' /\ free' \in Seq(Internal)
  BY <1>1, <1>2 DEF ClientTypes
<1>4. call \in Calls
  BY DEF Calls
<1>5. CASE status[call] = "PENDING"
  <2>1. /\ pending' = Without(pending, {FirstOf(P)})
        /\ pending_call_num' = pending_call_num - 1
        /\ UNCHANGED delayed
    BY <1>5 DEF thread_call_cancel, Remove
  <2>2. P # {} /\ P \in SUBSET DOMAIN pending
    BY <1>1, <1>4, <1>5 DEF Listed, CallsIn
  <2>3. \A i \in P : pending[i].call = call
    OBVIOUS
  <2> HIDE DEF P
  <2>4. pending[FirstOf(P)].call = call
    BY <1>1, <2>2, <2>3, FirstPosition
  <2>5. QED
    BY <1>2, <1>3, <2>1, <2>2, <2>4, RemoveOnePending
<1>6. CASE status[call] = "DELAYED"
  <2>1. /\ delayed' = Without(delayed, {FirstOf(D)})
        /\ UNCHANGED <<pending, pending_call_num>>
    BY <1>6 DEF thread_call_cancel, Remove
  <2>2. D # {} /\ D \in SUBSET DOMAIN delayed
    BY <1>1, <1>4, <1>6 DEF Listed, CallsIn
  <2>3. \A i \in D : delayed[i].call = call
    OBVIOUS
  <2> HIDE DEF D
  <2>4. delayed[FirstOf(D)].call = call
    BY <1>1, <2>2, <2>3, FirstPosition
  <2>5. QED
    BY <1>2, <1>3, <2>1, <2>2, <2>4, RemoveOneDelayed
<1>7. CASE status[call] = "IDLE"
  <2>1. UNCHANGED <<pending, pending_call_num, delayed>>
    BY <1>7 DEF thread_call_cancel
  <2>2. status' = status
    BY <1>1, <1>2, <1>4, <1>7
  <2>3. UNCHANGED <<timer, intr>>
    BY <1>2 DEF clockVars, intrVars
  <2>4. Sorted(delayed') /\ TimerArmed'
    BY <1>1, <2>1, <2>3 DEF Sorted, TimerArmed
  <2>5. CallsIn(pending') = CallsIn(pending) /\ CallsIn(delayed') = CallsIn(delayed)
    BY <2>1
  <2>6. QED
    BY <1>1, <1>2, <1>3, <2>1, <2>2, <2>4, <2>5, CancelStep
<1>8. QED
  BY <1>1, <1>4, <1>5, <1>6, <1>7 DEF Status

-----------------------------------------------------------------------------
(* The other steps.                                                        *)

LEMMA AllocateKeeps ==
    ASSUME QueueInv, NEW call \in External, NEW job \in Jobs,
           thread_call_allocate(call, job)
    PROVE  QueueInv'
<1>1. /\ allocated' = allocated \cup {call}
      /\ spec_proto' = [spec_proto EXCEPT ![call] = job]
      /\ status' = [status EXCEPT ![call] = "IDLE"]
      /\ UNCHANGED <<cancelled, free, pending, delayed, pending_call_num, poolVars,
                     waking, clockVars, intrVars>>
  BY DEF thread_call_allocate
<1>2. /\ ClientTypes /\ QueueTypes /\ Sorted(delayed) /\ TimerArmed
      /\ pending_call_num = Len(pending)
  BY TypeParts DEF QueueInv
<1>3. ClientTypes' /\ free' \in Seq(Internal)
  BY <1>1, <1>2 DEF ClientTypes, QueueTypes
<1>4. status' \in [Calls -> Status]
  BY <1>1, <1>2 DEF QueueTypes, Status
<1>5. \A c \in Calls : status'[c] # "IDLE" => status'[c] = status[c]
  BY <1>1, <1>2 DEF QueueTypes
<1>6. /\ pending' = pending /\ pending_call_num' = pending_call_num
      /\ delayed' = delayed /\ timer' = timer /\ intr' = intr
  BY <1>1 DEF clockVars, intrVars
<1>7. Sorted(delayed') /\ TimerArmed'
  BY <1>2, <1>6 DEF Sorted, TimerArmed
<1>8. CallsIn(pending') = CallsIn(pending) /\ CallsIn(delayed') = CallsIn(delayed)
  BY <1>6
<1>9. pending' \in Seq(Entry) /\ delayed' \in Seq(DelayedEntry)
      /\ pending_call_num' = Len(pending')
  BY <1>2, <1>6 DEF QueueTypes
<1>10. QED
  BY <1>1, <1>3, <1>4, <1>5, <1>7, <1>8, <1>9, CancelStep

LEMMA FreeKeeps ==
    ASSUME QueueInv, NEW call \in External, thread_call_free(call)
    PROVE  QueueInv'
<1>1. /\ allocated' = allocated \ {call} /\ cancelled' = cancelled \ {call}
      /\ UNCHANGED <<spec_proto, queueVars, poolVars, waking, clockVars, intrVars>>
  BY DEF thread_call_free
<1>2. /\ ClientTypes /\ QueueTypes /\ PoolTypes
      /\ ClockTypes /\ IntrTypes /\ WakeTypes
  BY TypeParts DEF QueueInv
<1>3. ClientTypes'
  BY <1>1, <1>2 DEF ClientTypes
<1>4. TypeOK'
  BY <1>1, <1>2, <1>3, TypeParts, TypesKept
<1>5. UNCHANGED <<status, pending, delayed, pending_call_num, timer, intr>>
  BY <1>1 DEF queueVars, clockVars, intrVars
<1>6. QED
  BY <1>4, <1>5, QueuesUntouched

LEMMA ClientKeepsQueues ==
    ASSUME QueueInv, Client
    PROVE  QueueInv'
<1>1. spec_proto \in [External -> Jobs]
  BY DEF QueueInv, TypeOK
<1>2. \A call \in External : spec_proto[call] \in Jobs
  BY <1>1
<1>3. CASE \E job \in Jobs :
             \/ \E unique \in BOOLEAN : thread_call_func(job, unique)
             \/ \E deadline \in Times : thread_call_func_delayed(job, deadline)
             \/ thread_call_func_cancel_one(job)
             \/ thread_call_func_cancel_all(job)
  BY <1>3, EnterKeeps, CancelOneKeeps, CancelAllKeeps
<1>4. CASE \E call \in External, job \in Jobs :
             \/ thread_call_allocate(call, job)
             \/ thread_call_enter_spec(call, job)
             \/ \E deadline \in Times : thread_call_enter_spec_delayed(call, job, deadline)
  BY <1>4, EnterKeeps, AllocateKeeps
<1>5. CASE \E call \in External :
             \/ thread_call_enter(call)
             \/ \E deadline \in Times : thread_call_enter_delayed(call, deadline)
             \/ thread_call_cancel(call)
             \/ thread_call_free(call)
  BY <1>2, <1>5, EnterKeeps, CancelKeeps, FreeKeeps
     DEF thread_call_enter, thread_call_enter_delayed
<1>6. QED
  BY <1>3, <1>4, <1>5 DEF Client

\* A thread takes the first pending call, or the queue is left alone.
LEMMA TakeKeeps ==
    ASSUME QueueInv, NEW running \in Nat, TakeOrPark(running),
           ready' \in Nat, activate' \in BOOLEAN,
           UNCHANGED <<clientVars, delayed, waking, clockVars, intrVars>>
    PROVE  QueueInv'
<1>1. /\ ClientTypes /\ QueueTypes /\ PoolTypes
      /\ ClockTypes /\ IntrTypes /\ WakeTypes
      /\ Listed /\ Sorted(delayed) /\ TimerArmed /\ pending_call_num = Len(pending)
  BY TypeParts DEF QueueInv
<1>2. PoolTypes'
  BY <1>1, CountsAssumption DEF TakeOrPark, PoolTypes
<1>3. UNCHANGED <<delayed, timer, intr>>
  BY DEF clockVars, intrVars
<1>4. CASE UNCHANGED <<pending, pending_call_num, status, free>>
  <2>1. QueueTypes'
    BY <1>1, <1>4 DEF QueueTypes
  <2>2. TypeOK'
    BY <1>1, <1>2, <2>1, TypeParts, TypesKept
  <2>3. QED
    BY <1>3, <1>4, <2>2, QueuesUntouched
<1>5. CASE /\ pending_call_num > 0
           /\ pending' = Tail(pending)
           /\ pending_call_num' = pending_call_num - 1
           /\ status' = [status EXCEPT ![Head(pending).call] = "IDLE"]
           /\ free' = Release(free, Head(pending).call)
  <2>1. pending \in Seq(Entry) /\ pending # <<>> /\ free \in Seq(Internal)
        /\ status \in [Calls -> Status]
    BY <1>1, <1>5 DEF QueueTypes
  <2>2. /\ pending' \in Seq(Entry) /\ Len(pending') = Len(pending) - 1
        /\ CallsIn(pending) = CallsIn(pending') \cup {Head(pending).call}
    BY <1>5, <2>1, TailCalls
  <2>3. free' \in Seq(Internal) /\ status' \in [Calls -> Status]
    BY <1>5, <2>1, ReleaseType DEF Status
  <2>4. pending_call_num' = Len(pending') /\ pending_call_num' \in Nat
    BY <1>1, <1>5, <2>2, CountType
  <2>5. QueueTypes'
    BY <1>1, <1>3, <2>2, <2>3, <2>4 DEF QueueTypes
  <2>6. TypeOK'
    BY <1>1, <1>2, <2>5, TypeParts, TypesKept
  <2>7. \A c \in Calls : status'[c] # "IDLE" =>
           status'[c] = status[c] /\ c # Head(pending).call
    BY <1>5, <2>1
  <2>8. Listed'
    BY <1>1, <1>3, <2>2, <2>7 DEF Listed
  <2>9. Sorted(delayed') /\ TimerArmed'
    BY <1>1, <1>3 DEF Sorted, TimerArmed
  <2>10. QED
    BY <2>4, <2>6, <2>8, <2>9 DEF QueueInv
<1>6. QED
  BY <1>4, <1>5 DEF TakeOrPark

LEMMA PoolKeepsQueues ==
    ASSUME QueueInv, Pool \/ _call_thread_wake
    PROVE  QueueInv'
<1>1. /\ ClientTypes /\ QueueTypes /\ PoolTypes
      /\ ClockTypes /\ IntrTypes /\ WakeTypes
  BY TypeParts DEF QueueInv
<1>2. CASE _call_thread_continue
  <2>1. /\ ready > 0 /\ ready' = ready - 1 /\ TakeOrPark(active_call_num)
        /\ UNCHANGED <<clientVars, delayed, activate, waking, clockVars, intrVars>>
    BY <1>2 DEF _call_thread_continue
  <2>2. active_call_num \in Nat /\ ready' \in Nat
    BY <1>1, <2>1 DEF PoolTypes
  <2>3. activate' \in BOOLEAN
    BY <1>1, <2>1 DEF PoolTypes
  <2>4. QED
    BY <2>1, <2>2, <2>3, TakeKeeps
<1>3. CASE call_returns
  <2>1. /\ active_call_num > 0 /\ TakeOrPark(active_call_num - 1)
        /\ UNCHANGED <<clientVars, delayed, ready, activate, waking, clockVars, intrVars>>
    BY <1>3 DEF call_returns
  <2>2. active_call_num - 1 \in Nat /\ ready' \in Nat
    BY <1>1, <2>1 DEF PoolTypes
  <2>3. activate' \in BOOLEAN
    BY <1>1, <2>1 DEF PoolTypes
  <2>4. QED
    BY <2>1, <2>2, <2>3, TakeKeeps
<1>4. CASE _call_activate_thread_continue
  <2>1. /\ UNCHANGED <<clientVars, queueVars, active_call_num, waiters, waking,
                       clockVars, intrVars>>
        /\ \/ /\ call_thread_num' = call_thread_num + 1 /\ ready' = ready + 1
              /\ UNCHANGED activate
           \/ activate' = FALSE /\ UNCHANGED <<call_thread_num, ready>>
    BY <1>4 DEF _call_activate_thread_continue
  <2>2. PoolTypes'
    <3>1. activate' \in BOOLEAN
      BY <1>1, <2>1, Zenon DEF PoolTypes
    <3>2. call_thread_num' \in Nat /\ ready' \in Nat
      BY <1>1, <2>1 DEF PoolTypes
    <3>3. QED
      BY <1>1, <2>1, <3>1, <3>2 DEF PoolTypes
  <2>3. TypeOK'
    BY <1>1, <2>1, <2>2, TypeParts, TypesKept
  <2>4. UNCHANGED <<status, pending, delayed, pending_call_num, timer, intr>>
    BY <2>1 DEF queueVars, clockVars, intrVars
  <2>5. QED
    BY <2>3, <2>4, QueuesUntouched
<1>5. CASE _call_thread_wake
  <2>1. PICK kind \in WakeKinds :
          /\ waking[kind] > 0
          /\ waking' = [waking EXCEPT ![kind] = @ - 1]
          /\ WakeOne
          /\ activate' = (activate \/ kind = "both")
          /\ UNCHANGED <<clientVars, queueVars, active_call_num, call_thread_num,
                         clockVars, intrVars>>
    BY <1>5 DEF _call_thread_wake
  <2>2. waking' \in [WakeKinds -> Nat]
    BY <1>1, <2>1 DEF WakeTypes
  <2>3. activate' \in BOOLEAN
    BY <2>1, Zenon
  <2>4. ready' \in Nat /\ waiters' \in Nat
    BY <1>1, <2>1 DEF WakeOne, PoolTypes
  <2>5. PoolTypes' /\ WakeTypes'
    BY <1>1, <2>1, <2>2, <2>3, <2>4 DEF PoolTypes, WakeTypes
  <2>6. TypeOK'
    BY <1>1, <2>1, <2>5, TypeParts, TypesKept
  <2>7. UNCHANGED <<status, pending, delayed, pending_call_num, timer, intr>>
    BY <2>1 DEF queueVars, clockVars, intrVars
  <2>8. QED
    BY <2>6, <2>7, QueuesUntouched
<1>6. QED
  BY <1>2, <1>3, <1>4, <1>5 DEF Pool

\* The interrupt takes the due entries off the head of the delayed queue and sets
\* the timer for the first of the rest, which is due no later than the others.
LEMMA ExpireKeeps ==
    ASSUME QueueInv, _delayed_call_interrupt
    PROVE  QueueInv'
<1> DEFINE n == Len(delayed)
           k == DueNum
           rest == SubSeq(delayed, k + 1, n)
           e(i) == [call |-> delayed[i].call, job |-> delayed[i].job]
<1>1. /\ ClientTypes /\ QueueTypes /\ PoolTypes
      /\ ClockTypes /\ IntrTypes /\ WakeTypes
      /\ Listed /\ Sorted(delayed) /\ TimerArmed /\ pending_call_num = Len(pending)
  BY TypeParts DEF QueueInv
<1>2. /\ transit' = [i \in 1 .. k |-> e(i)]
      /\ delayed' = rest
      /\ status' = [c \in Calls |-> IF \E i \in 1 .. k : delayed[i].call = c
                                    THEN "IDLE" ELSE status[c]]
      /\ timer' = IF k < n
                  THEN [is_set |-> TRUE, expire_time |-> delayed[k + 1].deadline]
                  ELSE timer
      /\ intr' = "loop"
      /\ UNCHANGED <<clientVars, free, pending, pending_call_num, poolVars, waking, now,
                     stamp, intrWake>>
  BY DEF _delayed_call_interrupt
<1>3. delayed \in Seq(DelayedEntry) /\ stamp \in Times
  BY <1>1 DEF QueueTypes, IntrTypes
<1>4. k \in 0 .. n /\ k \in Nat /\ n \in Nat /\ DOMAIN delayed = 1 .. n
  BY <1>3, DueProperties, LenProperties
<1> HIDE DEF k
<1>5. /\ rest \in Seq(DelayedEntry) /\ Len(rest) = n - k
      /\ Sorted(rest)
      /\ CallsIn(rest) = {delayed[i].call : i \in k + 1 .. n}
      /\ \A i \in DOMAIN rest : k + i \in DOMAIN delayed /\ rest[i] = delayed[k + i]
  <2>1. rest \in Seq(DelayedEntry) /\ Len(rest) = n - k
    BY <1>3, <1>4, SuffixCalls
  <2>2. Sorted(rest)
    BY <1>1, <1>3, <1>4, SuffixCalls
  <2>3. CallsIn(rest) = {delayed[i].call : i \in k + 1 .. n}
    BY <1>3, <1>4, SuffixCalls
  <2>4. \A i \in DOMAIN rest : k + i \in DOMAIN delayed /\ rest[i] = delayed[k + i]
    BY <1>3, <1>4, SuffixCalls
  <2>5. QED
    BY <2>1, <2>2, <2>3, <2>4
<1>6. DOMAIN rest = 1 .. n - k
  BY <1>5, LenProperties
<1> HIDE DEF rest
<1>7. \A i \in 1 .. n : delayed[i] \in DelayedEntry
  BY <1>3, ElementOfSeq
<1> HIDE DEF n
<1>8. transit' \in Seq(Entry)
  <2>1. \A i \in 1 .. k : i \in 1 .. n
    BY <1>4
  <2>2. \A i \in 1 .. k : e(i) \in Entry
    BY <1>7, <2>1 DEF DelayedEntry, Entry
  <2>3. transit' \in [1 .. k -> Entry]
    BY <1>2, <2>2
  <2>4. QED
    BY <1>4, <2>3
<1>9. timer' \in [is_set : BOOLEAN, expire_time : Times]
  <2>1. CASE k < n
    <3>1. k + 1 \in 1 .. n
      BY <1>4, <2>1
    <3>2. delayed[k + 1].deadline \in Times
      BY <1>7, <3>1 DEF DelayedEntry
    <3>3. QED
      BY <1>2, <2>1, <3>2
  <2>2. CASE ~(k < n)
    BY <1>1, <1>2, <2>2 DEF ClockTypes
  <2>3. QED
    BY <2>1, <2>2
<1>10. TypeOK'
  <2>1. status' \in [Calls -> Status]
    BY <1>1, <1>2 DEF QueueTypes, Status
  <2>2. QueueTypes' /\ ClockTypes'
    BY <1>1, <1>2, <1>5, <1>9, <2>1 DEF QueueTypes, ClockTypes
  <2>3. IntrTypes'
    BY <1>1, <1>2, <1>8 DEF IntrTypes
  <2>4. QED
    BY <1>1, <1>2, <2>2, <2>3, TypeParts, TypesKept
<1>11. Listed'
  <2>1. \A c \in Calls : status'[c] # "IDLE" =>
           status'[c] = status[c] /\ \A i \in 1 .. k : delayed[i].call # c
    BY <1>2
  <2>2. \A i \in 1 .. n : i \in 1 .. k \/ i \in k + 1 .. n
    BY <1>4
  <2>3. \A c \in CallsIn(delayed) :
           (\A i \in 1 .. k : delayed[i].call # c) => c \in CallsIn(delayed')
    BY <1>2, <1>4, <1>5, <2>2 DEF CallsIn
  <2>4. QED
    BY <1>1, <1>2, <2>1, <2>3 DEF Listed
<1>12. TimerArmed'
  <2> SUFFICES ASSUME NEW j \in 1 .. n - k
               PROVE  timer'.is_set /\ timer'.expire_time <= rest[j].deadline
    BY <1>2, <1>6 DEF TimerArmed
  <2>1. k < n /\ k + 1 \in 1 .. n /\ k + j \in 1 .. n /\ k + 1 <= k + j
    BY <1>4
  <2>2. rest[j] = delayed[k + j]
    BY <1>5, <1>6
  <2>3. delayed[k + 1].deadline <= delayed[k + j].deadline
    BY <1>1, <1>4, <2>1 DEF Sorted
  <2>4. QED
    BY <1>2, <2>1, <2>2, <2>3
<1>13. QED
  BY <1>1, <1>2, <1>5, <1>10, <1>11, <1>12 DEF QueueInv

LEMMA InterruptKeepsQueues ==
    ASSUME QueueInv, Interrupt
    PROVE  QueueInv'
<1>1. /\ ClientTypes /\ QueueTypes /\ PoolTypes
      /\ ClockTypes /\ IntrTypes /\ WakeTypes
      /\ Listed /\ Sorted(delayed) /\ TimerArmed /\ pending_call_num = Len(pending)
  BY TypeParts DEF QueueInv
<1>2. CASE clock_interrupt
  <2>1. /\ now' = IF now < MaxTime THEN now + 1 ELSE now
        /\ \/ /\ timer' = [timer EXCEPT !.is_set = FALSE]
              /\ intr' = "lock"
              /\ stamp' = now'
           \/ UNCHANGED <<timer, intr, stamp>>
        /\ UNCHANGED <<clientVars, queueVars, poolVars, waking, transit, intrWake>>
    BY <1>2 DEF clock_interrupt
  <2>2. now' \in Times
    BY <1>1, <2>1, CountsAssumption DEF ClockTypes, Times
  <2>3. ClockTypes'
    BY <1>1, <2>1, <2>2 DEF ClockTypes
  <2>4. IntrTypes'
    BY <1>1, <2>1, <2>2 DEF IntrTypes
  <2>5. TypeOK'
    BY <1>1, <2>1, <2>3, <2>4, TypeParts, TypesKept
  <2>6. UNCHANGED <<status, pending, delayed, pending_call_num>>
    BY <2>1 DEF queueVars
  <2>7. TimerArmed'
    BY <1>1, <2>1, <2>6 DEF TimerArmed
  <2>8. Listed' /\ Sorted(delayed') /\ pending_call_num' = Len(pending')
    BY <1>1, <2>6 DEF Listed, Sorted, CallsIn
  <2>9. QED
    BY <2>5, <2>7, <2>8 DEF QueueInv
<1>3. CASE _delayed_call_interrupt
  BY <1>3, ExpireKeeps
<1>4. CASE interrupt_pend
  <2> DEFINE e == Head(transit)
  <2>1. /\ transit # <<>> /\ transit' = Tail(transit)
        /\ pending' = Append(pending, e)
        /\ status' = [status EXCEPT ![e.call] = "PENDING"]
        /\ pending_call_num' = pending_call_num + 1
        /\ intrWake' = MoreThreads(pending_call_num + 1)
        /\ intr = "loop" /\ intr' = "wake"
        /\ UNCHANGED <<clientVars, free, delayed, poolVars, waking, clockVars, stamp>>
    BY <1>4 DEF interrupt_pend
  <2>2. e \in Entry /\ transit' \in Seq(Entry)
    BY <1>1, <2>1, HeadTailProperties DEF IntrTypes
  <2> HIDE DEF e
  <2>3. /\ pending' \in Seq(Entry) /\ pending_call_num' = Len(pending')
        /\ CallsIn(pending') = CallsIn(pending) \cup {e.call}
    BY <2>1, <2>2, AppendPending
  <2>4. e.call \in Calls
    BY <2>2 DEF Entry
  <2>5. intrWake' \in BOOLEAN
    BY <2>1 DEF MoreThreads
  <2>6. QueueTypes'
    <3>1. pending_call_num' \in Nat
      BY <2>3, CountType
    <3>2. QED
      BY <1>1, <2>1, <2>3, <2>4, <3>1 DEF QueueTypes, Status
  <2>7. IntrTypes'
    BY <1>1, <2>1, <2>2, <2>5 DEF IntrTypes
  <2>8. TypeOK'
    BY <1>1, <2>1, <2>6, <2>7, TypeParts, TypesKept
  <2>9. Listed'
    BY <1>1, <2>1, <2>3, <2>4 DEF Listed, QueueTypes
  <2>10. Sorted(delayed') /\ TimerArmed'
    <3>1. timer' = timer
      BY <2>1 DEF clockVars
    <3>2. QED
      BY <1>1, <2>1, <3>1 DEF Sorted, TimerArmed
  <2>11. QED
    BY <2>3, <2>8, <2>9, <2>10 DEF QueueInv
<1>5. CASE interrupt_wake \/ interrupt_relock \/ interrupt_done
  <2>1. /\ UNCHANGED <<clientVars, queueVars, clockVars, waking, stamp, transit>>
        /\ intr # "lock" /\ intr' \in {"off", "loop", "relock"}
    BY <1>5 DEF interrupt_wake, interrupt_relock, interrupt_done
  <2>2. intrWake' \in BOOLEAN
    BY <1>1, <1>5, Zenon DEF interrupt_wake, interrupt_relock, interrupt_done, IntrTypes
  <2>3. PoolTypes'
    <3>1. CASE interrupt_wake
      <4>1. WakeOne /\ UNCHANGED <<active_call_num, call_thread_num>>
        BY <3>1 DEF interrupt_wake
      <4>2. activate' \in BOOLEAN
        BY <1>1, <3>1, Zenon DEF interrupt_wake, PoolTypes
      <4>3. ready' \in Nat /\ waiters' \in Nat
        BY <1>1, <4>1 DEF WakeOne, PoolTypes
      <4>4. QED
        BY <1>1, <4>1, <4>2, <4>3 DEF PoolTypes
    <3>2. CASE interrupt_relock \/ interrupt_done
      <4>1. UNCHANGED poolVars
        BY <3>2 DEF interrupt_relock, interrupt_done
      <4>2. QED
        BY <1>1, <4>1, TypesKept
    <3>3. QED
      BY <1>5, <3>1, <3>2
  <2>4. IntrTypes'
    BY <1>1, <2>1, <2>2 DEF IntrTypes
  <2>5. TypeOK'
    BY <1>1, <2>1, <2>3, <2>4, TypeParts, TypesKept
  <2>6. UNCHANGED <<status, pending, delayed, pending_call_num, timer>>
    BY <2>1 DEF queueVars, clockVars
  <2>7. TimerArmed'
    BY <1>1, <2>1, <2>6 DEF TimerArmed
  <2>8. Listed' /\ Sorted(delayed') /\ pending_call_num' = Len(pending')
    BY <1>1, <2>6 DEF Listed, Sorted, CallsIn
  <2>9. QED
    BY <2>5, <2>7, <2>8 DEF QueueInv
<1>6. QED
  BY <1>2, <1>3, <1>4, <1>5 DEF Interrupt

-----------------------------------------------------------------------------
LEMMA InitQueues ==
    ASSUME Init
    PROVE  QueueInv
<1>1. /\ status = [c \in Calls |-> "IDLE"]
      /\ pending = <<>> /\ delayed = <<>> /\ transit = <<>>
      /\ pending_call_num = 0 /\ active_call_num = 0 /\ call_thread_num = 0
      /\ ready = 0 /\ waiters = 0
      /\ waking = [kind \in WakeKinds |-> 0]
      /\ timer = [is_set |-> FALSE, expire_time |-> 0]
      /\ now = 0 /\ intr = "off" /\ stamp = 0
      /\ spec_proto \in [External -> Jobs] /\ allocated = {} /\ cancelled = {}
  BY DEF Init, thread_call_init
<1>2. 0 \in Times
  BY CountsAssumption DEF Times
<1>3. free \in Seq(Internal)
  <2>1. free \in [1 .. Cardinality(Internal) -> Internal]
    BY DEF Init, thread_call_init
  <2>2. Cardinality(Internal) \in Nat
    BY CallsAssumption, FS_CardinalityType
  <2>3. QED
    BY <2>1, <2>2
<1>4. activate \in BOOLEAN /\ intrWake \in BOOLEAN
  <2>1. activate = TRUE /\ intrWake = FALSE
    BY DEF Init, thread_call_init
  <2>2. QED
    BY <2>1, Zenon
<1>5. ClientTypes /\ WakeTypes
  BY <1>1 DEF ClientTypes, WakeTypes
<1>6. QueueTypes
  BY <1>1, <1>3, EmptySeq DEF QueueTypes, Status
<1>7. PoolTypes
  BY <1>1, <1>4 DEF PoolTypes
<1>8. ClockTypes /\ IntrTypes
  BY <1>1, <1>2, <1>4, EmptySeq DEF ClockTypes, IntrTypes
<1>9. DOMAIN delayed = {} /\ Len(pending) = 0
  BY <1>1
<1>10. Listed /\ Sorted(delayed) /\ TimerArmed
  BY <1>1, <1>9 DEF Listed, Sorted, TimerArmed
<1>11. QED
  BY <1>1, <1>5, <1>6, <1>7, <1>8, <1>9, <1>10, TypeParts DEF QueueInv

LEMMA StepQueues ==
    ASSUME QueueInv, [Next]_vars
    PROVE  QueueInv'
<1>1. CASE Client
  BY <1>1, ClientKeepsQueues
<1>2. CASE _call_thread_wake \/ Pool
  BY <1>2, PoolKeepsQueues
<1>3. CASE Interrupt
  BY <1>3, InterruptKeepsQueues
<1>4. CASE UNCHANGED vars
  <2>1. UNCHANGED <<clientVars, queueVars, poolVars, waking, clockVars, intrVars>>
    BY <1>4 DEF vars
  <2>2. TypeOK'
    BY <2>1, TypeParts, TypesKept DEF QueueInv
  <2>3. UNCHANGED <<status, pending, delayed, pending_call_num, timer, intr>>
    BY <2>1 DEF queueVars, clockVars, intrVars
  <2>4. QED
    BY <2>2, <2>3, QueuesUntouched
<1>5. QED
  BY <1>1, <1>2, <1>3, <1>4 DEF Next

\* On any number of processors the queues keep their types and count, an entry
\* whose status names a queue is on it, and the delayed queue is in order.
THEOREM QueueInvariance == Spec => []QueueInv
<1>1. Init => QueueInv
  BY InitQueues
<1>2. QueueInv /\ [Next]_vars => QueueInv'
  BY StepQueues
<1>3. QED
  BY <1>1, <1>2, PTL DEF Spec

\* Every variable of thread_call.c keeps its type: pending_call_num never goes
\* below zero, and no cancel takes an entry from where it is not.
THEOREM TypeCorrect == Spec => []TypeOK
<1>1. QueueInv => TypeOK
  BY DEF QueueInv
<1>2. QED
  BY <1>1, QueueInvariance, PTL

\* The system timer never expires later than the first delayed call is due
\* (_delayed_call_enqueue, _set_delayed_call_timer, _delayed_call_interrupt),
\* through every enqueue, cancel and expiry, on any number of processors.
THEOREM TimerInTime == Spec => []TimerArmed
<1>1. QueueInv => TimerArmed
  BY DEF QueueInv
<1>2. QED
  BY <1>1, QueueInvariance, PTL
=============================================================================
