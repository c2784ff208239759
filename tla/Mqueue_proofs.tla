---------------------------- MODULE Mqueue_proofs ----------------------------
(***************************************************************************)
(* The message queues keep their invariants for any number of ports, sets, *)
(* threads and messages.                                                   *)
(***************************************************************************)
EXTENDS Mqueue, Queue_proofs

-----------------------------------------------------------------------------
(* A delivery, as positions only: n receivers wait, k messages arrive, and *)
(* <<i, j>> \in D when the i-th receiver declines the j-th message.        *)

Chain(n, k, D, g) ==
    /\ \E h \in 0 .. k : g \in [1 .. h -> 1 .. n]
    /\ \A j \in DOMAIN g :
         /\ Before(g, j) < g[j] /\ <<g[j], j>> \notin D
         /\ \A i \in 1 .. n : Before(g, j) < i /\ i < g[j] => <<i, j>> \in D
    /\ Len(g) < k =>
         \A i \in 1 .. n : Before(g, Len(g) + 1) < i => <<i, Len(g) + 1>> \in D

LEMMA LenOfFunction ==
    ASSUME NEW h \in Nat, NEW S, NEW g \in [1 .. h -> S]
    PROVE  Len(g) = h /\ DOMAIN g = 1 .. h /\ g \in Seq(S)
OBVIOUS

\* The receivers and the messages always meet in some way.
LEMMA ChainExists ==
    ASSUME NEW n \in Nat, NEW k \in Nat, NEW D
    PROVE  \E g : Chain(n, k, D, g)
<1> DEFINE Bad == {x \in Nat : ~ \E g : Chain(n, x, D, g)}
<1> SUFFICES ASSUME Bad # {} PROVE FALSE
  OBVIOUS
<1> DEFINE x == FirstOf(Bad)
<1>1. x \in Bad /\ \A y \in Bad : x <= y
  <2>1. Bad \in SUBSET Nat
    OBVIOUS
  <2> HIDE DEF Bad
  <2>2. QED
    BY <2>1, LeastElement
<1>2. x \in Nat /\ ~ \E g : Chain(n, x, D, g)
  BY <1>1
<1>3. \A y \in Nat : y < x => \E g : Chain(n, y, D, g)
  BY <1>1
<1> HIDE DEF x, Bad
<1>4. x # 0
  <2> DEFINE e == [j \in 1 .. 0 |-> 0]
  <2>1. e \in [1 .. 0 -> 1 .. n]
    OBVIOUS
  <2> HIDE DEF e
  <2>2. Len(e) = 0 /\ DOMAIN e = {}
    BY <2>1, LenOfFunction
  <2>3. Chain(n, 0, D, e)
    BY <2>1, <2>2 DEF Chain
  <2>4. QED
    BY <1>2, <2>3
<1>5. PICK g : Chain(n, x - 1, D, g)
  BY <1>2, <1>3, <1>4
<1>6. PICK h \in 0 .. x - 1 : g \in [1 .. h -> 1 .. n]
  BY <1>5 DEF Chain
<1>7. h \in Nat /\ Len(g) = h /\ DOMAIN g = 1 .. h /\ h <= x - 1
  BY <1>2, <1>6, LenOfFunction
<1>8. \A j \in 1 .. h :
         /\ Before(g, j) < g[j] /\ <<g[j], j>> \notin D
         /\ \A i \in 1 .. n : Before(g, j) < i /\ i < g[j] => <<i, j>> \in D
  BY <1>5, <1>7 DEF Chain
<1>9. h \in 0 .. x
  BY <1>2, <1>7
<1> DEFINE I == {i \in 1 .. n : Before(g, h + 1) < i /\ <<i, h + 1>> \notin D}
<1>10. CASE h < x - 1
  <2>1. \A i \in 1 .. n : Before(g, h + 1) < i => <<i, h + 1>> \in D
    BY <1>5, <1>7, <1>10 DEF Chain
  <2>2. Chain(n, x, D, g)
    BY <1>6, <1>7, <1>8, <1>9, <2>1 DEF Chain
  <2>3. QED
    BY <1>2, <2>2
<1>11. CASE h = x - 1 /\ I = {}
  <2>1. \A i \in 1 .. n : Before(g, h + 1) < i => <<i, h + 1>> \in D
    BY <1>11
  <2>2. Chain(n, x, D, g)
    BY <1>6, <1>7, <1>8, <1>9, <2>1 DEF Chain
  <2>3. QED
    BY <1>2, <2>2
<1>12. CASE h = x - 1 /\ I # {}
  <2> DEFINE f == FirstOf(I)
             g2 == [j \in 1 .. x |-> IF j = x THEN f ELSE g[j]]
  <2>1. f \in I /\ \A i \in I : f <= i
    <3>1. I \in SUBSET Nat
      OBVIOUS
    <3> HIDE DEF I
    <3>2. QED
      BY <1>12, <3>1, LeastElement
  <2> HIDE DEF f
  <2>2. /\ f \in 1 .. n /\ Before(g, x) < f /\ <<f, x>> \notin D
        /\ \A i \in 1 .. n : Before(g, x) < i /\ i < f => <<i, x>> \in D
    <3>1. h + 1 = x
      BY <1>2, <1>7, <1>12
    <3>2. f \in 1 .. n /\ Before(g, x) < f /\ <<f, x>> \notin D
      BY <2>1, <3>1
    <3>3. ASSUME NEW i \in 1 .. n, Before(g, x) < i, i < f, <<i, x>> \notin D
          PROVE  FALSE
      <4>1. i \in I
        BY <3>1, <3>3
      <4>2. f <= i
        BY <2>1, <4>1
      <4>3. QED
        BY <3>2, <3>3, <4>2
    <3>4. QED
      BY <3>2, <3>3
  <2>3. \A j \in 1 .. x : j = x \/ j \in 1 .. h
    BY <1>2, <1>7, <1>12
  <2>4. \A j \in 1 .. h : j \in 1 .. x /\ j # x
    BY <1>2, <1>7, <1>12
  <2>5. g2 \in [1 .. x -> 1 .. n]
    BY <1>6, <2>2, <2>3
  <2>6. g2[x] = f /\ \A j \in 1 .. h : g2[j] = g[j]
    BY <1>2, <1>4, <2>4
  <2> HIDE DEF g2
  <2>7. Len(g2) = x /\ DOMAIN g2 = 1 .. x
    BY <1>2, <2>5, LenOfFunction
  <2>8. \A j \in 1 .. x : Before(g2, j) = Before(g, j)
    <3> SUFFICES ASSUME NEW j \in 1 .. x, j # 1 PROVE g2[j - 1] = g[j - 1]
      BY DEF Before
    <3>1. j - 1 \in 1 .. h
      BY <1>2, <1>7, <1>12
    <3>2. QED
      BY <2>6, <3>1
  <2>9. ASSUME NEW j \in 1 .. x
        PROVE  /\ Before(g2, j) < g2[j] /\ <<g2[j], j>> \notin D
               /\ \A i \in 1 .. n : Before(g2, j) < i /\ i < g2[j] => <<i, j>> \in D
    <3>1. CASE j = x
      BY <2>2, <2>6, <2>8, <3>1
    <3>2. CASE j \in 1 .. h
      BY <1>8, <2>6, <2>8, <3>2
    <3>3. QED
      BY <2>3, <3>1, <3>2
  <2>10. ~(Len(g2) < x)
    BY <1>2, <2>7
  <2>11. x \in 0 .. x
    BY <1>2
  <2>12. Chain(n, x, D, g2)
    BY <2>5, <2>7, <2>9, <2>10, <2>11 DEF Chain
  <2>13. QED
    BY <1>2, <2>12
<1>13. QED
  BY <1>2, <1>7, <1>10, <1>11, <1>12

Met(n, k, g) == IF Len(g) < k THEN n ELSE Before(g, Len(g) + 1)

\* The receivers that take a message are met in their order, and those that are
\* passed over have declined one.
LEMMA ChainProperties ==
    ASSUME NEW n \in Nat, NEW k \in Nat, NEW D, NEW g, Chain(n, k, D, g)
    PROVE  /\ Len(g) \in 0 .. k /\ g \in [1 .. Len(g) -> 1 .. n] /\ Met(n, k, g) \in 0 .. n
           /\ \A i, j \in 1 .. Len(g) : i < j => g[i] < g[j]
           /\ \A j \in 1 .. Len(g) : g[j] <= Met(n, k, g) /\ <<g[j], j>> \notin D
           /\ \A i \in 1 .. Met(n, k, g) : (\A j \in 1 .. Len(g) : g[j] # i) =>
                \E j \in 1 .. k : <<i, j>> \in D
<1> DEFINE h == Len(g)
           met == IF h < k THEN n ELSE Before(g, h + 1)
<1>1. h \in 0 .. k /\ g \in [1 .. h -> 1 .. n] /\ DOMAIN g = 1 .. h
  BY LenOfFunction DEF Chain
<1>2. \A j \in 1 .. h :
         /\ Before(g, j) < g[j] /\ <<g[j], j>> \notin D
         /\ \A i \in 1 .. n : Before(g, j) < i /\ i < g[j] => <<i, j>> \in D
  BY <1>1 DEF Chain
<1>3. h < k => \A i \in 1 .. n : Before(g, h + 1) < i => <<i, h + 1>> \in D
  BY DEF Chain
<1> HIDE DEF h
<1>4. h \in Nat /\ h <= k /\ \A j \in 1 .. h : g[j] \in 1 .. n
  BY <1>1
<1>5. met \in 0 .. n
  <2>1. CASE h = 0
    BY <1>4, <2>1 DEF Before
  <2>2. CASE h # 0
    <3>1. Before(g, h + 1) = g[h] /\ h \in 1 .. h
      BY <1>4, <2>2 DEF Before
    <3>2. QED
      BY <1>4, <3>1
  <2>3. QED
    BY <2>1, <2>2
<1>6. \A i, j \in 1 .. h : i < j => g[i] < g[j]
  <2> SUFFICES ASSUME NEW i \in 1 .. h PROVE \A j \in 1 .. h : i < j => g[i] < g[j]
    OBVIOUS
  <2> DEFINE Bad == {j \in 1 .. h : i < j /\ ~(g[i] < g[j])}
             b == FirstOf(Bad)
  <2> SUFFICES ASSUME Bad # {} PROVE FALSE
    OBVIOUS
  <2>1. b \in Bad /\ \A y \in Bad : b <= y
    <3>1. Bad \in SUBSET Nat
      BY <1>4
    <3> HIDE DEF Bad
    <3>2. QED
      BY <3>1, LeastElement
  <2>2. b \in 1 .. h /\ i < b /\ ~(g[i] < g[b])
    BY <2>1
  <2>3. b - 1 \in 1 .. h /\ b # 1 /\ b - 1 < b
    BY <1>4, <2>2
  <2>4. b - 1 \notin Bad
    BY <1>4, <2>1, <2>2, <2>3
  <2>5. g[b - 1] < g[b]
    BY <1>2, <2>2, <2>3 DEF Before
  <2>6. CASE i = b - 1
    BY <2>2, <2>5, <2>6
  <2>7. CASE i # b - 1
    <3>1. i < b - 1
      BY <1>4, <2>2, <2>7
    <3>2. g[i] < g[b - 1]
      BY <2>3, <2>4, <3>1
    <3>3. QED
      BY <1>4, <2>2, <2>3, <2>5, <3>2
  <2>8. QED
    BY <2>6, <2>7
<1>7. \A j \in 1 .. h : g[j] <= met
  <2> SUFFICES ASSUME NEW j \in 1 .. h PROVE g[j] <= met
    OBVIOUS
  <2>1. CASE h < k
    BY <1>4, <2>1
  <2>2. CASE ~(h < k)
    <3>1. met = g[h] /\ h \in 1 .. h
      BY <1>4, <2>2 DEF Before
    <3>2. CASE j = h
      BY <1>4, <3>1, <3>2
    <3>3. CASE j # h
      <4>1. j < h
        BY <1>4, <3>3
      <4>2. g[j] < g[h]
        BY <1>6, <3>1, <4>1
      <4>3. QED
        BY <1>4, <3>1, <4>2
    <3>4. QED
      BY <3>2, <3>3
  <2>3. QED
    BY <2>1, <2>2
<1>8. ASSUME NEW i \in 1 .. met, \A j \in 1 .. h : g[j] # i
      PROVE  \E j \in 1 .. k : <<i, j>> \in D
  <2> DEFINE L == {j \in 1 .. h : i < g[j]}
             b == FirstOf(L)
  <2>0. i \in 1 .. n
    BY <1>5
  <2>1. CASE L # {}
    <3>1. b \in L /\ \A y \in L : b <= y
      <4>1. L \in SUBSET Nat
        BY <1>4
      <4> HIDE DEF L
      <4>2. QED
        BY <2>1, <4>1, LeastElement
    <3>2. b \in 1 .. h /\ i < g[b]
      BY <3>1
    <3>3. Before(g, b) < i
      <4>1. CASE b = 1
        BY <2>0, <4>1 DEF Before
      <4>2. CASE b # 1
        <5>1. b - 1 \in 1 .. h /\ b - 1 < b
          BY <1>4, <3>2, <4>2
        <5>2. b - 1 \notin L
          BY <1>4, <3>1, <3>2, <5>1
        <5>3. ~(i < g[b - 1]) /\ g[b - 1] # i
          BY <1>8, <5>1, <5>2
        <5>4. g[b - 1] < i
          BY <1>4, <2>0, <5>1, <5>3
        <5>5. QED
          BY <4>2, <5>4 DEF Before
      <4>3. QED
        BY <4>1, <4>2
    <3>4. <<i, b>> \in D
      BY <1>2, <2>0, <3>2, <3>3
    <3>5. b \in 1 .. k
      BY <1>4, <3>2
    <3>6. QED
      BY <3>4, <3>5
  <2>2. CASE L = {}
    <3>1. \A j \in 1 .. h : g[j] < i
      <4> SUFFICES ASSUME NEW j \in 1 .. h PROVE g[j] < i
        OBVIOUS
      <4>1. ~(i < g[j]) /\ g[j] # i
        BY <1>8, <2>2
      <4>2. QED
        BY <1>4, <2>0, <4>1
    <3>2. Before(g, h + 1) < i
      <4>1. CASE h = 0
        BY <2>0, <4>1 DEF Before
      <4>2. CASE h # 0
        <5>1. h \in 1 .. h /\ Before(g, h + 1) = g[h]
          BY <1>4, <4>2 DEF Before
        <5>2. QED
          BY <3>1, <5>1
      <4>3. QED
        BY <4>1, <4>2
    <3>3. h < k
      <4> SUFFICES ASSUME ~(h < k) PROVE FALSE
        OBVIOUS
      <4>1. met = Before(g, h + 1) /\ met \in Nat /\ i \in Nat /\ i <= met
        BY <1>5
      <4>2. QED
        BY <3>2, <4>1
    <3>4. <<i, h + 1>> \in D /\ h + 1 \in 1 .. k
      BY <1>3, <1>4, <2>0, <3>2, <3>3
    <3>5. QED
      BY <3>4
  <2>3. QED
    BY <2>1, <2>2
<1>9. QED
  BY <1>1, <1>2, <1>5, <1>6, <1>7, <1>8 DEF h, Met

-----------------------------------------------------------------------------
(* Deliveries.                                                             *)

Refusals(threads, ms) ==
    {x \in (1 .. Len(threads)) \X (1 .. Len(ms)) : Declines(th[threads[x[1]]].buf, ms[x[2]])}

LEMMA HandoverChain ==
    ASSUME NEW threads \in Seq(Receivers), NEW ms \in Seq(Messages), NEW g
    PROVE  g \in Handovers(threads, ms) <=>
             Chain(Len(threads), Len(ms), Refusals(threads, ms), g)
<1> DEFINE n == Len(threads)
           k == Len(ms)
           R == Refusals(threads, ms)
           F == UNION {[1 .. h -> 1 .. n] : h \in 0 .. k}
<1>1. n \in Nat /\ k \in Nat
  BY LenProperties
<1>2. \A i \in 1 .. n, j \in 1 .. k : <<i, j>> \in R <=> Declines(th[threads[i]].buf, ms[j])
  BY DEF Refusals
<1>3. g \in F <=> \E h \in 0 .. k : g \in [1 .. h -> 1 .. n]
  OBVIOUS
<1> HIDE DEF n, k, R, F
<1>4. g \in Handovers(threads, ms) <=>
        /\ g \in F
        /\ \A j \in DOMAIN g :
             /\ Before(g, j) < g[j] /\ ~Declines(th[threads[g[j]]].buf, ms[j])
             /\ \A i \in 1 .. n : Before(g, j) < i /\ i < g[j] =>
                                    Declines(th[threads[i]].buf, ms[j])
        /\ Len(g) < k =>
             \A i \in 1 .. n : Before(g, Len(g) + 1) < i =>
                                 Declines(th[threads[i]].buf, ms[Len(g) + 1])
  BY DEF Handovers, F, n, k
<1>5. ASSUME NEW h \in 0 .. k, g \in [1 .. h -> 1 .. n]
      PROVE  g \in Handovers(threads, ms) <=> Chain(n, k, R, g)
  <2>1. /\ Len(g) = h /\ DOMAIN g = 1 .. h /\ h \in Nat /\ g \in F
        /\ \A j \in 1 .. h : j \in 1 .. k /\ g[j] \in 1 .. n
        /\ h < k => h + 1 \in 1 .. k
    <3>1. h \in Nat /\ h <= k
      BY <1>1
    <3>2. Len(g) = h /\ DOMAIN g = 1 .. h
      BY <1>5, <3>1, LenOfFunction
    <3>3. g \in F
      BY <1>3, <1>5
    <3>4. \A j \in 1 .. h : j \in 1 .. k /\ g[j] \in 1 .. n
      BY <1>1, <1>5, <3>1
    <3>5. h < k => h + 1 \in 1 .. k
      BY <1>1, <3>1
    <3>6. QED
      BY <3>1, <3>2, <3>3, <3>4, <3>5
  <2>2. ASSUME NEW j \in 1 .. h
        PROVE  /\ <<g[j], j>> \in R <=> Declines(th[threads[g[j]]].buf, ms[j])
               /\ \A i \in 1 .. n : <<i, j>> \in R <=> Declines(th[threads[i]].buf, ms[j])
    BY <1>2, <2>1
  <2>3. h < k => \A i \in 1 .. n : <<i, h + 1>> \in R <=> Declines(th[threads[i]].buf, ms[h + 1])
    BY <1>2, <2>1
  <2>4. QED
    BY <1>4, <1>5, <2>1, <2>2, <2>3 DEF Chain
<1>6. QED
  BY <1>3, <1>4, <1>5 DEF Chain, n, k, R

Chosen(q, ms) == CHOOSE g \in Handovers(imq[q].threads, ms) : TRUE
Taken(d) == {x[1] : x \in d.handed}

\* What a delivery does with the messages and the receivers it meets.
LEMMA DeliverProperties ==
    ASSUME NEW q \in Queues, imq[q] \in QueueRecord, Once(imq[q].threads),
           NEW ms \in Seq(Messages)
    PROVE  LET d == Deliver(q, ms)
               h == Len(Chosen(q, ms))
           IN /\ h \in 0 .. Len(ms)
              /\ d.messages = imq[q].messages \o SubSeq(ms, h + 1, Len(ms))
              /\ d.threads \in Seq(Receivers) /\ Once(d.threads)
              /\ h < Len(ms) => d.threads = <<>>
              /\ Members(d.threads) = Members(imq[q].threads) \ (Taken(d) \cup d.declined)
              /\ Taken(d) \cup d.declined \subseteq Members(imq[q].threads)
              /\ Taken(d) \cap d.declined = {}
              /\ \A r \in d.declined : th[r].buf = "large"
              /\ \A x \in d.handed :
                   /\ \E j \in 1 .. h : x = <<x[1], ms[j]>>
                   /\ ~Declines(th[x[1]].buf, x[2])
                   /\ \A y \in d.handed : y[1] = x[1] => y = x
              /\ IsFiniteSet(d.handed) /\ Cardinality(d.handed) = h
              /\ IsFiniteSet(Taken(d)) /\ Cardinality(Taken(d)) = h
<1> DEFINE threads == imq[q].threads
           d == Deliver(q, ms)
           g == Chosen(q, ms)
           h == Len(g)
           n == Len(threads)
           k == Len(ms)
           met == Met(n, k, g)
           D == Refusals(threads, ms)
           T == {threads[g[j]] : j \in 1 .. h}
           P == {<<threads[g[j]], ms[j]>> : j \in 1 .. h}
<1>1. threads \in Seq(Receivers) /\ Once(threads)
  BY DEF QueueRecord
<1>2. /\ d.messages = imq[q].messages \o SubSeq(ms, h + 1, k)
      /\ d.threads = SubSeq(threads, met + 1, n)
      /\ d.handed = P
      /\ d.declined = {threads[i] : i \in 1 .. met} \ T
  BY Zenon DEF Deliver, Chosen, Met
<1> HIDE DEF threads, d
<1>3. /\ n \in Nat /\ k \in Nat /\ DOMAIN threads = 1 .. n /\ DOMAIN ms = 1 .. k
      /\ \A j \in 1 .. k : ms[j] \in Messages
  BY <1>1, LenProperties, ElementOfSeq
<1>4. Chain(n, k, D, g)
  <2>1. \E x : x \in Handovers(threads, ms)
    BY <1>1, <1>3, ChainExists, HandoverChain
  <2>2. g \in Handovers(threads, ms)
    BY <2>1 DEF Chosen, threads
  <2>3. QED
    BY <1>1, <2>2, HandoverChain
<1> HIDE DEF g
<1>5. /\ h \in 0 .. k /\ g \in [1 .. h -> 1 .. n] /\ met \in 0 .. n
      /\ \A i, j \in 1 .. h : i < j => g[i] < g[j]
      /\ \A j \in 1 .. h : g[j] <= met /\ <<g[j], j>> \notin D
      /\ \A i \in 1 .. met : (\A j \in 1 .. h : g[j] # i) =>
           \E j \in 1 .. k : <<i, j>> \in D
  <2> HIDE DEF n, k, D
  <2>1. h \in 0 .. k /\ g \in [1 .. h -> 1 .. n] /\ met \in 0 .. n
    BY <1>3, <1>4, ChainProperties
  <2>2. \A i, j \in 1 .. h : i < j => g[i] < g[j]
    BY <1>3, <1>4, ChainProperties
  <2>3. \A j \in 1 .. h : g[j] <= met /\ <<g[j], j>> \notin D
    BY <1>3, <1>4, ChainProperties
  <2>4. \A i \in 1 .. met : (\A j \in 1 .. h : g[j] # i) =>
           \E j \in 1 .. k : <<i, j>> \in D
    <3> SUFFICES ASSUME NEW i \in 1 .. met, \A j \in 1 .. h : g[j] # i
                 PROVE  \E j \in 1 .. k : <<i, j>> \in D
      OBVIOUS
    <3>1. \A y \in 1 .. Met(n, k, g) : (\A j \in 1 .. Len(g) : g[j] # y) =>
                \E j \in 1 .. k : <<y, j>> \in D
      BY <1>3, <1>4, ChainProperties
    <3>2. QED
      BY <3>1
  <2>5. QED
    BY <2>1, <2>2, <2>3, <2>4
<1>6. h < k => met = n
  BY DEF Met
<1> HIDE DEF h, met
<1>7. /\ h \in Nat /\ met \in Nat /\ met <= n
      /\ \A j \in 1 .. h : j \in 1 .. k /\ g[j] \in 1 .. n /\ g[j] \in 1 .. met
  <2>1. h \in Nat /\ h <= k /\ met \in Nat /\ met <= n
    BY <1>3, <1>5
  <2>2. ASSUME NEW j \in 1 .. h PROVE j \in 1 .. k /\ g[j] \in 1 .. n /\ g[j] \in 1 .. met
    <3>1. j \in 1 .. k
      BY <1>3, <2>1
    <3>2. g[j] \in 1 .. n /\ g[j] <= met
      BY <1>5
    <3>3. QED
      BY <1>3, <2>1, <3>1, <3>2
  <2>3. QED
    BY <2>1, <2>2
<1>8. \A i, j \in 1 .. h : g[i] = g[j] => i = j
  <2> SUFFICES ASSUME NEW i \in 1 .. h, NEW j \in 1 .. h, g[i] = g[j] PROVE i = j
    OBVIOUS
  <2>1. ~(i < j) /\ ~(j < i)
    BY <1>5, <1>7
  <2>2. QED
    BY <1>7, <2>1
<1>9. \A i, j \in 1 .. h : threads[g[i]] = threads[g[j]] => i = j
  BY <1>1, <1>3, <1>7, <1>8 DEF Once
<1>10. /\ d.threads \in Seq(Receivers) /\ Len(d.threads) = n - met
       /\ Members(d.threads) = {threads[i] : i \in met + 1 .. n}
       /\ Once(d.threads)
       /\ \A i \in 1 .. met : threads[i] \notin Members(d.threads)
  BY <1>1, <1>2, <1>5, SuffixMembers
<1>11. h < k => d.threads = <<>>
  <2>1. h < k => Len(d.threads) = 0
    BY <1>3, <1>6, <1>10
  <2>2. QED
    BY <1>10, <2>1, EmptySeq
<1>12. Taken(d) = T
  <2>1. ASSUME NEW x \in d.handed PROVE x[1] \in T
    BY <1>2
  <2>2. ASSUME NEW r \in T PROVE \E x \in d.handed : r = x[1]
    <3>1. PICK j \in 1 .. h : r = threads[g[j]]
      OBVIOUS
    <3>2. <<r, ms[j]>> \in d.handed /\ r = <<r, ms[j]>>[1]
      BY <1>2, <3>1
    <3>3. QED
      BY <3>2
  <2> HIDE DEF T
  <2>3. QED
    BY <2>1, <2>2 DEF Taken
<1>13. T \subseteq {threads[i] : i \in 1 .. met}
  BY <1>7
<1>14. Taken(d) \cup d.declined = {threads[i] : i \in 1 .. met}
  BY <1>2, <1>12, <1>13
<1>15. \A i \in 1 .. n : i \in 1 .. met \/ i \in met + 1 .. n
  BY <1>3, <1>7
<1>16. /\ \A i \in 1 .. met : i \in 1 .. n
       /\ \A i \in met + 1 .. n : i \in 1 .. n
  BY <1>3, <1>7
<1>17. Members(d.threads) = Members(threads) \ (Taken(d) \cup d.declined)
  BY <1>3, <1>10, <1>14, <1>15, <1>16 DEF Members
<1>18. Taken(d) \cup d.declined \subseteq Members(threads)
  BY <1>3, <1>14, <1>16 DEF Members
<1>19. Taken(d) \cap d.declined = {}
  BY <1>2, <1>12
<1>20. ASSUME NEW r \in d.declined PROVE th[r].buf = "large"
  <2>1. PICK i \in 1 .. met : r = threads[i]
    BY <1>2
  <2>2. \A j \in 1 .. h : g[j] # i
    BY <1>2, <2>1
  <2>3. PICK j \in 1 .. k : <<i, j>> \in D
    BY <1>5, <2>2
  <2>4. QED
    BY <2>1, <2>3 DEF Refusals, Declines
<1>21. ASSUME NEW x \in d.handed
       PROVE  /\ \E j \in 1 .. h : x = <<x[1], ms[j]>>
              /\ ~Declines(th[x[1]].buf, x[2])
              /\ \A y \in d.handed : y[1] = x[1] => y = x
  <2>1. PICK j \in 1 .. h : x = <<threads[g[j]], ms[j]>>
    BY <1>2
  <2>2. x[1] = threads[g[j]] /\ x[2] = ms[j]
    BY <2>1
  <2>3. ~Declines(th[x[1]].buf, x[2])
    <3>1. g[j] \in 1 .. n /\ j \in 1 .. k /\ <<g[j], j>> \notin D
      BY <1>5, <1>7
    <3>2. ~Declines(th[threads[g[j]]].buf, ms[j])
      BY <3>1 DEF Refusals
    <3>3. QED
      BY <2>2, <3>2
  <2>4. ASSUME NEW y \in d.handed, y[1] = x[1] PROVE y = x
    <3>1. PICK i \in 1 .. h : y = <<threads[g[i]], ms[i]>>
      BY <1>2
    <3>2. threads[g[i]] = threads[g[j]]
      BY <2>2, <2>4, <3>1
    <3>3. i = j
      BY <1>9, <3>2
    <3>4. QED
      BY <2>1, <3>1, <3>3
  <2>5. x = <<x[1], ms[j]>>
    BY <2>1, <2>2
  <2>6. QED
    BY <2>3, <2>4, <2>5
<1>22. IsFiniteSet(1 .. h) /\ Cardinality(1 .. h) = h
  BY <1>7, FS_Interval
<1>23. IsFiniteSet(P) /\ Cardinality(P) = h
  <2> DEFINE f == [j \in 1 .. h |-> <<threads[g[j]], ms[j]>>]
  <2>1. f \in Surjection(1 .. h, P)
    BY DEF Surjection
  <2>2. f \in Injection(1 .. h, P)
    BY <1>9 DEF Injection, IsInjective
  <2> HIDE DEF f, P
  <2>3. IsFiniteSet(P) /\ Cardinality(P) = Cardinality(1 .. h)
    BY <1>22, <2>1, <2>2, FS_Surjection
  <2>4. QED
    BY <1>22, <2>3
<1>24. IsFiniteSet(T) /\ Cardinality(T) = h
  <2> DEFINE f == [j \in 1 .. h |-> threads[g[j]]]
  <2>1. f \in Surjection(1 .. h, T)
    BY DEF Surjection
  <2>2. f \in Injection(1 .. h, T)
    BY <1>9 DEF Injection, IsInjective
  <2> HIDE DEF f, T
  <2>3. IsFiniteSet(T) /\ Cardinality(T) = Cardinality(1 .. h)
    BY <1>22, <2>1, <2>2, FS_Surjection
  <2>4. QED
    BY <1>22, <2>3
<1> HIDE DEF P, T
<1>25. /\ IsFiniteSet(d.handed) /\ Cardinality(d.handed) = h
       /\ IsFiniteSet(Taken(d)) /\ Cardinality(Taken(d)) = h
  BY <1>2, <1>12, <1>23, <1>24
<1>26. d.messages = imq[q].messages \o SubSeq(ms, h + 1, Len(ms))
  BY <1>2
<1>27. QED
  BY <1>5, <1>10, <1>11, <1>17, <1>18, <1>19, <1>20, <1>21, <1>25, <1>26, Zenon
     DEF h, g, d, threads
-----------------------------------------------------------------------------
(* The invariant: the threads, the queues they wait in and the ports.      *)

\* The types, without the bound on ip_msgcount that only the count shows.
PortShape ==
    [right : {"held", "limbo", "dead"}, pset : Psets \cup {None}, msgcount : Int,
     qlimit : Nat, seqno : Nat, blocked : Seq(Senders)]

Shapes ==
    /\ ip \in [Ports -> PortShape]
    /\ ips_active \in SUBSET Psets
    /\ imq \in [Queues -> QueueRecord]
    /\ th \in [Threads -> ThreadRecord]
    /\ sent \in 0 .. MaxSends
    /\ ops \in 0 .. MaxOps

SenderOK(u) ==
    /\ u.pc \in {"idle", "copied", "blocked"}
    /\ u.pc = "idle" <=> u.kmsg = None
    /\ u.pc = "blocked" <=> u.ith_state \in {"in_progress", "success"}
    /\ u.wait = "waiting" => u.ith_state = "in_progress"
    /\ u.pc # "idle" => u.how # "none"
    /\ u.pc = "blocked" => u.how # "poll"

ReceiverOK(u) ==
    /\ u.pc \in {"idle", "blocked", "got"}
    /\ u.pc = "blocked" => u.mq # None /\ u.ith_state # "none"
    /\ u.ith_state = "in_progress" => u.pc = "blocked"
    /\ u.kmsg # None <=> \/ u.pc = "got"
                         \/ /\ u.pc = "blocked"
                            /\ \/ u.ith_state = "success"
                               \/ u.ith_state = "too_large" /\ u.buf # "large"
    /\ u.wait = "waiting" => u.ith_state = "in_progress"

SendersOK == \A t \in Senders : SenderOK(th[t])
ReceiversOK == \A r \in Receivers : ReceiverOK(th[r])

\* The threads that wait are the ones in the queues.
BlockedAt(p) == {t \in Senders : th[t].ith_state = "in_progress" /\ th[t].kmsg.port = p}
WaitingAt(q) == {r \in Receivers : th[r].ith_state = "in_progress" /\ th[r].mq = q}

SenderLinks ==
    \A p \in Ports : Once(ip[p].blocked) /\ Members(ip[p].blocked) = BlockedAt(p)
ReceiverLinks ==
    \A q \in Queues : Once(imq[q].threads) /\ Members(imq[q].threads) = WaitingAt(q)

\* Nobody waits at a port that cannot be received from; a dead port has no
\* senders.
PortsOK ==
    \A p \in Ports :
        /\ ip[p].pset # None \/ ip[p].right # "held" => imq[p].threads = <<>>
        /\ ip[p].right # "held" => ip[p].pset = None
        /\ ip[p].right = "dead" => ip[p].blocked = <<>>

\* A receive right on its way to its own port is in one message.
Carries(t, p) == th[t].kmsg # None /\ th[t].kmsg.circular /\ th[t].kmsg.port = p
Circulars ==
    \A t \in Senders, p \in Ports : Carries(t, p) =>
        ip[p].right = "limbo" /\ \A u \in Senders : Carries(u, p) => u = t

MessagesPlaced ==
    \A q \in Queues : \A m \in Members(imq[q].messages) :
        ip_active(m.port) /\ q = MqueueOf(m.port)

LinkInv ==
    /\ Shapes
    /\ SendersOK /\ SenderLinks
    /\ ReceiversOK /\ ReceiverLinks
    /\ PortsOK /\ Circulars /\ MessagesPlaced /\ NoReceiverBesideMessage

-----------------------------------------------------------------------------
(* How a step keeps it: the threads of C change, the others do not.        *)

LEMMA SendersStep ==
    ASSUME LinkInv, NEW C,
           \A t \in Senders : IF t \in C THEN SenderOK(th'[t]) ELSE th'[t] = th[t],
           \A p \in Ports :
             /\ Once(ip'[p].blocked)
             /\ Members(ip'[p].blocked) =
                  (Members(ip[p].blocked) \ C) \cup {t \in Senders \cap C :
                     th'[t].ith_state = "in_progress" /\ th'[t].kmsg.port = p}
    PROVE  SendersOK' /\ SenderLinks'
<1>1. SendersOK'
  BY DEF LinkInv, SendersOK
<1>2. ASSUME NEW p \in Ports PROVE Members(ip'[p].blocked) = BlockedAt(p)'
  <2>1. Members(ip[p].blocked) = BlockedAt(p)
    BY DEF LinkInv, SenderLinks
  <2>2. QED
    BY <2>1 DEF BlockedAt
<1>3. QED
  BY <1>1, <1>2 DEF SenderLinks

LEMMA SendersKept ==
    ASSUME LinkInv,
           \A t \in Senders : th'[t] = th[t],
           \A p \in Ports : ip'[p].blocked = ip[p].blocked
    PROVE  SendersOK' /\ SenderLinks'
<1>1. SendersOK'
  BY DEF LinkInv, SendersOK
<1>2. \A p \in Ports : BlockedAt(p)' = BlockedAt(p)
  BY DEF BlockedAt
<1>3. QED
  BY <1>1, <1>2 DEF LinkInv, SenderLinks

LEMMA ReceiversStep ==
    ASSUME LinkInv, NEW C,
           \A r \in Receivers : IF r \in C THEN ReceiverOK(th'[r]) ELSE th'[r] = th[r],
           \A q \in Queues :
             /\ Once(imq'[q].threads)
             /\ Members(imq'[q].threads) =
                  (Members(imq[q].threads) \ C) \cup {r \in Receivers \cap C :
                     th'[r].ith_state = "in_progress" /\ th'[r].mq = q}
    PROVE  ReceiversOK' /\ ReceiverLinks'
<1>1. ReceiversOK'
  BY DEF LinkInv, ReceiversOK
<1>2. ASSUME NEW q \in Queues PROVE Members(imq'[q].threads) = WaitingAt(q)'
  <2>1. Members(imq[q].threads) = WaitingAt(q)
    BY DEF LinkInv, ReceiverLinks
  <2>2. QED
    BY <2>1 DEF WaitingAt
<1>3. QED
  BY <1>1, <1>2 DEF ReceiverLinks

LEMMA ReceiversKept ==
    ASSUME LinkInv,
           \A r \in Receivers : th'[r] = th[r],
           \A q \in Queues : imq'[q].threads = imq[q].threads
    PROVE  ReceiversOK' /\ ReceiverLinks'
<1>1. ReceiversOK'
  BY DEF LinkInv, ReceiversOK
<1>2. \A q \in Queues : WaitingAt(q)' = WaitingAt(q)
  BY DEF WaitingAt
<1>3. QED
  BY <1>1, <1>2 DEF LinkInv, ReceiverLinks

\* No sender has a new receive right, and a port changes hands only when its
\* right is in no message.
LEMMA CircularsStep ==
    ASSUME LinkInv,
           \A t \in Senders : \/ th'[t].kmsg = th[t].kmsg
                              \/ th'[t].kmsg = None
                              \/ ~th'[t].kmsg.circular,
           \A p \in Ports : \/ ip'[p].right = ip[p].right
                            \/ \A t \in Senders : ~Carries(t, p)'
    PROVE  Circulars'
<1>1. \A t \in Senders, p \in Ports : Carries(t, p)' => Carries(t, p)
  BY DEF Carries
<1>2. \A t \in Senders, p \in Ports : Carries(t, p)' =>
        ip[p].right = "limbo" /\ \A u \in Senders : Carries(u, p) => u = t
  BY <1>1 DEF LinkInv, Circulars
<1>3. QED
  BY <1>1, <1>2 DEF Circulars
-----------------------------------------------------------------------------
(* Records of threads.                                                     *)

States == {"none", "in_progress", "success", "too_large", "port_died", "port_changed"}

\* u goes on with the given state.
Gone(u, v, state) ==
    /\ v \in ThreadRecord
    /\ v.pc = u.pc /\ v.how = u.how /\ v.buf = u.buf /\ v.mq = u.mq
    /\ v.ith_state = state /\ v.wait # "waiting"

LEMMA ThreadGo ==
    ASSUME NEW ths \in [Threads -> ThreadRecord], NEW T, NEW state \in States
    PROVE  /\ thread_go(ths, T, state) \in [Threads -> ThreadRecord]
           /\ \A t \in Threads :
                IF t \in T
                THEN /\ Gone(ths[t], thread_go(ths, T, state)[t], state)
                     /\ thread_go(ths, T, state)[t].kmsg = ths[t].kmsg
                ELSE thread_go(ths, T, state)[t] = ths[t]
<1> DEFINE new(t) == [ths[t] EXCEPT !.ith_state = state,
                        !.wait = IF @ = "waiting" THEN "awakened" ELSE @]
<1>1. ASSUME NEW t \in Threads
      PROVE  Gone(ths[t], new(t), state) /\ new(t).kmsg = ths[t].kmsg
  <2>1. ths[t] \in ThreadRecord
    OBVIOUS
  <2>2. QED
    BY <2>1 DEF Gone, ThreadRecord, States
<1>2. \A t \in Threads : thread_go(ths, T, state)[t] = IF t \in T THEN new(t) ELSE ths[t]
  BY DEF thread_go
<1>3. \A t \in Threads : new(t) \in ThreadRecord
  BY <1>1 DEF Gone
<1> HIDE DEF new
<1>4. thread_go(ths, T, state) = [t \in Threads |-> thread_go(ths, T, state)[t]]
  BY DEF thread_go
<1>5. thread_go(ths, T, state) \in [Threads -> ThreadRecord]
  BY <1>2, <1>3, <1>4
<1>6. QED
  BY <1>1, <1>2, <1>5

LEMMA IdleShape ==
    /\ Idle \in ThreadRecord /\ Idle.pc = "idle" /\ Idle.ith_state = "none"
    /\ Idle.kmsg = None /\ Idle.wait = "awakened" /\ Idle.mq = None
    /\ SenderOK(Idle) /\ ReceiverOK(Idle)
BY DEF Idle, ThreadRecord, SenderOK, ReceiverOK

LEMMA MessageShape ==
    ASSUME NEW m \in Messages
    PROVE  m.port \in Ports /\ m.port \in Queues /\ m # None
           /\ m.circular \in BOOLEAN /\ m.big \in BOOLEAN
BY MqueueAssumption DEF Messages, Queues

\* A thread that was given a message can tell.
LEMMA StateGiven ==
    ASSUME NEW buf, NEW m \in Messages, ~Declines(buf, m)
    PROVE  \/ RcvState(buf, m) = "success"
           \/ RcvState(buf, m) = "too_large" /\ buf # "large"
BY MessageShape DEF RcvState, Declines

\* What the receivers met in a delivery find when they go on.
LEMMA ReceiversGo ==
    ASSUME LinkInv, NEW q \in Queues, NEW ms \in Seq(Messages)
    PROVE  LET d == Deliver(q, ms)
               new == Receivers_go(d)
           IN /\ new \in [Threads -> ThreadRecord]
              /\ \A t \in Threads :
                   /\ t \in Taken(d) =>
                        /\ Gone(th[t], new[t], new[t].ith_state)
                        /\ \/ new[t].ith_state = "success"
                           \/ new[t].ith_state = "too_large" /\ th[t].buf # "large"
                        /\ new[t].kmsg \in Messages
                        /\ <<t, new[t].kmsg>> \in d.handed
                   /\ t \in d.declined =>
                        /\ Gone(th[t], new[t], "too_large")
                        /\ th[t].buf = "large" /\ new[t].kmsg = th[t].kmsg
                   /\ t \notin Taken(d) \cup d.declined => new[t] = th[t]
<1> DEFINE d == Deliver(q, ms)
           new == Receivers_go(d)
           gone == thread_go(th, d.declined, "too_large")
           kmsg(t) == (CHOOSE h \in d.handed : h[1] = t)[2]
<1>1. th \in [Threads -> ThreadRecord] /\ imq[q] \in QueueRecord /\ Once(imq[q].threads)
  BY DEF LinkInv, Shapes, ReceiverLinks
<1>2. /\ Taken(d) \cap d.declined = {}
      /\ \A r \in d.declined : th[r].buf = "large"
  BY <1>1, DeliverProperties
<1>3. \A x \in d.handed : /\ \E j \in 1 .. Len(Chosen(q, ms)) : x = <<x[1], ms[j]>>
                          /\ ~Declines(th[x[1]].buf, x[2])
  BY <1>1, DeliverProperties
<1>4. Len(Chosen(q, ms)) \in 0 .. Len(ms)
  BY <1>1, DeliverProperties
<1>5. \A j \in 1 .. Len(Chosen(q, ms)) : ms[j] \in Messages
  BY <1>4, LenProperties, ElementOfSeq
<1>6. /\ new = [t \in Threads |-> new[t]]
      /\ \A t \in Threads :
           new[t] = IF \E h \in d.handed : h[1] = t
                    THEN [thread_go(th, {t}, RcvState(th[t].buf, kmsg(t)))[t]
                            EXCEPT !.kmsg = kmsg(t)]
                    ELSE gone[t]
  BY DEF Receivers_go
<1> HIDE DEF d, new
<1>7. \A t : t \in Taken(d) <=> \E h \in d.handed : h[1] = t
  BY DEF Taken
<1>8. ASSUME NEW t \in Threads, t \in Taken(d)
      PROVE  /\ Gone(th[t], new[t], new[t].ith_state)
             /\ \/ new[t].ith_state = "success"
                \/ new[t].ith_state = "too_large" /\ th[t].buf # "large"
             /\ new[t].kmsg \in Messages
             /\ <<t, new[t].kmsg>> \in d.handed
  <2> DEFINE x == CHOOSE h \in d.handed : h[1] = t
             s == RcvState(th[t].buf, x[2])
             u == thread_go(th, {t}, s)[t]
  <2>1. x \in d.handed /\ x[1] = t
    BY <1>7, <1>8
  <2>2. new[t] = [u EXCEPT !.kmsg = x[2]]
    BY <1>6, <1>7, <1>8
  <2> HIDE DEF x
  <2>3. PICK j \in 1 .. Len(Chosen(q, ms)) : x = <<x[1], ms[j]>>
    BY <1>3, <2>1
  <2>4. x[2] \in Messages /\ x = <<t, x[2]>>
    BY <1>5, <2>1, <2>3
  <2>5. ~Declines(th[t].buf, x[2])
    BY <1>3, <2>1
  <2>6. \/ s = "success"
        \/ s = "too_large" /\ th[t].buf # "large"
    BY <2>4, <2>5, StateGiven
  <2>7. s \in States
    BY <2>6 DEF States
  <2> HIDE DEF s
  <2>8. Gone(th[t], u, s)
    BY <1>1, <2>7, ThreadGo
  <2> HIDE DEF u
  <2>9. Gone(th[t], new[t], s) /\ new[t].kmsg = x[2]
    BY <2>2, <2>4, <2>8 DEF Gone, ThreadRecord
  <2>10. new[t].ith_state = s
    BY <2>9 DEF Gone
  <2>11. QED
    BY <2>1, <2>4, <2>6, <2>9, <2>10
<1>9. ASSUME NEW t \in Threads, t \notin Taken(d)
      PROVE  new[t] = gone[t]
  BY <1>6, <1>7, <1>9
<1>10. "too_large" \in States
  BY DEF States
<1>11. \A t \in Threads :
         IF t \in d.declined
         THEN Gone(th[t], gone[t], "too_large") /\ gone[t].kmsg = th[t].kmsg
         ELSE gone[t] = th[t]
  BY <1>1, <1>10, ThreadGo
<1> HIDE DEF gone
<1>12. ASSUME NEW t \in Threads, t \in d.declined
       PROVE  Gone(th[t], new[t], "too_large") /\ th[t].buf = "large" /\ new[t].kmsg = th[t].kmsg
  <2>1. new[t] = gone[t]
    BY <1>2, <1>9, <1>12
  <2>2. QED
    BY <1>2, <1>11, <1>12, <2>1
<1>13. ASSUME NEW t \in Threads, t \notin Taken(d) \cup d.declined
       PROVE  new[t] = th[t]
  BY <1>9, <1>11, <1>13
<1>14. \A t \in Threads : new[t] \in ThreadRecord
  BY <1>1, <1>8, <1>12, <1>13 DEF Gone
<1>15. new \in [Threads -> ThreadRecord]
  BY <1>6, <1>14
<1>16. QED
  BY <1>8, <1>12, <1>13, <1>15, Zenon DEF new, d
-----------------------------------------------------------------------------
(* The sender's side.                                                      *)

LEMMA PortTypes ==
    ASSUME LinkInv, NEW p \in Ports
    PROVE  /\ ip[p] \in PortShape /\ ip[p].right \in {"held", "limbo", "dead"}
           /\ ip[p].pset \in Psets \cup {None} /\ ip[p].msgcount \in Int
           /\ ip[p].qlimit \in Nat /\ ip[p].seqno \in Nat
           /\ ip[p].blocked \in Seq(Senders) /\ MqueueOf(p) \in Queues /\ p \in Queues
           /\ DOMAIN ip = Ports
BY DEF LinkInv, Shapes, PortShape, MqueueOf, Queues

LEMMA QueueTypes ==
    ASSUME LinkInv, NEW q \in Queues
    PROVE  /\ imq[q].messages \in Seq(Messages) /\ imq[q].threads \in Seq(Receivers)
           /\ imq[q] \in QueueRecord
           /\ DOMAIN imq = Queues
BY DEF LinkInv, Shapes, QueueRecord

LEMMA ThreadTypes ==
    ASSUME LinkInv
    PROVE  /\ th \in [Threads -> ThreadRecord] /\ DOMAIN th = Threads
           /\ \A t \in Threads : th[t].kmsg \in Messages \cup {None}
           /\ \A t \in Senders : t \in Threads /\ t \notin Receivers
           /\ \A r \in Receivers : r \in Threads /\ r \notin Senders
BY MqueueAssumption DEF LinkInv, Shapes, ThreadRecord, Threads

\* m has the next number.
Fresh(m) == m.n = sent + 1 /\ sent' = sent + 1

\* Thread t sends m, a new message or the one it has, and is not in ip_blocked
\* any more.
Sending(t, m, blocked) ==
    /\ t \in Senders /\ m \in Messages
    /\ \/ th[t].pc = "idle" /\ ~m.circular /\ Fresh(m)
       \/ th[t].kmsg = m
    /\ blocked \in Seq(Senders) /\ Once(blocked)
    /\ Members(blocked) = Members(ip[m.port].blocked) \ {t}

LEMMA SendingAlone ==
    ASSUME LinkInv, NEW t, NEW m, NEW blocked, Sending(t, m, blocked)
    PROVE  /\ \A p \in Ports : p # m.port => t \notin Members(ip[p].blocked)
           /\ m.circular => /\ ip[m.port].right = "limbo"
                            /\ \A u \in Senders : Carries(u, m.port) => u = t
           /\ m.port \in Ports
<1>1. m.port \in Ports /\ m # None /\ t \in Senders
  BY MessageShape DEF Sending
<1>2. ASSUME NEW p \in Ports, p # m.port, t \in Members(ip[p].blocked) PROVE FALSE
  <2>1. th[t].ith_state = "in_progress" /\ th[t].kmsg.port = p
    BY <1>2 DEF LinkInv, SenderLinks, BlockedAt
  <2>2. SenderOK(th[t])
    BY <1>1 DEF LinkInv, SendersOK
  <2>3. QED
    BY <1>2, <2>1, <2>2 DEF SenderOK, Sending
<1>3. m.circular => Carries(t, m.port)
  BY <1>1 DEF Sending, Carries
<1>4. QED
  BY <1>1, <1>2, <1>3 DEF LinkInv, Circulars

\* t is idle again, or blocked, and the other senders did not notice.
LEMMA SenderLeaves ==
    ASSUME LinkInv, NEW t, NEW m, NEW blocked, Sending(t, m, blocked),
           th'[t] = Idle,
           \A u \in Senders \ {t} : th'[u] = th[u],
           \A p \in Ports : ip'[p].blocked = IF p = m.port THEN blocked ELSE ip[p].blocked
    PROVE  SendersOK' /\ SenderLinks'
<1> DEFINE C == {t}
<1>1. \A u \in Senders : IF u \in C THEN SenderOK(th'[u]) ELSE th'[u] = th[u]
  BY IdleShape
<1>2. ASSUME NEW p \in Ports
      PROVE  /\ Once(ip'[p].blocked)
             /\ Members(ip'[p].blocked) =
                  (Members(ip[p].blocked) \ C) \cup {u \in Senders \cap C :
                     th'[u].ith_state = "in_progress" /\ th'[u].kmsg.port = p}
  <2>1. {u \in Senders \cap C : th'[u].ith_state = "in_progress" /\ th'[u].kmsg.port = p} = {}
    BY IdleShape
  <2>2. Once(ip[p].blocked)
    BY DEF LinkInv, SenderLinks
  <2>3. p # m.port => t \notin Members(ip[p].blocked)
    BY SendingAlone
  <2>4. QED
    BY <2>1, <2>2, <2>3 DEF Sending
<1> HIDE DEF C
<1>3. QED
  BY <1>1, <1>2, SendersStep

LEMMA SenderBlocks ==
    ASSUME LinkInv, NEW t, NEW m, NEW blocked, Sending(t, m, blocked),
           SenderOK(th'[t]), th'[t].ith_state = "in_progress", th'[t].kmsg = m,
           \A u \in Senders \ {t} : th'[u] = th[u],
           \A p \in Ports : ip'[p].blocked = IF p = m.port THEN Append(blocked, t)
                                                           ELSE ip[p].blocked
    PROVE  SendersOK' /\ SenderLinks'
<1> DEFINE C == {t}
<1>0. t \in Senders /\ blocked \in Seq(Senders) /\ Once(blocked)
      /\ Members(blocked) = Members(ip[m.port].blocked) \ {t}
  BY DEF Sending
<1>1. \A u \in Senders : IF u \in C THEN SenderOK(th'[u]) ELSE th'[u] = th[u]
  OBVIOUS
<1>2. ASSUME NEW p \in Ports
      PROVE  /\ Once(ip'[p].blocked)
             /\ Members(ip'[p].blocked) =
                  (Members(ip[p].blocked) \ C) \cup {u \in Senders \cap C :
                     th'[u].ith_state = "in_progress" /\ th'[u].kmsg.port = p}
  <2>1. {u \in Senders \cap C : th'[u].ith_state = "in_progress" /\ th'[u].kmsg.port = p}
          = IF p = m.port THEN {t} ELSE {}
    BY <1>0
  <2>2. Once(ip[p].blocked)
    BY DEF LinkInv, SenderLinks
  <2>3. p # m.port => t \notin Members(ip[p].blocked)
    BY SendingAlone
  <2>4. Members(Append(blocked, t)) = Members(blocked) \cup {t}
    BY <1>0, AppendMembers
  <2>5. t \notin Members(blocked)
    BY <1>0
  <2>6. Once(Append(blocked, t))
    BY <1>0, <2>5, AppendMembers
  <2>7. QED
    BY <1>0, <2>1, <2>2, <2>3, <2>4, <2>6
<1> HIDE DEF C
<1>3. QED
  BY <1>1, <1>2, SendersStep

\* The parts that look at the queues and at the rights only.
LEMMA QueuesKept ==
    ASSUME LinkInv, imq' = imq,
           \A p \in Ports :
             /\ ip'[p].pset = ip[p].pset
             /\ ip'[p].right = "dead" <=> ip[p].right = "dead"
    PROVE  MessagesPlaced' /\ NoReceiverBesideMessage'
<1>1. NoReceiverBesideMessage'
  BY DEF LinkInv, NoReceiverBesideMessage
<1>2. ASSUME NEW q \in Queues, NEW m \in Members(imq[q].messages)
      PROVE  ip_active(m.port)' /\ q = MqueueOf(m.port)'
  <2>1. m.port \in Ports
    BY QueueTypes, NoMembers, MessageShape
  <2>2. ip_active(m.port) /\ q = MqueueOf(m.port)
    BY DEF LinkInv, MessagesPlaced
  <2>3. QED
    BY <2>1, <2>2 DEF ip_active, MqueueOf
<1>3. QED
  BY <1>1, <1>2 DEF MessagesPlaced

Counters == ips_active' = ips_active /\ sent' \in 0 .. MaxSends /\ ops' \in 0 .. MaxOps

LEMMA ReturnShape ==
    ASSUME NEW ths \in [Threads -> ThreadRecord], NEW t \in Threads
    PROVE  /\ Return(ths, t) \in [Threads -> ThreadRecord] /\ Return(ths, t)[t] = Idle
           /\ \A u \in Threads \ {t} : Return(ths, t)[u] = ths[u]
BY IdleShape DEF Return

\* The port is dead.
LEMMA SendDead ==
    ASSUME LinkInv, NEW t, NEW m, NEW blocked, Sending(t, m, blocked), Counters,
           ~ip_active(m.port), th' = Return(th, t), ip' = ip, imq' = imq
    PROVE  LinkInv'
<1>1. t \in Senders /\ t \in Threads /\ m.port \in Ports /\ m \in Messages
  BY SendingAlone, ThreadTypes DEF Sending
<1>2. th' \in [Threads -> ThreadRecord] /\ th'[t] = Idle
      /\ \A u \in Threads \ {t} : th'[u] = th[u]
  BY <1>1, ThreadTypes, ReturnShape
<1>3. blocked = ip[m.port].blocked
  <2>1. ip[m.port].blocked = <<>>
    BY <1>1 DEF LinkInv, PortsOK, ip_active
  <2>2. Members(blocked) = {}
    BY <2>1, NoMembers DEF Sending
  <2>3. blocked \in Seq(Senders)
    BY DEF Sending
  <2>4. QED
    BY <2>1, <2>2, <2>3, NoMembers
<1>4. \A u \in Senders \ {t} : th'[u] = th[u]
  BY <1>2, ThreadTypes
<1>5. SendersOK' /\ SenderLinks'
  <2>1. \A p \in Ports : ip'[p].blocked = IF p = m.port THEN blocked ELSE ip[p].blocked
    BY <1>3
  <2>2. QED
    BY <1>2, <1>4, <2>1, SenderLeaves
<1>6. ReceiversOK' /\ ReceiverLinks'
  BY <1>1, <1>2, ThreadTypes, ReceiversKept
<1>7. MessagesPlaced' /\ NoReceiverBesideMessage'
  BY QueuesKept
<1>8. PortsOK'
  BY DEF LinkInv, PortsOK
<1>9. Circulars'
  <2>1. \A u \in Senders : th'[u].kmsg = th[u].kmsg \/ th'[u].kmsg = None
    BY <1>2, <1>4, IdleShape
  <2>2. QED
    BY <2>1, CircularsStep
<1>10. Shapes'
  BY <1>2 DEF LinkInv, Shapes, Counters
<1>11. QED
  BY <1>5, <1>6, <1>7, <1>8, <1>9, <1>10 DEF LinkInv

\* The send fails.
LEMMA SendRefused ==
    ASSUME LinkInv, NEW t, NEW m, NEW blocked, Sending(t, m, blocked), Counters,
           ip_active(m.port), Refuse(t, m, blocked)
    PROVE  LinkInv'
<1>1. t \in Senders /\ t \in Threads /\ m.port \in Ports /\ blocked \in Seq(Senders)
      /\ m \in Messages
  BY SendingAlone, ThreadTypes DEF Sending
<1>2. th' \in [Threads -> ThreadRecord] /\ th'[t] = Idle
      /\ \A u \in Threads \ {t} : th'[u] = th[u]
  BY <1>1, ThreadTypes, ReturnShape DEF Refuse
<1>3. imq' = imq
  BY DEF Refuse
<1>4. \A u \in Senders \ {t} : th'[u] = th[u]
  BY <1>2, ThreadTypes
<1>5. /\ ip' \in [Ports -> PortShape]
      /\ \A p \in Ports :
           /\ ip'[p].blocked = IF p = m.port THEN blocked ELSE ip[p].blocked
           /\ ip'[p].right = IF p = m.port /\ m.circular THEN "held" ELSE ip[p].right
           /\ ip'[p].pset = ip[p].pset
  <2>1. ip \in [Ports -> PortShape]
    BY DEF LinkInv, Shapes
  <2> DEFINE x == m.port
             right == IF m.circular THEN "held" ELSE ip[x].right
             port == [ip[x] EXCEPT !.blocked = blocked, !.right = right]
  <2>2. ip' = [ip EXCEPT ![x] = port]
    BY <1>1, <2>1 DEF Refuse, PortShape
  <2>3. right \in {"held", "limbo", "dead"} /\ ip[x] \in PortShape
    BY <1>1, PortTypes
  <2> HIDE DEF right
  <2>4. port \in PortShape /\ port.blocked = blocked /\ port.right = right
        /\ port.pset = ip[x].pset
    BY <1>1, <2>3 DEF PortShape
  <2> HIDE DEF port
  <2>5. QED
    BY <1>1, <2>1, <2>2, <2>4 DEF right
<1>6. m.circular => /\ ip[m.port].right = "limbo"
                    /\ \A u \in Senders : Carries(u, m.port) => u = t
  BY SendingAlone
<1>7. SendersOK' /\ SenderLinks'
  BY <1>2, <1>4, <1>5, SenderLeaves
<1>8. ReceiversOK' /\ ReceiverLinks'
  BY <1>1, <1>2, <1>3, ThreadTypes, ReceiversKept
<1>9. MessagesPlaced' /\ NoReceiverBesideMessage'
  BY <1>3, <1>5, <1>6, QueuesKept
<1>10. PortsOK'
  <2> SUFFICES ASSUME NEW p \in Ports
               PROVE  /\ ip'[p].pset # None \/ ip'[p].right # "held" => imq'[p].threads = <<>>
                      /\ ip'[p].right # "held" => ip'[p].pset = None
                      /\ ip'[p].right = "dead" => ip'[p].blocked = <<>>
    BY DEF PortsOK
  <2>1. /\ ip[p].pset # None \/ ip[p].right # "held" => imq[p].threads = <<>>
        /\ ip[p].right # "held" => ip[p].pset = None
        /\ ip[p].right = "dead" => ip[p].blocked = <<>>
    BY DEF LinkInv, PortsOK
  <2>2. CASE p = m.port
    BY <1>3, <1>5, <1>6, <2>1, <2>2 DEF ip_active
  <2>3. CASE p # m.port
    BY <1>3, <1>5, <2>1, <2>3
  <2>4. QED
    BY <2>2, <2>3
<1>11. Circulars'
  <2>1. \A u \in Senders : th'[u].kmsg = th[u].kmsg \/ th'[u].kmsg = None
    BY <1>2, <1>4, IdleShape
  <2>2. m.circular => \A u \in Senders : ~Carries(u, m.port)'
    BY <1>2, <1>4, <1>6, IdleShape DEF Carries
  <2>3. \A p \in Ports : ip'[p].right = ip[p].right \/ \A u \in Senders : ~Carries(u, p)'
    BY <1>5, <2>2
  <2>4. QED
    BY <2>1, <2>3, CircularsStep
<1>12. Shapes'
  BY <1>2, <1>3, <1>5 DEF LinkInv, Shapes, Counters
<1>13. QED
  BY <1>7, <1>8, <1>9, <1>10, <1>11, <1>12 DEF LinkInv

BlockedSender(m, how) ==
    [Idle EXCEPT !.pc = "blocked", !.kmsg = m, !.how = how, !.wait = "waiting",
                 !.ith_state = "in_progress"]

\* The sender sleeps.
LEMMA SendBlocks ==
    ASSUME LinkInv, NEW t, NEW m, NEW blocked, Sending(t, m, blocked), Counters,
           NEW how \in {"always", "timed", "forever"},
           ip_active(m.port), imq' = imq,
           ip' = [ip EXCEPT ![m.port].blocked = Append(blocked, t)],
           th' = [th EXCEPT ![t] = BlockedSender(m, how)]
    PROVE  LinkInv'
<1>1. t \in Senders /\ t \in Threads /\ m.port \in Ports /\ blocked \in Seq(Senders)
      /\ m \in Messages /\ m # None
  BY SendingAlone, ThreadTypes, MessageShape DEF Sending
<1>2. /\ BlockedSender(m, how) \in ThreadRecord /\ SenderOK(BlockedSender(m, how))
      /\ BlockedSender(m, how).kmsg = m /\ BlockedSender(m, how).ith_state = "in_progress"
  BY <1>1 DEF BlockedSender, Idle, ThreadRecord, SenderOK
<1>3. th' \in [Threads -> ThreadRecord] /\ th'[t] = BlockedSender(m, how)
      /\ \A u \in Threads \ {t} : th'[u] = th[u]
  BY <1>1, <1>2, ThreadTypes
<1>4. \A u \in Senders \ {t} : th'[u] = th[u]
  BY <1>3, ThreadTypes
<1>5. Append(blocked, t) \in Seq(Senders)
  BY <1>1, AppendMembers
<1>6. /\ ip' \in [Ports -> PortShape]
      /\ \A p \in Ports :
           /\ ip'[p].blocked = IF p = m.port THEN Append(blocked, t) ELSE ip[p].blocked
           /\ ip'[p].right = ip[p].right
           /\ ip'[p].pset = ip[p].pset
  <2>1. ip \in [Ports -> PortShape]
    BY DEF LinkInv, Shapes
  <2>3. QED
    BY <1>1, <1>5, <2>1 DEF PortShape
<1>7. SendersOK' /\ SenderLinks'
  BY <1>2, <1>3, <1>4, <1>6, SenderBlocks
<1>8. ReceiversOK' /\ ReceiverLinks'
  BY <1>1, <1>3, ThreadTypes, ReceiversKept
<1>9. MessagesPlaced' /\ NoReceiverBesideMessage'
  BY <1>6, QueuesKept
<1>10. PortsOK'
  BY <1>6 DEF LinkInv, PortsOK, ip_active
<1>11. Circulars'
  <2>1. \A u \in Senders : \/ th'[u].kmsg = th[u].kmsg \/ th'[u].kmsg = None
                           \/ ~th'[u].kmsg.circular
    BY <1>2, <1>3, <1>4 DEF Sending
  <2>2. QED
    BY <1>6, <2>1, CircularsStep
<1>12. Shapes'
  BY <1>3, <1>6 DEF LinkInv, Shapes, Counters
<1>13. QED
  BY <1>7, <1>8, <1>9, <1>10, <1>11, <1>12 DEF LinkInv

LEMMA SenderWoken ==
    ASSUME NEW u, NEW v, SenderOK(u), u.ith_state = "in_progress",
           Gone(u, v, "success"), v.kmsg = u.kmsg
    PROVE  SenderOK(v)
BY DEF SenderOK, Gone

\* The blocked senders of G at p are woken; the threads of own are done with
\* their call.
Wakes(p, G, own) ==
    /\ G \subseteq Members(ip[p].blocked)
    /\ \A u \in Senders :
         /\ u \in own => th'[u] = Idle
         /\ u \in G \ own => Gone(th[u], th'[u], "success") /\ th'[u].kmsg = th[u].kmsg
         /\ u \notin G \cup own => th'[u] = th[u]
    /\ \A x \in Ports \ {p} : /\ ip'[x].blocked = ip[x].blocked
                              /\ own \cap Members(ip[x].blocked) = {}
    /\ Once(ip'[p].blocked)
    /\ Members(ip'[p].blocked) = Members(ip[p].blocked) \ (G \cup own)

LEMMA SendersWoken ==
    ASSUME LinkInv, NEW p \in Ports, NEW G, NEW own, Wakes(p, G, own)
    PROVE  SendersOK' /\ SenderLinks'
<1> DEFINE C == G \cup own
<1>1. \A x \in Ports : Members(ip[x].blocked) = BlockedAt(x) /\ Once(ip[x].blocked)
  BY DEF LinkInv, SenderLinks
<1>2. ASSUME NEW u \in Senders
      PROVE  IF u \in C THEN SenderOK(th'[u]) /\ th'[u].ith_state # "in_progress"
                        ELSE th'[u] = th[u]
  <2>1. CASE u \in own
    BY <2>1, IdleShape DEF Wakes
  <2>2. CASE u \in G \ own
    <3>1. SenderOK(th[u]) /\ th[u].ith_state = "in_progress"
      BY <1>1, <2>2 DEF BlockedAt, LinkInv, SendersOK, Wakes
    <3>2. Gone(th[u], th'[u], "success") /\ th'[u].kmsg = th[u].kmsg
      BY <2>2 DEF Wakes
    <3>3. SenderOK(th'[u])
      BY <3>1, <3>2, SenderWoken
    <3>4. QED
      BY <2>2, <3>2, <3>3 DEF Gone
  <2>3. CASE u \notin C
    BY <2>3 DEF Wakes
  <2>4. QED
    BY <2>1, <2>2, <2>3
<1>3. ASSUME NEW x \in Ports
      PROVE  /\ Once(ip'[x].blocked)
             /\ Members(ip'[x].blocked) =
                  (Members(ip[x].blocked) \ C) \cup {u \in Senders \cap C :
                     th'[u].ith_state = "in_progress" /\ th'[u].kmsg.port = x}
  <2>1. {u \in Senders \cap C : th'[u].ith_state = "in_progress" /\ th'[u].kmsg.port = x} = {}
    BY <1>2
  <2>2. CASE x = p
    BY <2>1, <2>2 DEF Wakes
  <2>3. CASE x # p
    <3>1. Members(ip[x].blocked) \cap G = {}
      BY <1>1, <2>3 DEF BlockedAt, Wakes
    <3>2. QED
      BY <1>1, <2>1, <2>3, <3>1 DEF Wakes
  <2>4. QED
    BY <2>2, <2>3
<1> HIDE DEF C
<1>4. \A u \in Senders : IF u \in C THEN SenderOK(th'[u]) ELSE th'[u] = th[u]
  BY <1>2
<1>5. QED
  BY <1>3, <1>4, SendersStep

LEMMA DeadPortShape ==
    ASSUME NEW ports \in [Ports -> PortShape], NEW p \in Ports
    PROVE  /\ DeadPort(ports, p) \in [Ports -> PortShape]
           /\ DeadPort(ports, p)[p].right = "dead"
           /\ DeadPort(ports, p)[p].blocked = <<>>
           /\ DeadPort(ports, p)[p].pset = ports[p].pset
           /\ \A x \in Ports \ {p} : DeadPort(ports, p)[x] = ports[x]
<1> DEFINE port == [ports[p] EXCEPT !.right = "dead", !.blocked = <<>>]
<1>1. DeadPort(ports, p) = [ports EXCEPT ![p] = port]
  BY DEF DeadPort, PortShape
<1>2. ports[p] \in PortShape /\ <<>> \in Seq(Senders)
  OBVIOUS
<1>3. /\ port \in PortShape /\ port.right = "dead" /\ port.blocked = <<>>
      /\ port.pset = ports[p].pset
  BY <1>2 DEF PortShape
<1> HIDE DEF port
<1>4. QED
  BY <1>1, <1>3

\* The message carries the receive right of its port: the port dies.
LEMMA SendCircular ==
    ASSUME LinkInv, NEW t, NEW m, NEW blocked, Sending(t, m, blocked), Counters,
           m.circular, ip' = DeadPort(ip, m.port), imq' = EmptyQueue(imq, m.port),
           th' = Return(SendersGo(th, m.port), t)
    PROVE  LinkInv'
<1> DEFINE p == m.port
           G == Members(ip[p].blocked)
           gone == SendersGo(th, p)
<1>1. t \in Senders /\ t \in Threads /\ p \in Ports /\ p \in Queues
  BY SendingAlone, ThreadTypes, PortTypes DEF Sending
<1>2. /\ ip[p].right = "limbo" /\ \A u \in Senders : Carries(u, p) => u = t
      /\ \A x \in Ports \ {p} : t \notin Members(ip[x].blocked)
      /\ G \subseteq Senders
  BY <1>1, SendingAlone, PortTypes, NoMembers
<1>3. ip[p].pset = None /\ imq[p].threads = <<>>
  BY <1>1, <1>2 DEF LinkInv, PortsOK
<1>4. /\ ip' \in [Ports -> PortShape]
      /\ ip'[p].right = "dead" /\ ip'[p].blocked = <<>> /\ ip'[p].pset = ip[p].pset
      /\ \A x \in Ports \ {p} : ip'[x] = ip[x]
  <2>1. ip \in [Ports -> PortShape]
    BY DEF LinkInv, Shapes
  <2> HIDE DEF p
  <2>2. QED
    BY <1>1, <2>1, DeadPortShape DEF p
<1>5. /\ imq' \in [Queues -> QueueRecord]
      /\ imq'[p].messages = <<>>
      /\ \A q \in Queues : imq'[q].threads = imq[q].threads
      /\ \A q \in Queues \ {p} : imq'[q] = imq[q]
  <2>1. imq \in [Queues -> QueueRecord] /\ <<>> \in Seq(Messages)
    BY DEF LinkInv, Shapes
  <2>2. QED
    BY <1>1, <2>1 DEF EmptyQueue, QueueRecord
<1>6. /\ gone \in [Threads -> ThreadRecord]
      /\ \A u \in Threads :
           IF u \in G THEN Gone(th[u], gone[u], "success") /\ gone[u].kmsg = th[u].kmsg
                      ELSE gone[u] = th[u]
  BY ThreadTypes, ThreadGo DEF SendersGo, States
<1> HIDE DEF gone, G
<1>7. /\ th' \in [Threads -> ThreadRecord] /\ th'[t] = Idle
      /\ \A u \in Threads \ {t} : th'[u] = gone[u]
  BY <1>1, <1>6, ReturnShape DEF gone
<1>8. \A u \in Senders :
        /\ u \in {t} => th'[u] = Idle
        /\ u \in G \ {t} => Gone(th[u], th'[u], "success") /\ th'[u].kmsg = th[u].kmsg
        /\ u \notin G \cup {t} => th'[u] = th[u]
  BY <1>6, <1>7, ThreadTypes
<1>9. SendersOK' /\ SenderLinks'
  <2>1. G \subseteq Members(ip[p].blocked)
    BY DEF G
  <2>2. \A x \in Ports \ {p} : /\ ip'[x].blocked = ip[x].blocked
                               /\ {t} \cap Members(ip[x].blocked) = {}
    BY <1>2, <1>4
  <2>3. Once(ip'[p].blocked) /\ Members(ip'[p].blocked) = {}
    BY <1>4, NoMembers
  <2>4. Members(ip'[p].blocked) = Members(ip[p].blocked) \ (G \cup {t})
    BY <2>3 DEF G
  <2> HIDE DEF p
  <2>5. Wakes(p, G, {t})
    BY <1>8, <2>1, <2>2, <2>3, <2>4 DEF Wakes
  <2>6. QED
    BY <1>1, <2>5, SendersWoken
<1>10. ReceiversOK' /\ ReceiverLinks'
  <2>1. \A r \in Receivers : th'[r] = th[r]
    BY <1>1, <1>2, <1>6, <1>7, ThreadTypes
  <2>2. QED
    BY <1>5, <2>1, ReceiversKept
<1>11. PortsOK'
  <2>1. \A x \in Ports : x \in Queues
    BY DEF Queues
  <2>2. QED
    BY <1>3, <1>4, <1>5, <2>1 DEF LinkInv, PortsOK
<1>12. Circulars'
  <2>1. \A u \in Senders : th'[u].kmsg = th[u].kmsg \/ th'[u].kmsg = None
    BY <1>8, IdleShape
  <2>2. \A u \in Senders : ~Carries(u, p)'
    BY <1>2, <1>8, <2>1, IdleShape DEF Carries
  <2>3. \A x \in Ports : ip'[x].right = ip[x].right \/ \A u \in Senders : ~Carries(u, x)'
    BY <1>4, <2>2
  <2>4. QED
    BY <2>1, <2>3, CircularsStep
<1>13. MessagesPlaced'
  <2> SUFFICES ASSUME NEW q \in Queues, NEW x \in Members(imq'[q].messages)
               PROVE  ip_active(x.port)' /\ q = MqueueOf(x.port)'
    BY DEF MessagesPlaced
  <2>1. q # p
    BY <1>5, NoMembers
  <2>2. x \in Members(imq[q].messages)
    BY <1>5, <2>1
  <2>3. ip_active(x.port) /\ q = MqueueOf(x.port) /\ x.port \in Ports
    BY <2>2, QueueTypes, NoMembers, MessageShape DEF LinkInv, MessagesPlaced
  <2>4. x.port # p
    BY <1>3, <2>1, <2>3 DEF MqueueOf
  <2>5. ip'[x.port] = ip[x.port]
    BY <1>4, <2>3, <2>4
  <2>6. QED
    BY <2>3, <2>5 DEF ip_active, MqueueOf
<1>14. NoReceiverBesideMessage'
  BY <1>5 DEF LinkInv, NoReceiverBesideMessage
<1>15. Shapes'
  BY <1>4, <1>5, <1>7 DEF LinkInv, Shapes, Counters
<1>16. QED
  BY <1>9, <1>10, <1>11, <1>12, <1>13, <1>14, <1>15 DEF LinkInv
-----------------------------------------------------------------------------
(* Deliveries keep the receivers in order.                                 *)

LEMMA ReceiverGiven ==
    ASSUME NEW u, NEW v, ReceiverOK(u), u.ith_state = "in_progress",
           Gone(u, v, v.ith_state), v.kmsg # None,
           \/ v.ith_state = "success"
           \/ v.ith_state = "too_large" /\ u.buf # "large"
    PROVE  ReceiverOK(v)
BY DEF ReceiverOK, Gone

LEMMA ReceiverTold ==
    ASSUME NEW u, NEW v, ReceiverOK(u), u.ith_state = "in_progress",
           Gone(u, v, v.ith_state), v.kmsg = u.kmsg,
           \/ v.ith_state \in {"port_died", "port_changed"}
           \/ v.ith_state = "too_large" /\ u.buf = "large"
    PROVE  ReceiverOK(v)
BY DEF ReceiverOK, Gone

MetBy(d) == Taken(d) \cup d.declined

LEMMA DeliverReceivers ==
    ASSUME LinkInv, NEW q \in Queues, NEW ms \in Seq(Messages)
    PROVE  LET d == Deliver(q, ms)
               new == Receivers_go(d)
           IN /\ new \in [Threads -> ThreadRecord]
              /\ MetBy(d) \subseteq WaitingAt(q)
              /\ \A r \in MetBy(d) :
                   /\ ReceiverOK(new[r]) /\ new[r].ith_state # "in_progress"
              /\ \A t \in Threads \ MetBy(d) : new[t] = th[t]
              /\ d.threads \in Seq(Receivers) /\ Once(d.threads)
              /\ Members(d.threads) = Members(imq[q].threads) \ MetBy(d)
<1> DEFINE d == Deliver(q, ms)
           new == Receivers_go(d)
<1>1. imq[q] \in QueueRecord /\ Once(imq[q].threads) /\ Members(imq[q].threads) = WaitingAt(q)
  BY QueueTypes DEF LinkInv, ReceiverLinks
<1>2. d.threads \in Seq(Receivers) /\ Once(d.threads)
  BY <1>1, DeliverProperties
<1>3. Members(d.threads) = Members(imq[q].threads) \ MetBy(d)
  BY <1>1, DeliverProperties DEF MetBy
<1>4. MetBy(d) \subseteq WaitingAt(q)
  <2>1. Taken(d) \cup d.declined \subseteq Members(imq[q].threads)
    BY <1>1, DeliverProperties
  <2>2. QED
    BY <1>1, <2>1 DEF MetBy
<1>5. new \in [Threads -> ThreadRecord]
  BY ReceiversGo
<1>6. \A t \in Threads :
        /\ t \in Taken(d) =>
             /\ Gone(th[t], new[t], new[t].ith_state)
             /\ \/ new[t].ith_state = "success"
                \/ new[t].ith_state = "too_large" /\ th[t].buf # "large"
             /\ new[t].kmsg \in Messages
             /\ <<t, new[t].kmsg>> \in d.handed
        /\ t \in d.declined =>
             /\ Gone(th[t], new[t], "too_large")
             /\ th[t].buf = "large" /\ new[t].kmsg = th[t].kmsg
        /\ t \notin Taken(d) \cup d.declined => new[t] = th[t]
  BY ReceiversGo
<1> HIDE DEF new, d
<1>7. ASSUME NEW r \in MetBy(d)
      PROVE  ReceiverOK(new[r]) /\ new[r].ith_state # "in_progress"
  <2>1. r \in Receivers /\ r \in Threads /\ th[r].ith_state = "in_progress" /\ ReceiverOK(th[r])
    BY <1>4, ThreadTypes DEF WaitingAt, LinkInv, ReceiversOK
  <2>2. CASE r \in Taken(d)
    <3>1. new[r].kmsg # None
      BY <1>6, <2>1, <2>2, MessageShape
    <3>2. ReceiverOK(new[r])
      BY <1>6, <2>1, <2>2, <3>1, ReceiverGiven
    <3>3. QED
      BY <1>6, <2>1, <2>2, <3>2
  <2>3. CASE r \in d.declined
    <3>1. new[r].ith_state = "too_large"
      BY <1>6, <2>1, <2>3 DEF Gone
    <3>2. ReceiverOK(new[r])
      BY <1>6, <2>1, <2>3, <3>1, ReceiverTold
    <3>3. QED
      BY <3>1, <3>2
  <2>4. QED
    BY <2>2, <2>3 DEF MetBy
<1>8. \A t \in Threads \ MetBy(d) : new[t] = th[t]
  BY <1>6 DEF MetBy
<1>9. QED
  BY <1>2, <1>3, <1>4, <1>5, <1>7, <1>8 DEF new, d

LEMMA DeliverMessages ==
    ASSUME LinkInv, NEW q \in Queues, NEW ms \in Seq(Messages)
    PROVE  LET d == Deliver(q, ms)
           IN /\ d.messages \in Seq(Messages)
              /\ Members(d.messages) \subseteq Members(imq[q].messages) \cup Members(ms)
              /\ d.messages # <<>> => d.threads = <<>>
              /\ imq[q].threads = <<>> => d.threads = <<>> /\ d.messages = imq[q].messages \o ms
<1> DEFINE d == Deliver(q, ms)
           h == Len(Chosen(q, ms))
           rest == SubSeq(ms, h + 1, Len(ms))
<1>1. imq[q] \in QueueRecord /\ Once(imq[q].threads) /\ imq[q].messages \in Seq(Messages)
  BY QueueTypes DEF LinkInv, ReceiverLinks
<1>2. /\ h \in 0 .. Len(ms)
      /\ d.messages = imq[q].messages \o rest
      /\ h < Len(ms) => d.threads = <<>>
  BY <1>1, DeliverProperties
<1>3. d.threads \in Seq(Receivers)
      /\ Members(d.threads) = Members(imq[q].threads) \ (Taken(d) \cup d.declined)
  BY <1>1, DeliverProperties
<1>4. Taken(d) \cup d.declined \subseteq Members(imq[q].threads)
      /\ Cardinality(Taken(d)) = h
  BY <1>1, DeliverProperties
<1> HIDE DEF d, h
<1>5. Len(ms) \in Nat /\ DOMAIN ms = 1 .. Len(ms)
  BY LenProperties
<1>6. rest \in Seq(Messages) /\ Len(rest) = Len(ms) - h
      /\ Members(rest) = {ms[i] : i \in h + 1 .. Len(ms)}
  <2>1. rest \in Seq(Messages) /\ Len(rest) = Len(ms) - h
    BY <1>2, SuffixMembers
  <2>2. Members(rest) = {ms[i] : i \in h + 1 .. Len(ms)}
    BY <1>2, SuffixMembers
  <2>3. QED
    BY <2>1, <2>2
<1>7. Members(rest) \subseteq Members(ms)
  <2>1. \A i \in h + 1 .. Len(ms) : i \in 1 .. Len(ms)
    BY <1>2, <1>5
  <2>2. QED
    BY <1>5, <1>6, <2>1 DEF Members
<1>8. h = Len(ms) => rest = <<>>
  <2> SUFFICES ASSUME h = Len(ms) PROVE rest = <<>>
    OBVIOUS
  <2>1. Len(rest) = 0
    BY <1>5, <1>6
  <2> HIDE DEF rest
  <2>2. QED
    BY <1>6, <2>1, EmptySeq
<1>9. h = 0 => rest = ms
  BY <1>2, <1>5
<1> HIDE DEF rest
<1>10. d.messages \in Seq(Messages)
       /\ Members(d.messages) = Members(imq[q].messages) \cup Members(rest)
  BY <1>1, <1>2, <1>6, ConcatMembers
<1>11. ASSUME imq[q].threads = <<>>
       PROVE  d.threads = <<>> /\ d.messages = imq[q].messages \o ms
  <2>1. Members(imq[q].threads) = {}
    BY <1>11, NoMembers
  <2>2. Members(d.threads) = {} /\ Taken(d) = {}
    BY <1>3, <1>4, <2>1
  <2>3. d.threads = <<>>
    BY <1>3, <2>2, NoMembers
  <2>4. h = 0
    BY <1>4, <2>2, FS_EmptySet
  <2>5. QED
    BY <1>2, <1>9, <2>3, <2>4
<1>12. ASSUME d.messages # <<>> PROVE d.threads = <<>>
  <2>1. CASE imq[q].messages # <<>>
    BY <1>11, <2>1 DEF LinkInv, NoReceiverBesideMessage
  <2>2. CASE imq[q].messages = <<>>
    <3>1. h # Len(ms)
      BY <1>2, <1>8, <1>12, <2>2
    <3>2. h < Len(ms)
      <4> DEFINE k == Len(ms)
      <4>1. k \in Nat /\ h \in 0 .. k /\ h # k
        BY <1>2, <1>5, <3>1
      <4> HIDE DEF k
      <4>2. h < k
        BY <4>1
      <4>3. QED
        BY <4>2 DEF k
    <3>3. QED
      BY <1>2, <3>2
  <2>3. QED
    BY <2>1, <2>2
<1>13. QED
  BY <1>7, <1>10, <1>11, <1>12 DEF d

\* The messages ms arrive at q; other queues keep their receivers.
LEMMA DeliverLinks ==
    ASSUME LinkInv, NEW q \in Queues, NEW ms \in Seq(Messages),
           \A r \in Receivers : th'[r] = Receivers_go(Deliver(q, ms))[r],
           imq'[q].threads = Deliver(q, ms).threads,
           \A x \in Queues \ {q} : imq'[x].threads = imq[x].threads
    PROVE  ReceiversOK' /\ ReceiverLinks'
<1> DEFINE d == Deliver(q, ms)
           C == MetBy(d)
           new == Receivers_go(d)
<1>1. /\ C \subseteq WaitingAt(q)
      /\ \A r \in C : ReceiverOK(new[r]) /\ new[r].ith_state # "in_progress"
      /\ \A t \in Threads \ C : new[t] = th[t]
  BY DeliverReceivers
<1>2. Once(d.threads) /\ Members(d.threads) = Members(imq[q].threads) \ C
  BY DeliverReceivers
<1> HIDE DEF C, new, d
<1>3. \A r \in Receivers :
        IF r \in C THEN ReceiverOK(th'[r]) /\ th'[r].ith_state # "in_progress"
                   ELSE th'[r] = th[r]
  BY <1>1, ThreadTypes DEF new, d
<1>4. ASSUME NEW x \in Queues
      PROVE  /\ Once(imq'[x].threads)
             /\ Members(imq'[x].threads) =
                  (Members(imq[x].threads) \ C) \cup {r \in Receivers \cap C :
                     th'[r].ith_state = "in_progress" /\ th'[r].mq = x}
  <2>1. {r \in Receivers \cap C : th'[r].ith_state = "in_progress" /\ th'[r].mq = x} = {}
    BY <1>3
  <2>2. CASE x = q
    BY <1>2, <2>1, <2>2 DEF d
  <2>3. CASE x # q
    <3>1. Once(imq[x].threads) /\ Members(imq[x].threads) = WaitingAt(x)
      BY DEF LinkInv, ReceiverLinks
    <3>2. WaitingAt(x) \cap C = {}
      BY <1>1, <2>3 DEF WaitingAt
    <3>3. QED
      BY <2>1, <2>3, <3>1, <3>2
  <2>4. QED
    BY <2>2, <2>3
<1>5. \A r \in Receivers : IF r \in C THEN ReceiverOK(th'[r]) ELSE th'[r] = th[r]
  BY <1>3
<1>6. QED
  BY <1>4, <1>5, ReceiversStep

\* The message is given to a receiver or queued.
LEMMA SendDelivered ==
    ASSUME LinkInv, NEW t, NEW m, NEW blocked, Sending(t, m, blocked), Counters,
           ip_active(m.port), ~m.circular, Accept(t, m, blocked)
    PROVE  LinkInv'
<1> DEFINE p == m.port
           q == MqueueOf(p)
           ms == <<m>>
           d == Deliver(q, ms)
           new == Receivers_go(d)
<1>1. t \in Senders /\ t \in Threads /\ t \notin Receivers /\ p \in Ports
      /\ blocked \in Seq(Senders) /\ m \in Messages
  BY SendingAlone, ThreadTypes DEF Sending
<1>2. q \in Queues /\ ms \in Seq(Messages) /\ Members(ms) = {m}
  BY <1>1, PortTypes DEF Members
<1>3. /\ ip' = [ip EXCEPT ![p].msgcount = @ + 1, ![p].seqno = @ + Cardinality(d.handed),
                          ![p].blocked = blocked]
      /\ imq' = [imq EXCEPT ![q] = [messages |-> d.messages, threads |-> d.threads]]
      /\ th' = Return(new, t)
  BY DEF Accept
<1> HIDE DEF p, q, ms
<1>4. Cardinality(d.handed) \in Nat
  <2>1. imq[q] \in QueueRecord /\ Once(imq[q].threads)
    BY <1>2, QueueTypes DEF LinkInv, ReceiverLinks
  <2>2. Cardinality(d.handed) = Len(Chosen(q, ms)) /\ Len(Chosen(q, ms)) \in 0 .. Len(ms)
    BY <1>2, <2>1, DeliverProperties
  <2>3. QED
    BY <1>2, <2>2, LenProperties
<1>5. /\ new \in [Threads -> ThreadRecord] /\ MetBy(d) \subseteq WaitingAt(q)
      /\ \A u \in Threads \ MetBy(d) : new[u] = th[u]
      /\ d.threads \in Seq(Receivers)
  BY <1>2, DeliverReceivers
<1>6. /\ d.messages \in Seq(Messages)
      /\ Members(d.messages) \subseteq Members(imq[q].messages) \cup Members(ms)
      /\ d.messages # <<>> => d.threads = <<>>
      /\ imq[q].threads = <<>> => d.threads = <<>>
  BY <1>2, DeliverMessages
<1> HIDE DEF new, d
<1>7. /\ ip' \in [Ports -> PortShape]
      /\ \A x \in Ports :
           /\ ip'[x].blocked = IF x = p THEN blocked ELSE ip[x].blocked
           /\ ip'[x].right = ip[x].right /\ ip'[x].pset = ip[x].pset
  <2> DEFINE c == ip[p].msgcount + 1
             n == ip[p].seqno + Cardinality(d.handed)
             port == [ip[p] EXCEPT !.msgcount = c, !.seqno = n, !.blocked = blocked]
  <2>1. ip \in [Ports -> PortShape] /\ ip[p] \in PortShape
    BY <1>1 DEF LinkInv, Shapes
  <2>2. ip' = [ip EXCEPT ![p] = port]
    BY <1>1, <1>3, <2>1 DEF PortShape
  <2>5. c \in Int /\ n \in Nat
    BY <1>1, <1>4, PortTypes
  <2> HIDE DEF c, n
  <2>3. port \in PortShape /\ port.blocked = blocked /\ port.right = ip[p].right
        /\ port.pset = ip[p].pset
    BY <1>1, <2>1, <2>5 DEF PortShape
  <2> HIDE DEF port
  <2>4. QED
    BY <1>1, <2>1, <2>2, <2>3
<1>8. /\ imq' \in [Queues -> QueueRecord]
      /\ imq'[q].messages = d.messages /\ imq'[q].threads = d.threads
      /\ \A x \in Queues \ {q} : imq'[x] = imq[x]
  <2>1. imq \in [Queues -> QueueRecord]
    BY DEF LinkInv, Shapes
  <2>2. QED
    BY <1>2, <1>3, <1>5, <1>6, <2>1 DEF QueueRecord
<1>9. /\ th' \in [Threads -> ThreadRecord] /\ th'[t] = Idle
      /\ \A u \in Threads \ {t} : th'[u] = new[u]
  BY <1>1, <1>3, <1>5, ReturnShape
<1>10. \A u \in Senders \ {t} : th'[u] = th[u]
  BY <1>5, <1>9, ThreadTypes DEF WaitingAt
<1>11. SendersOK' /\ SenderLinks'
  BY <1>7, <1>9, <1>10, SenderLeaves DEF p
<1>12. ReceiversOK' /\ ReceiverLinks'
  <2>1. \A r \in Receivers : th'[r] = new[r]
    BY <1>1, <1>9, ThreadTypes
  <2>2. QED
    BY <1>2, <1>8, <2>1, DeliverLinks DEF new, d
<1>13. PortsOK'
  <2>1. \A x \in Ports : x \in Queues
    BY DEF Queues
  <2>2. \A x \in Ports : imq[x].threads = <<>> => imq'[x].threads = <<>>
    BY <1>6, <1>8, <2>1
  <2>3. ip[p].right # "dead"
    BY DEF ip_active, p
  <2>4. QED
    BY <1>7, <2>2, <2>3 DEF LinkInv, PortsOK
<1>14. Circulars'
  <2>1. \A u \in Senders : th'[u].kmsg = th[u].kmsg \/ th'[u].kmsg = None
    BY <1>9, <1>10, IdleShape
  <2>2. QED
    BY <1>7, <2>1, CircularsStep
<1>15. MessagesPlaced'
  <2> SUFFICES ASSUME NEW x \in Queues, NEW y \in Members(imq'[x].messages)
               PROVE  ip_active(y.port)' /\ x = MqueueOf(y.port)'
    BY DEF MessagesPlaced
  <2>1. y \in Members(imq[x].messages) \/ (x = q /\ y = m)
    BY <1>2, <1>6, <1>8
  <2>2. y.port \in Ports
    BY <1>1, <2>1, QueueTypes, NoMembers, MessageShape
  <2>3. ip_active(y.port) /\ x = MqueueOf(y.port)
    BY <2>1 DEF LinkInv, MessagesPlaced, p, q
  <2>4. QED
    BY <1>7, <2>2, <2>3 DEF ip_active, MqueueOf
<1>16. NoReceiverBesideMessage'
  BY <1>6, <1>8 DEF LinkInv, NoReceiverBesideMessage
<1>17. Shapes'
  BY <1>7, <1>8, <1>9 DEF LinkInv, Shapes, Counters
<1>18. QED
  BY <1>11, <1>12, <1>13, <1>14, <1>15, <1>16, <1>17 DEF LinkInv

LEMMA SendLoopKeeps ==
    ASSUME LinkInv, NEW t, NEW m, NEW blocked, Sending(t, m, blocked), Counters,
           NEW how \in {"always", "poll", "timed", "forever"},
           SendLoop(t, m, how, blocked)
    PROVE  LinkInv'
<1> DEFINE room == ip[m.port].msgcount < ip[m.port].qlimit \/ how = "always"
<1>1. CASE ~ip_active(m.port) /\ th' = Return(th, t) /\ ip' = ip /\ imq' = imq
  BY <1>1, SendDead
<1>2. CASE ip_active(m.port) /\ room /\ Accept(t, m, blocked)
  <2>1. CASE ~m.circular
    BY <1>2, <2>1, SendDelivered
  <2>2. CASE m.circular
    <3>1. /\ ip' = DeadPort(ip, m.port) /\ imq' = EmptyQueue(imq, m.port)
          /\ th' = Return(SendersGo(th, m.port), t)
      BY <1>2, <2>2 DEF Accept
    <3>2. QED
      BY <2>2, <3>1, SendCircular
  <2>3. QED
    BY <2>1, <2>2
<1>3. CASE ip_active(m.port) /\ Refuse(t, m, blocked)
  BY <1>3, SendRefused
<1>4. CASE /\ ip_active(m.port) /\ ~room /\ how # "poll"
           /\ ip' = [ip EXCEPT ![m.port].blocked = Append(blocked, t)]
           /\ th' = [th EXCEPT ![t] = BlockedSender(m, how)]
           /\ imq' = imq
  <2>1. how \in {"always", "timed", "forever"}
    BY <1>4
  <2>2. QED
    BY <1>4, <2>1, SendBlocks
<1>5. QED
  BY <1>1, <1>2, <1>3, <1>4 DEF SendLoop, BlockedSender
-----------------------------------------------------------------------------
(* The actions of the senders, and the ends of waits.                      *)

LEMMA NotBlocked ==
    ASSUME LinkInv, NEW t \in Senders, NEW p \in Ports,
           th[t].ith_state # "in_progress" \/ th[t].kmsg.port # p
    PROVE  Members(ip[p].blocked) = Members(ip[p].blocked) \ {t}
BY DEF LinkInv, SenderLinks, BlockedAt

\* t tries to send, or gives up because it was interrupted.
SendHows == {"always", "poll", "timed", "forever"}
Tries(t) ==
    \E m, how, blocked :
      /\ Sending(t, m, blocked) /\ how \in SendHows
      /\ \/ SendLoop(t, m, how, blocked)
         \/ /\ ip_active(m.port) /\ th[t].ith_state = "in_progress"
            /\ Refuse(t, m, blocked)

LEMMA TryKeeps ==
    ASSUME LinkInv, Counters, NEW t, Tries(t)
    PROVE  LinkInv'
<1>1. PICK m, how, blocked :
        /\ Sending(t, m, blocked) /\ how \in SendHows
        /\ \/ SendLoop(t, m, how, blocked)
           \/ ip_active(m.port) /\ Refuse(t, m, blocked)
  BY DEF Tries
<1>2. CASE SendLoop(t, m, how, blocked)
  BY <1>1, <1>2, SendLoopKeeps DEF SendHows
<1>3. CASE ip_active(m.port) /\ Refuse(t, m, blocked)
  BY <1>1, <1>3, SendRefused
<1>4. QED
  BY <1>1, <1>2, <1>3

LEMMA SendTries ==
    ASSUME LinkInv, NEW t \in Senders, NEW p \in Ports, NEW how \in SendWaits,
           NEW big \in Sizes, Send(t, p, how, big)
    PROVE  Tries(t) /\ Counters
<1> DEFINE m == [port |-> p, n |-> sent + 1, big |-> big, circular |-> FALSE]
<1>1. /\ th[t].pc = "idle" /\ sent < MaxSends /\ sent' = sent + 1
      /\ ips_active' = ips_active /\ ops' = ops
      /\ SendLoop(t, m, how, ip[p].blocked)
  BY DEF Send
<1>2. sent \in 0 .. MaxSends /\ MaxSends \in Nat /\ ops \in 0 .. MaxOps
  BY MqueueAssumption DEF LinkInv, Shapes
<1>3. sent + 1 \in 1 .. MaxSends
  BY <1>1, <1>2
<1>4. Counters
  BY <1>1, <1>2, <1>3 DEF Counters
<1>5. m \in Messages /\ m.port = p /\ ~m.circular /\ Fresh(m)
  BY <1>1, <1>3, MqueueAssumption DEF Messages, Fresh
<1> HIDE DEF m
<1>6. th[t].ith_state # "in_progress"
  BY <1>1 DEF LinkInv, SendersOK, SenderOK
<1>7. Sending(t, m, ip[p].blocked)
  BY <1>1, <1>5, <1>6, NotBlocked, PortTypes DEF Sending, LinkInv, SenderLinks
<1>8. how \in SendHows
  BY MqueueAssumption DEF SendHows
<1>9. QED
  BY <1>1, <1>4, <1>7, <1>8 DEF Tries

LEMMA HowTypes ==
    ASSUME LinkInv, NEW t \in Senders, th[t].pc # "idle"
    PROVE  /\ th[t].kmsg \in Messages /\ th[t].kmsg.port \in Ports
           /\ th[t].how \in SendHows
<1>1. th[t] \in ThreadRecord
  BY ThreadTypes
<1>2. SenderOK(th[t])
  BY DEF LinkInv, SendersOK
<1>3. th[t].kmsg \in Messages
  BY <1>1, <1>2 DEF SenderOK, ThreadRecord
<1>4. QED
  BY <1>1, <1>2, <1>3, MessageShape DEF ThreadRecord, SenderOK, SendHows

LEMMA SendCopiedTries ==
    ASSUME LinkInv, NEW t \in Threads, SendCopied(t)
    PROVE  Tries(t) /\ Counters
<1> DEFINE m == th[t].kmsg
           p == m.port
<1>1. /\ th[t].pc = "copied" /\ SendLoop(t, m, th[t].how, ip[p].blocked)
      /\ ips_active' = ips_active /\ sent' = sent /\ ops' = ops
  BY DEF SendCopied
<1>2. t \in Senders
  BY <1>1 DEF Threads, LinkInv, ReceiversOK, ReceiverOK
<1>3. m \in Messages /\ p \in Ports /\ th[t].how \in SendHows
  BY <1>1, <1>2, HowTypes
<1>4. th[t].ith_state # "in_progress"
  BY <1>1, <1>2 DEF LinkInv, SendersOK, SenderOK
<1>5. Members(ip[p].blocked) = Members(ip[p].blocked) \ {t}
  BY <1>2, <1>3, <1>4, NotBlocked
<1>6. ip[p].blocked \in Seq(Senders) /\ Once(ip[p].blocked)
  BY <1>3, PortTypes DEF LinkInv, SenderLinks
<1>7. Sending(t, m, ip[p].blocked)
  BY <1>2, <1>3, <1>5, <1>6 DEF Sending
<1>8. Counters
  BY <1>1 DEF LinkInv, Shapes, Counters
<1> HIDE DEF m, p
<1>9. QED
  BY <1>1, <1>3, <1>7, <1>8 DEF Tries

LEMMA SendResumeTries ==
    ASSUME LinkInv, NEW t \in Threads, SendResume(t)
    PROVE  Tries(t) /\ Counters
<1> DEFINE m == th[t].kmsg
           p == m.port
           blocked == ip[p].blocked
           others == Unlinked(blocked, t)
<1>1. /\ t \in Senders /\ th[t].pc = "blocked"
      /\ \/ /\ th[t].ith_state = "success"
            /\ SendLoop(t, m, th[t].how, blocked)
         \/ /\ th[t].ith_state = "in_progress" /\ th[t].wait = "timed_out"
            /\ SendLoop(t, m, "poll", others)
         \/ /\ th[t].ith_state = "in_progress" /\ th[t].wait = "interrupted"
            /\ Refuse(t, m, others)
      /\ ips_active' = ips_active /\ sent' = sent /\ ops' = ops
  BY DEF SendResume
<1>2. m \in Messages /\ p \in Ports /\ th[t].how \in SendHows
  BY <1>1, HowTypes
<1>3. blocked \in Seq(Senders) /\ Once(blocked)
  BY <1>2, PortTypes DEF LinkInv, SenderLinks
<1>4. Counters
  BY <1>1 DEF LinkInv, Shapes, Counters
<1>5. Sending(t, m, others)
  <2>1. others \in Seq(Senders) /\ Once(others) /\ Members(others) = Members(blocked) \ {t}
    BY <1>3, UnlinkedMembers
  <2>2. QED
    BY <1>1, <1>2, <2>1 DEF Sending
<1>6. CASE th[t].ith_state = "success" /\ SendLoop(t, m, th[t].how, blocked)
  <2>1. Members(blocked) = Members(blocked) \ {t}
    BY <1>1, <1>2, <1>6, NotBlocked
  <2>2. Sending(t, m, blocked)
    BY <1>1, <1>2, <1>3, <2>1 DEF Sending
  <2> HIDE DEF m, blocked
  <2>3. QED
    BY <1>2, <1>4, <1>6, <2>2 DEF Tries
<1>7. CASE SendLoop(t, m, "poll", others)
  <2> HIDE DEF m, others
  <2>1. "poll" \in SendHows
    BY DEF SendHows
  <2>2. QED
    BY <1>4, <1>5, <1>7, <2>1 DEF Tries
<1>8. CASE th[t].ith_state = "in_progress" /\ Refuse(t, m, others)
  <2>1. t \in Members(ip[p].blocked)
    BY <1>1, <1>2, <1>8 DEF LinkInv, SenderLinks, BlockedAt
  <2>2. ip[p].blocked # <<>>
    BY <2>1, NoMembers
  <2>3. ip_active(p)
    BY <1>2, <2>2 DEF LinkInv, PortsOK, ip_active
  <2> HIDE DEF others, m
  <2>4. QED
    BY <1>2, <1>4, <1>5, <1>8, <2>3 DEF Tries
<1>9. QED
  BY <1>1, <1>6, <1>7, <1>8

\* A timer or thread_abort ends the wait of t.
LEMMA WaitEnds ==
    ASSUME LinkInv, NEW t \in Threads, NEW w \in {"timed_out", "interrupted"},
           th' = [th EXCEPT ![t].wait = w], ip' = ip, imq' = imq, Counters
    PROVE  LinkInv'
<1>1. /\ th' \in [Threads -> ThreadRecord]
      /\ \A u \in Threads :
           /\ u # t => th'[u] = th[u]
           /\ th'[u].pc = th[u].pc /\ th'[u].ith_state = th[u].ith_state
           /\ th'[u].kmsg = th[u].kmsg /\ th'[u].how = th[u].how
           /\ th'[u].buf = th[u].buf /\ th'[u].mq = th[u].mq
      /\ th'[t].wait # "waiting"
  BY ThreadTypes DEF ThreadRecord
<1>2. SendersOK' /\ SenderLinks'
  <2>1. \A u \in Senders : IF u \in {t} THEN SenderOK(th'[u]) ELSE th'[u] = th[u]
    BY <1>1, ThreadTypes DEF LinkInv, SendersOK, SenderOK
  <2>2. \A p \in Ports :
          /\ Once(ip'[p].blocked)
          /\ Members(ip'[p].blocked) =
               (Members(ip[p].blocked) \ {t}) \cup {u \in Senders \cap {t} :
                  th'[u].ith_state = "in_progress" /\ th'[u].kmsg.port = p}
    BY <1>1, ThreadTypes DEF LinkInv, SenderLinks, BlockedAt
  <2>3. QED
    BY <2>1, <2>2, SendersStep
<1>3. ReceiversOK' /\ ReceiverLinks'
  <2>1. \A r \in Receivers : IF r \in {t} THEN ReceiverOK(th'[r]) ELSE th'[r] = th[r]
    BY <1>1, ThreadTypes DEF LinkInv, ReceiversOK, ReceiverOK
  <2>2. \A q \in Queues :
          /\ Once(imq'[q].threads)
          /\ Members(imq'[q].threads) =
               (Members(imq[q].threads) \ {t}) \cup {r \in Receivers \cap {t} :
                  th'[r].ith_state = "in_progress" /\ th'[r].mq = q}
    BY <1>1, ThreadTypes DEF LinkInv, ReceiverLinks, WaitingAt
  <2>3. QED
    BY <2>1, <2>2, ReceiversStep
<1>4. MessagesPlaced' /\ NoReceiverBesideMessage'
  BY QueuesKept
<1>5. PortsOK'
  BY DEF LinkInv, PortsOK
<1>6. Circulars'
  <2>1. \A u \in Senders : th'[u].kmsg = th[u].kmsg
    BY <1>1, ThreadTypes
  <2>2. QED
    BY <2>1, CircularsStep
<1>7. Shapes'
  BY <1>1 DEF LinkInv, Shapes, Counters
<1>8. QED
  BY <1>2, <1>3, <1>4, <1>5, <1>6, <1>7 DEF LinkInv

LEMMA OperationCounts ==
    ASSUME LinkInv, Operation, ips_active' = ips_active, sent' = sent
    PROVE  Counters
BY MqueueAssumption DEF LinkInv, Shapes, Operation, Counters

LEMMA TimeoutKeeps ==
    ASSUME LinkInv, NEW t \in Threads, Timeout(t)
    PROVE  LinkInv'
<1>1. Counters
  BY DEF Timeout, LinkInv, Shapes, Counters
<1>2. QED
  BY <1>1, WaitEnds DEF Timeout

LEMMA InterruptKeeps ==
    ASSUME LinkInv, NEW t \in Threads, Interrupt(t)
    PROVE  LinkInv'
<1>1. Counters
  BY OperationCounts DEF Interrupt
<1>2. QED
  BY <1>1, WaitEnds DEF Interrupt
-----------------------------------------------------------------------------
(* A receiver accounts for its message; the limit changes.                 *)

LEMMA ReceiverReturns ==
    ASSUME LinkInv, NEW r \in Receivers, th[r].ith_state # "in_progress",
           ReceiverOK(th'[r]), th'[r].ith_state # "in_progress",
           \A u \in Receivers \ {r} : th'[u] = th[u],
           \A q \in Queues : imq'[q].threads = imq[q].threads
    PROVE  ReceiversOK' /\ ReceiverLinks'
<1>1. \A u \in Receivers : IF u \in {r} THEN ReceiverOK(th'[u]) ELSE th'[u] = th[u]
  OBVIOUS
<1>2. \A q \in Queues :
        /\ Once(imq'[q].threads)
        /\ Members(imq'[q].threads) =
             (Members(imq[q].threads) \ {r}) \cup {u \in Receivers \cap {r} :
                th'[u].ith_state = "in_progress" /\ th'[u].mq = q}
  BY DEF LinkInv, ReceiverLinks, WaitingAt
<1>3. QED
  BY <1>1, <1>2, ReceiversStep

Recount(p, count, blocked) == [ip EXCEPT ![p].msgcount = count, ![p].blocked = blocked]

LEMMA CountsOnly ==
    ASSUME LinkInv, NEW p \in Ports, NEW count \in Int, NEW blocked \in Seq(Senders),
           NEW new, new = Recount(p, count, blocked)
    PROVE  /\ new \in [Ports -> PortShape]
           /\ new[p].blocked = blocked /\ new[p].msgcount = count
           /\ \A x \in Ports : /\ new[x].right = ip[x].right /\ new[x].pset = ip[x].pset
                               /\ new[x].qlimit = ip[x].qlimit /\ new[x].seqno = ip[x].seqno
           /\ \A x \in Ports \ {p} : new[x] = ip[x]
<1> DEFINE port == [ip[p] EXCEPT !.msgcount = count, !.blocked = blocked]
<1>1. ip \in [Ports -> PortShape] /\ ip[p] \in PortShape
  BY DEF LinkInv, Shapes
<1>2. new = [ip EXCEPT ![p] = port]
  BY <1>1 DEF PortShape, Recount
<1>3. /\ port \in PortShape /\ port.blocked = blocked /\ port.msgcount = count
      /\ port.right = ip[p].right /\ port.pset = ip[p].pset
      /\ port.qlimit = ip[p].qlimit /\ port.seqno = ip[p].seqno
  BY <1>1 DEF PortShape
<1> HIDE DEF port
<1>4. QED
  BY <1>1, <1>2, <1>3

GotFacts(r) ==
    /\ th[r].kmsg \in Messages /\ th[r].kmsg.port \in Ports
    /\ th[r].ith_state # "in_progress"

LEMMA GotHas ==
    ASSUME LinkInv, NEW r \in Receivers, th[r].pc = "got"
    PROVE  GotFacts(r)
<1>1. th[r] \in ThreadRecord
  BY ThreadTypes
<1>2. ReceiverOK(th[r])
  BY DEF LinkInv, ReceiversOK
<1>3. th[r].kmsg \in Messages
  BY <1>1, <1>2 DEF ReceiverOK, ThreadRecord
<1>4. QED
  BY <1>2, <1>3, MessageShape DEF ReceiverOK, GotFacts

\* The oldest sender has its turn, or nobody.
TurnFor(p) ==
    IF ip[p].blocked # <<>> /\ ip[p].msgcount - 1 < ip[p].qlimit
    THEN {Head(ip[p].blocked)} ELSE {}

LEMMA ReceiveDoneEffect ==
    ASSUME LinkInv, NEW r \in Threads, ReceiveDone(r), ip_active(th[r].kmsg.port)
    PROVE  LET p == th[r].kmsg.port
               T == TurnFor(p)
           IN /\ ip' = [ip EXCEPT ![p].msgcount = ip[p].msgcount - 1,
                                  ![p].blocked = IF T = {} THEN ip[p].blocked
                                                 ELSE Tail(ip[p].blocked)]
              /\ th' = Return(thread_go(th, T, "success"), r)
<1> DEFINE p == th[r].kmsg.port
           T == TurnFor(p)
           turn == ip[p].blocked # <<>> /\ ip[p].msgcount - 1 < ip[p].qlimit
<1>1. r \in Receivers /\ th[r].pc = "got"
  BY DEF ReceiveDone
<1>2. p \in Ports
  BY <1>1, GotHas DEF GotFacts
<1>3. CASE turn
  <2>1. T # {} /\ T = {Head(ip[p].blocked)}
    BY <1>3 DEF TurnFor
  <2>2. /\ ip' = [ip EXCEPT ![p].msgcount = ip[p].msgcount - 1, ![p].blocked = Tail(@)]
        /\ th' = Return(thread_go(th, {Head(ip[p].blocked)}, "success"), r)
    BY <1>3 DEF ReceiveDone
  <2> HIDE DEF T
  <2>3. ip' = [ip EXCEPT ![p].msgcount = ip[p].msgcount - 1, ![p].blocked = Tail(ip[p].blocked)]
    BY <1>2, <2>2, PortTypes DEF LinkInv, Shapes, PortShape
  <2>4. QED
    BY <2>1, <2>2, <2>3 DEF T
<1>4. CASE ~turn
  <2>1. T = {}
    BY <1>4 DEF TurnFor
  <2>2. ip' = [ip EXCEPT ![p].msgcount = ip[p].msgcount - 1] /\ th' = Return(th, r)
    BY <1>4 DEF ReceiveDone
  <2>3. thread_go(th, {}, "success") = th
    BY ThreadTypes DEF thread_go
  <2> HIDE DEF T
  <2>4. [ip EXCEPT ![p].msgcount = ip[p].msgcount - 1] =
        [ip EXCEPT ![p].msgcount = ip[p].msgcount - 1, ![p].blocked = ip[p].blocked]
    BY <1>2, PortTypes DEF LinkInv, Shapes, PortShape
  <2>5. QED
    BY <2>1, <2>2, <2>3, <2>4 DEF T
<1>5. QED
  BY <1>3, <1>4

LEMMA ReceiveDoneKeeps ==
    ASSUME LinkInv, NEW r \in Threads, ReceiveDone(r)
    PROVE  LinkInv'
<1>1. /\ r \in Receivers /\ r \in Threads /\ th[r].pc = "got"
      /\ imq' = imq /\ ips_active' = ips_active /\ sent' = sent /\ ops' = ops
  BY DEF ReceiveDone
<1>2. th[r].kmsg.port \in Ports /\ th[r].ith_state # "in_progress" /\ r \notin Senders
  BY <1>1, GotHas, ThreadTypes DEF GotFacts
<1>7. PICK p \in Ports : p = th[r].kmsg.port
  BY <1>2
<1>3. Counters
  BY <1>1 DEF LinkInv, Shapes, Counters
<1>4. CASE ~ip_active(p)
  <2>1. ip' = ip /\ th' = Return(th, r)
    BY <1>4, <1>7 DEF ReceiveDone
  <2>2. /\ th' \in [Threads -> ThreadRecord] /\ th'[r] = Idle
        /\ \A u \in Threads \ {r} : th'[u] = th[u]
    BY <2>1, ThreadTypes, ReturnShape
  <2>3. \A t \in Senders : th'[t] = th[t]
    BY <1>2, <2>2, ThreadTypes
  <2>4. SendersOK' /\ SenderLinks'
    BY <2>1, <2>3, SendersKept
  <2>5. ReceiversOK' /\ ReceiverLinks'
    BY <1>1, <1>2, <2>2, IdleShape, ThreadTypes, ReceiverReturns
  <2>6. MessagesPlaced' /\ NoReceiverBesideMessage' /\ PortsOK'
    BY <1>1, <2>1, QueuesKept DEF LinkInv, PortsOK
  <2>7. Circulars'
    BY <2>1, <2>3, CircularsStep
  <2>8. Shapes'
    BY <1>1, <1>3, <2>1, <2>2 DEF LinkInv, Shapes, Counters
  <2>9. QED
    BY <2>4, <2>5, <2>6, <2>7, <2>8 DEF LinkInv
<1>5. CASE ip_active(p)
  <2>15. PICK T : T = TurnFor(p)
    OBVIOUS
  <2>16. PICK b : b = IF T = {} THEN ip[p].blocked ELSE Tail(ip[p].blocked)
    OBVIOUS
  <2>17. PICK c : c = ip[p].msgcount - 1
    OBVIOUS
  <2>18. PICK gone : gone = thread_go(th, T, "success")
    OBVIOUS
  <2>1. ip' = [ip EXCEPT ![p].msgcount = c, ![p].blocked = b] /\ th' = Return(gone, r)
    BY <1>5, <1>7, <2>15, <2>16, <2>17, <2>18, ReceiveDoneEffect
  <2>2. ip[p].blocked \in Seq(Senders) /\ Once(ip[p].blocked) /\ c \in Int
    BY <2>17, PortTypes DEF LinkInv, SenderLinks
  <2>3. /\ T \subseteq Members(ip[p].blocked) /\ T \subseteq Senders
        /\ b \in Seq(Senders) /\ Once(b)
        /\ Members(b) = Members(ip[p].blocked) \ T
    <3>1. CASE T = {}
      BY <2>2, <2>16, <3>1
    <3>2. CASE T # {}
      <4>1. ip[p].blocked # <<>> /\ T = {Head(ip[p].blocked)}
        BY <2>15, <3>2 DEF TurnFor
      <4>2. b = Tail(ip[p].blocked)
        BY <2>16, <3>2
      <4>3. /\ Tail(ip[p].blocked) \in Seq(Senders) /\ Head(ip[p].blocked) \in Senders
            /\ Head(ip[p].blocked) \in Members(ip[p].blocked)
        BY <2>2, <4>1, TailMembers
      <4>4. /\ Members(ip[p].blocked) = Members(Tail(ip[p].blocked)) \cup {Head(ip[p].blocked)}
            /\ Once(Tail(ip[p].blocked))
            /\ Head(ip[p].blocked) \notin Members(Tail(ip[p].blocked))
        BY <2>2, <4>1, TailMembers
      <4>5. QED
        BY <4>1, <4>2, <4>3, <4>4
    <3>3. QED
      BY <3>1, <3>2
  <2>4. /\ ip' \in [Ports -> PortShape] /\ ip'[p].blocked = b
        /\ \A x \in Ports : ip'[x].right = ip[x].right /\ ip'[x].pset = ip[x].pset
        /\ \A x \in Ports \ {p} : ip'[x] = ip[x]
    <3>1. c \in Int /\ b \in Seq(Senders)
      BY <2>2, <2>3
    <3>2. ip' = Recount(p, c, b)
      BY <2>1 DEF Recount
    <3>3. ip' \in [Ports -> PortShape]
      BY <3>1, <3>2, CountsOnly
    <3>4. ip'[p].blocked = b
      BY <3>1, <3>2, CountsOnly
    <3>5. \A x \in Ports : ip'[x].right = ip[x].right /\ ip'[x].pset = ip[x].pset
      BY <3>1, <3>2, CountsOnly
    <3>6. \A x \in Ports \ {p} : ip'[x] = ip[x]
      BY <3>1, <3>2, CountsOnly
    <3>7. QED
      BY <3>3, <3>4, <3>5, <3>6
  <2>5. /\ gone \in [Threads -> ThreadRecord]
        /\ \A u \in Threads :
             IF u \in T THEN Gone(th[u], gone[u], "success") /\ gone[u].kmsg = th[u].kmsg
                        ELSE gone[u] = th[u]
    BY <2>18, ThreadTypes, ThreadGo DEF States
  <2>6. /\ th' \in [Threads -> ThreadRecord] /\ th'[r] = Idle
        /\ \A u \in Threads \ {r} : th'[u] = gone[u]
    BY <2>1, <2>5, ReturnShape
  <2>7. \A u \in Senders :
          IF u \in T THEN Gone(th[u], th'[u], "success") /\ th'[u].kmsg = th[u].kmsg
                     ELSE th'[u] = th[u]
    BY <1>2, <2>5, <2>6, ThreadTypes
  <2>8. SendersOK' /\ SenderLinks'
    <3>1. Wakes(p, T, {})
      BY <2>3, <2>4, <2>7 DEF Wakes
    <3>2. QED
      BY <3>1, SendersWoken
  <2>9. ReceiversOK' /\ ReceiverLinks'
    <3>1. \A u \in Receivers \ {r} : th'[u] = th[u]
      BY <2>3, <2>5, <2>6, ThreadTypes
    <3>2. QED
      BY <1>1, <1>2, <2>6, <3>1, IdleShape, ReceiverReturns
  <2>10. MessagesPlaced' /\ NoReceiverBesideMessage'
    BY <1>1, <2>4, QueuesKept
  <2>11. PortsOK'
    BY <1>1, <1>5, <2>4 DEF LinkInv, PortsOK, ip_active
  <2>12. Circulars'
    <3>1. \A u \in Senders : th'[u].kmsg = th[u].kmsg
      BY <2>7
    <3>2. QED
      BY <2>4, <3>1, CircularsStep
  <2>13. Shapes'
    BY <1>1, <1>3, <2>4, <2>6 DEF LinkInv, Shapes, Counters
  <2>14. QED
    BY <2>8, <2>9, <2>10, <2>11, <2>12, <2>13 DEF LinkInv
<1>6. QED
  BY <1>4, <1>5

LEMMA SplitMembers ==
    ASSUME NEW S, NEW s \in Seq(S), NEW k \in 0 .. Len(s), Once(s)
    PROVE  /\ SubSeq(s, k + 1, Len(s)) \in Seq(S) /\ Once(SubSeq(s, k + 1, Len(s)))
           /\ Members(SubSeq(s, 1, k)) \subseteq Members(s)
           /\ Members(SubSeq(s, k + 1, Len(s))) = Members(s) \ Members(SubSeq(s, 1, k))
           /\ Cardinality(Members(SubSeq(s, 1, k))) = k
           /\ IsFiniteSet(Members(SubSeq(s, 1, k)))
           /\ k = Len(s) => SubSeq(s, k + 1, Len(s)) = <<>>
<1> DEFINE r == SubSeq(s, k + 1, Len(s))
           G == {s[i] : i \in 1 .. k}
<1>1. Len(s) \in Nat /\ DOMAIN s = 1 .. Len(s)
  BY LenProperties
<1>2. Members(SubSeq(s, 1, k)) = G
  BY PrefixMembers
<1>3. IsFiniteSet(G) /\ Cardinality(G) = k
  BY PrefixMembers
<1>4. r \in Seq(S) /\ Len(r) = Len(s) - k
  BY SuffixMembers
<1>5. Members(r) = {s[i] : i \in k + 1 .. Len(s)}
  BY SuffixMembers
<1>6. Once(r) /\ \A i \in 1 .. k : s[i] \notin Members(r)
  BY SuffixMembers
<1> HIDE DEF r
<1>7. \A i \in 1 .. Len(s) : i \in 1 .. k \/ i \in k + 1 .. Len(s)
  BY <1>1
<1>8. /\ \A i \in 1 .. k : i \in 1 .. Len(s)
      /\ \A i \in k + 1 .. Len(s) : i \in 1 .. Len(s)
  BY <1>1
<1>9. G \subseteq Members(s) /\ Members(r) = Members(s) \ G
  BY <1>1, <1>5, <1>6, <1>7, <1>8 DEF Members
<1>10. k = Len(s) => r = <<>>
  <2> SUFFICES ASSUME k = Len(s) PROVE r = <<>>
    OBVIOUS
  <2>1. Len(r) = 0
    BY <1>1, <1>4
  <2>2. QED
    BY <1>4, <2>1, EmptySeq
<1> HIDE DEF G
<1>11. QED
  BY <1>2, <1>3, <1>4, <1>6, <1>9, <1>10 DEF r

Requeue(p, qlimit, blocked) == [ip EXCEPT ![p].qlimit = qlimit, ![p].blocked = blocked]

LEMMA RequeueShape ==
    ASSUME LinkInv, NEW p \in Ports, NEW qlimit \in Nat, NEW blocked \in Seq(Senders),
           NEW new, new = Requeue(p, qlimit, blocked)
    PROVE  /\ new \in [Ports -> PortShape]
           /\ new[p].blocked = blocked /\ new[p].qlimit = qlimit
           /\ \A x \in Ports : /\ new[x].right = ip[x].right /\ new[x].pset = ip[x].pset
                               /\ new[x].msgcount = ip[x].msgcount /\ new[x].seqno = ip[x].seqno
           /\ \A x \in Ports \ {p} : new[x] = ip[x]
<1> DEFINE port == [ip[p] EXCEPT !.qlimit = qlimit, !.blocked = blocked]
<1>1. ip \in [Ports -> PortShape] /\ ip[p] \in PortShape
  BY DEF LinkInv, Shapes
<1>2. new = [ip EXCEPT ![p] = port]
  BY <1>1 DEF PortShape, Requeue
<1>3. /\ port \in PortShape /\ port.blocked = blocked /\ port.qlimit = qlimit
      /\ port.right = ip[p].right /\ port.pset = ip[p].pset
      /\ port.msgcount = ip[p].msgcount /\ port.seqno = ip[p].seqno
  BY <1>1 DEF PortShape
<1> HIDE DEF port
<1>4. QED
  BY <1>1, <1>2, <1>3

\* k senders have a turn: as many as the limit grew by, or all there are.
LEMMA SetQlimitEffect ==
    ASSUME LinkInv, NEW p \in Ports, NEW qlimit \in QLimits, SetQlimit(p, qlimit)
    PROVE  \E k \in 0 .. Len(ip[p].blocked) :
             LET s == ip[p].blocked IN
             /\ ip' = Requeue(p, qlimit, SubSeq(s, k + 1, Len(s)))
             /\ th' = thread_go(th, Members(SubSeq(s, 1, k)), "success")
             /\ k < Len(s) => ip[p].qlimit + k >= qlimit
<1> DEFINE s == ip[p].blocked
           more == IF qlimit > ip[p].qlimit THEN qlimit - ip[p].qlimit ELSE 0
           k == IF more < Len(s) THEN more ELSE Len(s)
<1>1. s \in Seq(Senders) /\ ip[p].qlimit \in Nat /\ qlimit \in Nat
  BY PortTypes, MqueueAssumption
<1>2. /\ ip' = [ip EXCEPT ![p].qlimit = qlimit, ![p].blocked = SubSeq(@, k + 1, Len(@))]
      /\ th' = thread_go(th, Members(SubSeq(s, 1, k)), "success")
  BY DEF SetQlimit
<1>3. Len(s) \in Nat /\ more \in Nat
  BY <1>1, LenProperties
<1>4. ip[p].qlimit + more >= qlimit
  BY <1>1
<1> HIDE DEF more
<1>5. k \in 0 .. Len(s) /\ (k < Len(s) => k = more)
  BY <1>3
<1>6. k < Len(s) => ip[p].qlimit + k >= qlimit
  BY <1>4, <1>5
<1> HIDE DEF k
<1>7. ip' = Requeue(p, qlimit, SubSeq(s, k + 1, Len(s)))
  <2>1. ip \in [Ports -> PortShape]
    BY DEF LinkInv, Shapes
  <2>2. [ip EXCEPT ![p].qlimit = qlimit, ![p].blocked = SubSeq(@, k + 1, Len(@))] =
        [ip EXCEPT ![p].qlimit = qlimit, ![p].blocked = SubSeq(s, k + 1, Len(s))]
    BY <2>1 DEF PortShape
  <2>3. QED
    BY <1>2, <2>2 DEF Requeue
<1>8. QED
  BY <1>2, <1>5, <1>6, <1>7

LEMMA SetQlimitKeeps ==
    ASSUME LinkInv, NEW p \in Ports, NEW qlimit \in QLimits, SetQlimit(p, qlimit)
    PROVE  LinkInv'
<1>1. PICK s : s = ip[p].blocked
  OBVIOUS
<1>2. PICK k \in 0 .. Len(s) :
        /\ ip' = Requeue(p, qlimit, SubSeq(s, k + 1, Len(s)))
        /\ th' = thread_go(th, Members(SubSeq(s, 1, k)), "success")
  BY <1>1, SetQlimitEffect
<1>3. /\ imq' = imq /\ Counters /\ ip[p].right = "held"
  BY OperationCounts DEF SetQlimit
<1>4. s \in Seq(Senders) /\ Once(s)
  BY <1>1, PortTypes DEF LinkInv, SenderLinks
<1>5. PICK G, b : G = Members(SubSeq(s, 1, k)) /\ b = SubSeq(s, k + 1, Len(s))
  OBVIOUS
<1>6. b \in Seq(Senders) /\ Once(b)
  BY <1>4, <1>5, SplitMembers
<1>7. G \subseteq Members(s) /\ Members(b) = Members(s) \ G
  BY <1>4, <1>5, SplitMembers
<1>8. ip' = Requeue(p, qlimit, b) /\ qlimit \in Nat
  BY <1>2, <1>5, MqueueAssumption
<1>9. ip' \in [Ports -> PortShape] /\ ip'[p].blocked = b
  BY <1>6, <1>8, RequeueShape
<1>10. \A x \in Ports : ip'[x].right = ip[x].right /\ ip'[x].pset = ip[x].pset
  BY <1>6, <1>8, RequeueShape
<1>11. \A x \in Ports \ {p} : ip'[x] = ip[x]
  BY <1>6, <1>8, RequeueShape
<1>12. /\ th' \in [Threads -> ThreadRecord]
       /\ \A u \in Threads :
            IF u \in G THEN Gone(th[u], th'[u], "success") /\ th'[u].kmsg = th[u].kmsg
                       ELSE th'[u] = th[u]
  BY <1>2, <1>5, ThreadTypes, ThreadGo DEF States
<1>13. G \subseteq Senders
  BY <1>4, <1>7, NoMembers
<1>14. SendersOK' /\ SenderLinks'
  <2>1. Wakes(p, G, {})
    BY <1>1, <1>6, <1>7, <1>9, <1>11, <1>12, ThreadTypes DEF Wakes
  <2>2. QED
    BY <2>1, SendersWoken
<1>15. ReceiversOK' /\ ReceiverLinks'
  <2>1. \A r \in Receivers : th'[r] = th[r]
    BY <1>12, <1>13, ThreadTypes
  <2>2. QED
    BY <1>3, <2>1, ReceiversKept
<1>16. MessagesPlaced' /\ NoReceiverBesideMessage'
  BY <1>3, <1>10, QueuesKept
<1>17. PortsOK'
  BY <1>3, <1>10, <1>11 DEF LinkInv, PortsOK
<1>18. Circulars'
  <2>1. \A u \in Senders : th'[u].kmsg = th[u].kmsg
    BY <1>12, ThreadTypes
  <2>2. QED
    BY <1>10, <2>1, CircularsStep
<1>19. Shapes'
  BY <1>3, <1>9, <1>12 DEF LinkInv, Shapes, Counters
<1>20. QED
  BY <1>14, <1>15, <1>16, <1>17, <1>18, <1>19 DEF LinkInv
-----------------------------------------------------------------------------
(* Moves of messages between the queues of a port and of the sets.         *)

LEMMA SentMembers ==
    ASSUME NEW ms \in Seq(Messages), NEW p
    PROVE  /\ SentTo(p, ms) \in Seq(Messages) /\ SentElsewhere(p, ms) \in Seq(Messages)
           /\ Members(SentTo(p, ms)) = {m \in Members(ms) : m.port = p}
           /\ Members(SentElsewhere(p, ms)) = {m \in Members(ms) : m.port # p}
<1> DEFINE I == {i \in DOMAIN ms : ms[i].port # p}
           J == {i \in DOMAIN ms : ms[i].port = p}
<1>1. I \in SUBSET DOMAIN ms /\ J \in SUBSET DOMAIN ms
  OBVIOUS
<1>2. {ms[i] : i \in DOMAIN ms \ I} = {m \in Members(ms) : m.port = p}
  BY DEF Members
<1>3. {ms[i] : i \in DOMAIN ms \ J} = {m \in Members(ms) : m.port # p}
  BY DEF Members
<1> HIDE DEF I, J
<1>4. /\ Without(ms, I) \in Seq(Messages)
      /\ Members(Without(ms, I)) = {ms[i] : i \in DOMAIN ms \ I}
  BY <1>1, WithoutMembers
<1>5. /\ Without(ms, J) \in Seq(Messages)
      /\ Members(Without(ms, J)) = {ms[i] : i \in DOMAIN ms \ J}
  BY <1>1, WithoutMembers
<1>6. SentTo(p, ms) = Without(ms, I) /\ SentElsewhere(p, ms) = Without(ms, J)
  BY DEF SentTo, SentElsewhere, I, J
<1>7. QED
  BY <1>2, <1>3, <1>4, <1>5, <1>6

\* The messages that move.
Moved(p) == SentTo(p, imq[MqueueOf(p)].messages)

LEMMA MoveEffect ==
    ASSUME LinkInv, NEW p \in Ports, NEW dest \in Queues, MqueueOf(p) # dest
    PROVE  LET q == MqueueOf(p)
               d == Deliver(dest, Moved(p))
               new == ipc_mqueue_move(p, dest)
           IN /\ Moved(p) \in Seq(Messages) /\ q \in Queues
              /\ new \in [Queues -> QueueRecord]
              /\ new[q].messages = SentElsewhere(p, imq[q].messages)
              /\ new[q].threads = IF q = p THEN <<>> ELSE imq[q].threads
              /\ new[dest].messages = d.messages /\ new[dest].threads = d.threads
              /\ \A x \in Queues \ {q, dest} : new[x] = imq[x]
<1> DEFINE q == MqueueOf(p)
           d == Deliver(dest, Moved(p))
           new == ipc_mqueue_move(p, dest)
           a == [messages |-> SentElsewhere(p, imq[q].messages),
                 threads |-> IF q = p THEN <<>> ELSE imq[q].threads]
           b == [messages |-> d.messages, threads |-> d.threads]
<1>1. q \in Queues /\ imq[q].messages \in Seq(Messages) /\ imq[q].threads \in Seq(Receivers)
      /\ imq \in [Queues -> QueueRecord]
  BY PortTypes, QueueTypes DEF LinkInv, Shapes
<1>2. Moved(p) \in Seq(Messages) /\ SentElsewhere(p, imq[q].messages) \in Seq(Messages)
  BY <1>1, SentMembers DEF Moved
<1>3. d.messages \in Seq(Messages) /\ d.threads \in Seq(Receivers)
  BY <1>2, DeliverMessages, DeliverReceivers
<1>4. new = [imq EXCEPT ![q] = a, ![dest] = b]
  BY <1>1 DEF ipc_mqueue_move, Moved
<1>5. /\ a \in QueueRecord /\ a.messages = SentElsewhere(p, imq[q].messages)
      /\ a.threads = IF q = p THEN <<>> ELSE imq[q].threads
  BY <1>1, <1>2 DEF QueueRecord
<1>6. b \in QueueRecord /\ b.messages = d.messages /\ b.threads = d.threads
  BY <1>3 DEF QueueRecord
<1> HIDE DEF a, b
<1>7. /\ new \in [Queues -> QueueRecord] /\ new[q] = a /\ new[dest] = b
      /\ \A x \in Queues \ {q, dest} : new[x] = imq[x]
  BY <1>1, <1>4, <1>5, <1>6
<1>8. QED
  BY <1>1, <1>2, <1>5, <1>6, <1>7

\* After the move the messages are where the port looks for them.
LEMMA MovePlaces ==
    ASSUME LinkInv, NEW p \in Ports, NEW pset \in Psets \cup {None},
           NEW dest, dest = IF pset = None THEN p ELSE pset, MqueueOf(p) # dest,
           ip_active(p)
    PROVE  LET new == ipc_mqueue_move(p, dest)
           IN /\ \A x \in Queues : \A m \in Members(new[x].messages) :
                   /\ m.port \in Ports /\ ip_active(m.port)
                   /\ x = IF m.port = p THEN dest ELSE MqueueOf(m.port)
              /\ \A x \in Queues : new[x].messages # <<>> => new[x].threads = <<>>
<1> DEFINE q == MqueueOf(p)
           ms == Moved(p)
           d == Deliver(dest, ms)
           new == ipc_mqueue_move(p, dest)
<1>1. dest \in Queues /\ q \in Queues /\ imq[q].messages \in Seq(Messages)
  BY PortTypes, QueueTypes DEF Queues
<1>2. /\ ms \in Seq(Messages)
      /\ new[q].messages = SentElsewhere(p, imq[q].messages)
      /\ new[q].threads = IF q = p THEN <<>> ELSE imq[q].threads
      /\ new[dest].messages = d.messages /\ new[dest].threads = d.threads
      /\ \A x \in Queues \ {q, dest} : new[x] = imq[x]
  BY <1>1, MoveEffect
<1>3. /\ Members(ms) = {m \in Members(imq[q].messages) : m.port = p}
      /\ Members(SentElsewhere(p, imq[q].messages)) = {m \in Members(imq[q].messages) : m.port # p}
  BY <1>1, SentMembers DEF Moved
<1>4. Members(d.messages) \subseteq Members(imq[dest].messages) \cup Members(ms)
  BY <1>1, <1>2, DeliverMessages
<1>5. d.messages # <<>> => d.threads = <<>>
  BY <1>1, <1>2, DeliverMessages
<1> HIDE DEF ms, d, new
<1>6. \A x \in Queues : \A m \in Members(imq[x].messages) :
        m.port \in Ports /\ ip_active(m.port) /\ x = MqueueOf(m.port)
  BY QueueTypes, NoMembers, MessageShape DEF LinkInv, MessagesPlaced
<1>7. ASSUME NEW x \in Queues, NEW m \in Members(new[x].messages)
      PROVE  /\ m.port \in Ports /\ ip_active(m.port)
             /\ x = IF m.port = p THEN dest ELSE MqueueOf(m.port)
  <2>1. CASE x = q
    <3>1. m \in Members(imq[q].messages) /\ m.port # p
      BY <1>2, <1>3, <2>1
    <3>2. QED
      BY <1>1, <1>6, <2>1, <3>1
  <2>2. CASE x = dest
    <3>1. m \in Members(imq[dest].messages) \/ m \in Members(ms)
      BY <1>2, <1>4, <2>2
    <3>2. CASE m \in Members(imq[dest].messages)
      BY <1>1, <1>6, <2>2, <3>2
    <3>3. CASE m \in Members(ms)
      BY <1>1, <1>3, <1>6, <2>2, <3>3
    <3>4. QED
      BY <3>1, <3>2, <3>3
  <2>3. CASE x # q /\ x # dest
    <3>1. m \in Members(imq[x].messages)
      BY <1>2, <2>3
    <3>2. m.port \in Ports /\ ip_active(m.port) /\ x = MqueueOf(m.port)
      BY <1>6, <3>1
    <3>3. m.port # p
      BY <2>3, <3>2
    <3>4. QED
      BY <3>2, <3>3
  <2>4. QED
    BY <2>1, <2>2, <2>3
<1>8. ASSUME NEW x \in Queues, new[x].messages # <<>> PROVE new[x].threads = <<>>
  <2>1. CASE x = q
    <3>1. SentElsewhere(p, imq[q].messages) \in Seq(Messages)
      BY <1>1, SentMembers
    <3>2. Members(SentElsewhere(p, imq[q].messages)) # {}
      BY <1>2, <1>8, <2>1, <3>1, NoMembers
    <3>3. Members(imq[q].messages) # {}
      BY <1>3, <3>2
    <3>4. imq[q].messages # <<>>
      BY <3>3, NoMembers
    <3>5. imq[q].threads = <<>>
      BY <1>1, <3>4 DEF LinkInv, NoReceiverBesideMessage
    <3>6. QED
      BY <1>2, <2>1, <3>5
  <2>2. CASE x = dest
    BY <1>2, <1>5, <1>8, <2>2
  <2>3. CASE x # q /\ x # dest
    BY <1>2, <1>8, <2>3 DEF LinkInv, NoReceiverBesideMessage
  <2>4. QED
    BY <2>1, <2>2, <2>3
<1>9. QED
  BY <1>7, <1>8 DEF new

\* The receivers that wait at q are told that it is gone.
LEMMA ReceiversLeave ==
    ASSUME LinkInv, NEW q \in Queues,
           NEW state \in {"port_died", "port_changed"},
           \A r \in Receivers :
             IF r \in Members(imq[q].threads)
             THEN Gone(th[r], th'[r], state) /\ th'[r].kmsg = th[r].kmsg
             ELSE th'[r] = th[r],
           imq'[q].threads = <<>>,
           \A x \in Queues \ {q} : imq'[x].threads = imq[x].threads
    PROVE  ReceiversOK' /\ ReceiverLinks'
<1> DEFINE C == Members(imq[q].threads)
<1>1. \A x \in Queues : Once(imq[x].threads) /\ Members(imq[x].threads) = WaitingAt(x)
  BY DEF LinkInv, ReceiverLinks
<1>2. ASSUME NEW r \in Receivers
      PROVE  IF r \in C THEN ReceiverOK(th'[r]) /\ th'[r].ith_state # "in_progress"
                        ELSE th'[r] = th[r]
  <2>1. CASE r \in C
    <3>1. Gone(th[r], th'[r], state) /\ th'[r].kmsg = th[r].kmsg
      BY <2>1
    <3>2. th'[r].ith_state = state
      BY <3>1 DEF Gone
    <3>3. ReceiverOK(th[r]) /\ th[r].ith_state = "in_progress"
      BY <1>1, <2>1 DEF WaitingAt, LinkInv, ReceiversOK
    <3>4. ReceiverOK(th'[r])
      BY <3>1, <3>2, <3>3, ReceiverTold
    <3>5. QED
      BY <2>1, <3>2, <3>4
  <2>2. CASE r \notin C
    BY <2>2
  <2>3. QED
    BY <2>1, <2>2
<1>3. ASSUME NEW x \in Queues
      PROVE  /\ Once(imq'[x].threads)
             /\ Members(imq'[x].threads) =
                  (Members(imq[x].threads) \ C) \cup {r \in Receivers \cap C :
                     th'[r].ith_state = "in_progress" /\ th'[r].mq = x}
  <2>1. {r \in Receivers \cap C : th'[r].ith_state = "in_progress" /\ th'[r].mq = x} = {}
    BY <1>2
  <2>2. CASE x = q
    BY <2>1, <2>2, NoMembers
  <2>3. CASE x # q
    <3>1. Members(imq[x].threads) \cap C = {}
      BY <1>1, <2>3 DEF WaitingAt
    <3>2. QED
      BY <1>1, <2>1, <2>3, <3>1
  <2>4. QED
    BY <2>2, <2>3
<1> HIDE DEF C
<1>4. \A r \in Receivers : IF r \in C THEN ReceiverOK(th'[r]) ELSE th'[r] = th[r]
  BY <1>2
<1>5. QED
  BY <1>3, <1>4, ReceiversStep

LEMMA PsetDestroyKeeps ==
    ASSUME LinkInv, NEW s \in Psets, PsetDestroy(s)
    PROVE  LinkInv'
<1>1. /\ ips_active' \in SUBSET Psets /\ sent' = sent /\ ip' = ip /\ ops' \in 0 .. MaxOps
      /\ imq' = [imq EXCEPT ![s].threads = <<>>]
      /\ th' = thread_go(th, Members(imq[s].threads), "port_died")
  BY MqueueAssumption DEF PsetDestroy, ipc_mqueue_changed, LinkInv, Shapes, Operation
<1>2. s \in Queues /\ s \notin Ports
  BY MqueueAssumption DEF Queues
<1>3. /\ imq' \in [Queues -> QueueRecord] /\ imq'[s].threads = <<>>
      /\ \A x \in Queues : imq'[x].messages = imq[x].messages
      /\ \A x \in Queues \ {s} : imq'[x] = imq[x]
  <2>1. imq \in [Queues -> QueueRecord] /\ <<>> \in Seq(Receivers)
    BY DEF LinkInv, Shapes
  <2>2. QED
    BY <1>1, <1>2, <2>1 DEF QueueRecord
<1>4. /\ th' \in [Threads -> ThreadRecord]
      /\ \A u \in Threads :
           IF u \in Members(imq[s].threads)
           THEN Gone(th[u], th'[u], "port_died") /\ th'[u].kmsg = th[u].kmsg
           ELSE th'[u] = th[u]
  BY <1>1, ThreadTypes, ThreadGo DEF States
<1>5. Members(imq[s].threads) \subseteq Receivers
  BY <1>2, QueueTypes, NoMembers
<1>6. \A t \in Senders : th'[t] = th[t]
  BY <1>4, <1>5, ThreadTypes
<1>7. SendersOK' /\ SenderLinks'
  BY <1>1, <1>6, SendersKept
<1>8. ReceiversOK' /\ ReceiverLinks'
  BY <1>2, <1>3, <1>4, ThreadTypes, ReceiversLeave
<1>9. PortsOK'
  BY <1>1, <1>2, <1>3 DEF LinkInv, PortsOK, Queues
<1>10. Circulars'
  BY <1>1, <1>6, CircularsStep
<1>11. MessagesPlaced'
  BY <1>1, <1>3 DEF LinkInv, MessagesPlaced, ip_active, MqueueOf
<1>12. NoReceiverBesideMessage'
  BY <1>3 DEF LinkInv, NoReceiverBesideMessage
<1>13. Shapes'
  BY <1>1, <1>3, <1>4 DEF LinkInv, Shapes
<1>14. QED
  BY <1>7, <1>8, <1>9, <1>10, <1>11, <1>12, <1>13 DEF LinkInv

LEMMA PsetRemoveKeeps ==
    ASSUME LinkInv, NEW p \in Ports, PsetRemove(p)
    PROVE  LinkInv'
<1>1. /\ ip[p].right = "held" /\ ip[p].pset # None /\ Counters
      /\ ip' = [ip EXCEPT ![p].pset = None] /\ imq' = ipc_mqueue_move(p, p) /\ th' = th
  BY OperationCounts DEF PsetRemove, ipc_pset_remove
<1>2. /\ imq[p].threads = <<>> /\ MqueueOf(p) # p /\ p \in Queues /\ MqueueOf(p) \in Queues
      /\ ip_active(p)
  BY <1>1, PortTypes, MqueueAssumption DEF LinkInv, PortsOK, MqueueOf, ip_active
<1>3. /\ ip' \in [Ports -> PortShape]
      /\ \A x \in Ports : /\ ip'[x].pset = IF x = p THEN None ELSE ip[x].pset
                          /\ ip'[x].right = ip[x].right /\ ip'[x].blocked = ip[x].blocked
  BY <1>1 DEF LinkInv, Shapes, PortShape
<1>4. /\ Moved(p) \in Seq(Messages) /\ imq' \in [Queues -> QueueRecord]
      /\ imq'[MqueueOf(p)].threads = IF MqueueOf(p) = p THEN <<>> ELSE imq[MqueueOf(p)].threads
      /\ imq'[p].threads = Deliver(p, Moved(p)).threads
      /\ \A x \in Queues \ {MqueueOf(p), p} : imq'[x] = imq[x]
  BY <1>1, <1>2, MoveEffect
<1>5. Deliver(p, Moved(p)).threads = <<>>
  BY <1>2, <1>4, DeliverMessages
<1>6. \A x \in Queues : imq'[x].threads = imq[x].threads
  BY <1>2, <1>4, <1>5
<1>7. SendersOK' /\ SenderLinks'
  BY <1>1, <1>3, SendersKept
<1>8. ReceiversOK' /\ ReceiverLinks'
  BY <1>1, <1>6, ReceiversKept
<1>9. PortsOK'
  BY <1>1, <1>3, <1>6 DEF LinkInv, PortsOK, Queues
<1>10. Circulars'
  BY <1>1, <1>3, CircularsStep
<1>11. /\ \A x \in Queues : \A m \in Members(imq'[x].messages) :
            /\ m.port \in Ports /\ ip_active(m.port)
            /\ x = IF m.port = p THEN p ELSE MqueueOf(m.port)
       /\ \A x \in Queues : imq'[x].messages # <<>> => imq'[x].threads = <<>>
  <2>1. PICK pset : pset = None
    OBVIOUS
  <2>2. pset \in Psets \cup {None} /\ p = IF pset = None THEN p ELSE pset
    BY <2>1
  <2>3. QED
    BY <1>1, <1>2, <2>2, MovePlaces
<1>12. MessagesPlaced'
  BY <1>3, <1>11 DEF MessagesPlaced, ip_active, MqueueOf
<1>13. NoReceiverBesideMessage'
  BY <1>11 DEF NoReceiverBesideMessage
<1>14. Shapes'
  BY <1>1, <1>3, <1>4 DEF LinkInv, Shapes, Counters
<1>15. QED
  BY <1>7, <1>8, <1>9, <1>10, <1>12, <1>13, <1>14 DEF LinkInv

Joined(p, nset, seqno) == [ip EXCEPT ![p].pset = nset, ![p].seqno = seqno]

LEMMA JoinedShape ==
    ASSUME LinkInv, NEW p \in Ports, NEW nset \in Psets \cup {None}, NEW seqno \in Nat,
           NEW new, new = Joined(p, nset, seqno)
    PROVE  /\ new \in [Ports -> PortShape]
           /\ new[p].pset = nset /\ new[p].seqno = seqno
           /\ \A x \in Ports : /\ new[x].right = ip[x].right /\ new[x].blocked = ip[x].blocked
                               /\ new[x].msgcount = ip[x].msgcount /\ new[x].qlimit = ip[x].qlimit
           /\ \A x \in Ports \ {p} : new[x] = ip[x]
<1> DEFINE port == [ip[p] EXCEPT !.pset = nset, !.seqno = seqno]
<1>1. ip \in [Ports -> PortShape] /\ ip[p] \in PortShape
  BY DEF LinkInv, Shapes
<1>2. new = [ip EXCEPT ![p] = port]
  BY <1>1 DEF PortShape, Joined
<1>3. /\ port \in PortShape /\ port.pset = nset /\ port.seqno = seqno
      /\ port.right = ip[p].right /\ port.blocked = ip[p].blocked
      /\ port.msgcount = ip[p].msgcount /\ port.qlimit = ip[p].qlimit
  BY <1>1 DEF PortShape
<1> HIDE DEF port
<1>4. QED
  BY <1>1, <1>2, <1>3

LEMMA HandedCount ==
    ASSUME LinkInv, NEW q \in Queues, NEW ms \in Seq(Messages)
    PROVE  LET d == Deliver(q, ms)
           IN /\ IsFiniteSet(d.handed) /\ Cardinality(d.handed) \in Nat
              /\ IsFiniteSet(Taken(d)) /\ Cardinality(Taken(d)) = Cardinality(d.handed)
<1>1. imq[q] \in QueueRecord /\ Once(imq[q].threads)
  BY QueueTypes DEF LinkInv, ReceiverLinks
<1>2. PICK h : h = Len(Chosen(q, ms))
  OBVIOUS
<1>3. h \in 0 .. Len(ms)
  BY <1>1, <1>2, DeliverProperties
<1>4. LET d == Deliver(q, ms)
      IN /\ IsFiniteSet(d.handed) /\ Cardinality(d.handed) = h
         /\ IsFiniteSet(Taken(d)) /\ Cardinality(Taken(d)) = h
  BY <1>1, <1>2, DeliverProperties
<1>5. h \in Nat
  BY <1>3, LenProperties
<1>6. QED
  BY <1>4, <1>5

LEMMA PsetAddKeeps ==
    ASSUME LinkInv, NEW p \in Ports, NEW nset \in Psets, PsetAdd(p, nset)
    PROVE  LinkInv'
<1>1. PICK d : d = Deliver(nset, Moved(p))
  OBVIOUS
<1>2. PICK met : met = Receivers_go(d)
  OBVIOUS
<1>3. PICK W : W = Members(imq[p].threads)
  OBVIOUS
<1>4. PICK q : q = MqueueOf(p)
  OBVIOUS
<1>5. /\ ip[p].right = "held" /\ ip[p].pset # nset /\ Counters
      /\ ip' = [ip EXCEPT ![p].pset = nset, ![p].seqno = @ + Cardinality(d.handed)]
      /\ imq' = ipc_mqueue_move(p, nset)
      /\ th' = thread_go(met, W, "port_changed")
  BY <1>1, <1>2, <1>3, OperationCounts DEF PsetAdd, ipc_pset_add, Moved, ipc_mqueue_changed
<1>6. /\ q # nset /\ p \in Queues /\ nset \in Queues /\ p # nset /\ ip_active(p) /\ q \in Queues
      /\ nset # None
  BY <1>4, <1>5, PortTypes, MqueueAssumption DEF MqueueOf, Queues, ip_active
<1>7. /\ Moved(p) \in Seq(Messages) /\ imq' \in [Queues -> QueueRecord]
      /\ imq'[q].threads = IF q = p THEN <<>> ELSE imq[q].threads
      /\ imq'[nset].threads = d.threads
      /\ \A x \in Queues \ {q, nset} : imq'[x] = imq[x]
  BY <1>1, <1>4, <1>5, <1>6, MoveEffect
<1>8. PICK seqno \in Nat : seqno = ip[p].seqno + Cardinality(d.handed)
  <2>1. Cardinality(d.handed) \in Nat
    BY <1>1, <1>6, <1>7, HandedCount
  <2>2. QED
    BY <2>1, PortTypes
<1>9. ip' = Joined(p, nset, seqno)
  <2>1. ip \in [Ports -> PortShape]
    BY DEF LinkInv, Shapes
  <2>2. QED
    BY <1>5, <1>8, <2>1 DEF PortShape, Joined
<1>10. ip' \in [Ports -> PortShape] /\ ip'[p].pset = nset
  BY <1>9, JoinedShape
<1>11. \A x \in Ports : ip'[x].right = ip[x].right /\ ip'[x].blocked = ip[x].blocked
  BY <1>9, JoinedShape
<1>12. \A x \in Ports \ {p} : ip'[x] = ip[x]
  BY <1>9, JoinedShape
<1>13. /\ met \in [Threads -> ThreadRecord] /\ MetBy(d) \subseteq WaitingAt(nset)
       /\ \A r \in MetBy(d) : ReceiverOK(met[r]) /\ met[r].ith_state # "in_progress"
       /\ \A t \in Threads \ MetBy(d) : met[t] = th[t]
  BY <1>1, <1>2, <1>6, <1>7, DeliverReceivers
<1>14. Once(d.threads) /\ Members(d.threads) = Members(imq[nset].threads) \ MetBy(d)
  BY <1>1, <1>6, <1>7, DeliverReceivers
<1>15. /\ th' \in [Threads -> ThreadRecord]
       /\ \A u \in Threads :
            IF u \in W THEN Gone(met[u], th'[u], "port_changed") /\ th'[u].kmsg = met[u].kmsg
                       ELSE th'[u] = met[u]
  BY <1>5, <1>13, ThreadGo DEF States
<1>16. \A x \in Queues : Once(imq[x].threads) /\ Members(imq[x].threads) = WaitingAt(x)
  BY DEF LinkInv, ReceiverLinks
<1>17. W = WaitingAt(p) /\ W \cap MetBy(d) = {} /\ W \subseteq Receivers
  BY <1>3, <1>6, <1>13, <1>16 DEF WaitingAt
<1>18. imq'[p].threads = <<>> /\ \A x \in Queues \ {p, nset} : imq'[x].threads = imq[x].threads
  <2>1. CASE q = p
    BY <1>6, <1>7, <2>1
  <2>2. CASE q # p
    <3>1. imq[p].threads = <<>>
      BY <1>4, <2>2 DEF MqueueOf, LinkInv, PortsOK
    <3>2. QED
      BY <1>6, <1>7, <2>2, <3>1
  <2>3. QED
    BY <2>1, <2>2
<1>19. ReceiversOK' /\ ReceiverLinks'
  <2>1. PICK C : C = W \cup MetBy(d)
    OBVIOUS
  <2>2. ASSUME NEW r \in Receivers
        PROVE  IF r \in C THEN ReceiverOK(th'[r]) /\ th'[r].ith_state # "in_progress"
                          ELSE th'[r] = th[r]
    <3>1. r \in Threads
      BY ThreadTypes
    <3>2. CASE r \in W
      <4>1. Gone(th[r], th'[r], "port_changed") /\ th'[r].kmsg = th[r].kmsg
        BY <1>13, <1>15, <1>17, <3>1, <3>2
      <4>2. th'[r].ith_state = "port_changed"
        BY <4>1 DEF Gone
      <4>3. ReceiverOK(th[r]) /\ th[r].ith_state = "in_progress"
        BY <1>17, <3>2 DEF WaitingAt, LinkInv, ReceiversOK
      <4>4. ReceiverOK(th'[r])
        BY <4>1, <4>2, <4>3, ReceiverTold
      <4>5. QED
        BY <2>1, <3>2, <4>2, <4>4
    <3>3. CASE r \notin W
      BY <1>13, <1>15, <2>1, <3>1, <3>3
    <3>4. QED
      BY <3>2, <3>3
  <2>3. ASSUME NEW x \in Queues
        PROVE  /\ Once(imq'[x].threads)
               /\ Members(imq'[x].threads) =
                    (Members(imq[x].threads) \ C) \cup {r \in Receivers \cap C :
                       th'[r].ith_state = "in_progress" /\ th'[r].mq = x}
    <3>1. {r \in Receivers \cap C : th'[r].ith_state = "in_progress" /\ th'[r].mq = x} = {}
      BY <2>2
    <3>2. CASE x = p
      <4>1. Members(imq'[x].threads) = {} /\ Once(imq'[x].threads)
        BY <1>18, <3>2, NoMembers
      <4>2. Members(imq[x].threads) \ C = {}
        BY <1>3, <2>1, <3>2
      <4>3. QED
        BY <3>1, <4>1, <4>2
    <3>3. CASE x = nset
      <4>1. Members(imq[x].threads) \ C = Members(imq[x].threads) \ MetBy(d)
        BY <1>6, <1>16, <1>17, <2>1, <3>3 DEF WaitingAt
      <4>2. QED
        BY <1>7, <1>14, <3>1, <3>3, <4>1
    <3>4. CASE x # p /\ x # nset
      <4>1. Members(imq[x].threads) \cap C = {}
        BY <1>13, <1>16, <1>17, <2>1, <3>4 DEF WaitingAt
      <4>2. QED
        BY <1>16, <1>18, <3>1, <3>4, <4>1
    <3>5. QED
      BY <3>2, <3>3, <3>4
  <2>4. \A r \in Receivers : IF r \in C THEN ReceiverOK(th'[r]) ELSE th'[r] = th[r]
    BY <2>2
  <2>5. QED
    BY <2>3, <2>4, ReceiversStep
<1>20. \A t \in Senders : th'[t] = th[t]
  BY <1>13, <1>15, <1>17, ThreadTypes DEF WaitingAt
<1>21. SendersOK' /\ SenderLinks'
  BY <1>11, <1>20, SendersKept
<1>22. Circulars'
  BY <1>11, <1>20, CircularsStep
<1>23. PortsOK'
  <2>1. \A x \in Ports : x \in Queues /\ x # nset
    BY MqueueAssumption DEF Queues
  <2>2. \A x \in Ports \ {p} : imq'[x].threads = imq[x].threads
    BY <1>18, <2>1
  <2>3. QED
    BY <1>5, <1>10, <1>11, <1>12, <1>18, <2>2 DEF LinkInv, PortsOK
<1>24. /\ \A x \in Queues : \A m \in Members(imq'[x].messages) :
            /\ m.port \in Ports /\ ip_active(m.port)
            /\ x = IF m.port = p THEN nset ELSE MqueueOf(m.port)
       /\ \A x \in Queues : imq'[x].messages # <<>> => imq'[x].threads = <<>>
  <2>1. nset \in Psets \cup {None} /\ nset = IF nset = None THEN p ELSE nset
    BY <1>6
  <2>2. QED
    BY <1>4, <1>5, <1>6, <2>1, MovePlaces
<1>25. MessagesPlaced'
  BY <1>6, <1>10, <1>11, <1>12, <1>24 DEF MessagesPlaced, ip_active, MqueueOf
<1>26. NoReceiverBesideMessage'
  BY <1>24 DEF NoReceiverBesideMessage
<1>27. Shapes'
  BY <1>5, <1>7, <1>10, <1>15 DEF LinkInv, Shapes, Counters
<1>28. QED
  BY <1>19, <1>21, <1>22, <1>23, <1>25, <1>26, <1>27 DEF LinkInv
-----------------------------------------------------------------------------
(* A receive right leaves its space, or dies.                              *)

LEMMA Cleared ==
    ASSUME LinkInv, NEW p \in Ports, ip[p].right = "held"
    PROVE  LET queues == ClearedQueues(p)
               ths == ClearedThreads(p)
           IN /\ queues \in [Queues -> QueueRecord] /\ queues[p].threads = <<>>
              /\ \A x \in Queues \ {p} : queues[x].threads = imq[x].threads
              /\ \A x \in Queues : \A m \in Members(queues[x].messages) :
                   /\ m.port \in Ports /\ ip_active(m.port)
                   /\ x = IF m.port = p THEN p ELSE MqueueOf(m.port)
              /\ \A x \in Queues : queues[x].messages # <<>> => queues[x].threads = <<>>
              /\ ths \in [Threads -> ThreadRecord]
              /\ \A t \in Threads :
                   IF t \in Members(imq[p].threads)
                   THEN Gone(th[t], ths[t], "port_died") /\ ths[t].kmsg = th[t].kmsg
                   ELSE ths[t] = th[t]
<1>1. PICK queues, ths : queues = ClearedQueues(p) /\ ths = ClearedThreads(p)
  OBVIOUS
<1>2. p \in Queues /\ ip_active(p) /\ th \in [Threads -> ThreadRecord]
  BY PortTypes, ThreadTypes DEF ip_active
<1>3. \A x \in Queues : \A m \in Members(imq[x].messages) :
        m.port \in Ports /\ ip_active(m.port) /\ x = MqueueOf(m.port)
  BY QueueTypes, NoMembers, MessageShape DEF LinkInv, MessagesPlaced
<1>4. CASE ip[p].pset # None
  <2>1. queues = ipc_mqueue_move(p, p) /\ ths = th
    BY <1>1, <1>4 DEF ClearedQueues, ClearedThreads, ipc_pset_remove
  <2>2. imq[p].threads = <<>> /\ MqueueOf(p) # p /\ MqueueOf(p) \in Queues
    BY <1>4, PortTypes, MqueueAssumption DEF LinkInv, PortsOK, MqueueOf
  <2>3. /\ Moved(p) \in Seq(Messages) /\ queues \in [Queues -> QueueRecord]
        /\ queues[MqueueOf(p)].threads = IF MqueueOf(p) = p THEN <<>> ELSE imq[MqueueOf(p)].threads
        /\ queues[p].threads = Deliver(p, Moved(p)).threads
        /\ \A x \in Queues \ {MqueueOf(p), p} : queues[x] = imq[x]
    BY <1>2, <2>1, <2>2, MoveEffect
  <2>4. Deliver(p, Moved(p)).threads = <<>>
    BY <1>2, <2>2, <2>3, DeliverMessages
  <2>5. /\ \A x \in Queues : \A m \in Members(queues[x].messages) :
             /\ m.port \in Ports /\ ip_active(m.port)
             /\ x = IF m.port = p THEN p ELSE MqueueOf(m.port)
        /\ \A x \in Queues : queues[x].messages # <<>> => queues[x].threads = <<>>
    <3>1. PICK pset : pset = None
      OBVIOUS
    <3>2. pset \in Psets \cup {None} /\ p = IF pset = None THEN p ELSE pset
      BY <3>1
    <3>3. QED
      BY <1>2, <2>1, <2>2, <3>2, MovePlaces
  <2>6. Members(imq[p].threads) = {}
    BY <2>2, NoMembers
  <2>7. QED
    BY <1>1, <1>2, <2>1, <2>2, <2>3, <2>4, <2>5, <2>6
<1>5. CASE ip[p].pset = None
  <2>1. /\ queues = [imq EXCEPT ![p].threads = <<>>]
        /\ ths = thread_go(th, Members(imq[p].threads), "port_died")
    BY <1>1, <1>5 DEF ClearedQueues, ClearedThreads, ipc_mqueue_changed
  <2>2. MqueueOf(p) = p
    BY <1>5 DEF MqueueOf
  <2>3. /\ queues \in [Queues -> QueueRecord] /\ queues[p].threads = <<>>
        /\ \A x \in Queues : queues[x].messages = imq[x].messages
        /\ \A x \in Queues \ {p} : queues[x] = imq[x]
    <3>1. imq \in [Queues -> QueueRecord] /\ <<>> \in Seq(Receivers)
      BY DEF LinkInv, Shapes
    <3>2. QED
      BY <1>2, <2>1, <3>1 DEF QueueRecord
  <2>4. \A x \in Queues : queues[x].messages # <<>> => queues[x].threads = <<>>
    BY <2>3 DEF LinkInv, NoReceiverBesideMessage
  <2>5. \A x \in Queues : \A m \in Members(queues[x].messages) :
          /\ m.port \in Ports /\ ip_active(m.port)
          /\ x = IF m.port = p THEN p ELSE MqueueOf(m.port)
    BY <1>3, <2>2, <2>3
  <2>6. /\ ths \in [Threads -> ThreadRecord]
        /\ \A t \in Threads :
             IF t \in Members(imq[p].threads)
             THEN Gone(th[t], ths[t], "port_died") /\ ths[t].kmsg = th[t].kmsg
             ELSE ths[t] = th[t]
    BY <1>2, <2>1, ThreadGo DEF States
  <2>7. QED
    BY <1>1, <2>3, <2>4, <2>5, <2>6
<1>6. QED
  BY <1>4, <1>5

LEMMA ClearedShape ==
    ASSUME LinkInv, NEW p \in Ports
    PROVE  /\ ClearedPort(p) \in [Ports -> PortShape] /\ ClearedPort(p)[p].pset = None
           /\ \A x \in Ports : /\ ClearedPort(p)[x].right = ip[x].right
                               /\ ClearedPort(p)[x].blocked = ip[x].blocked
                               /\ ClearedPort(p)[x].msgcount = ip[x].msgcount
                               /\ ClearedPort(p)[x].qlimit = ip[x].qlimit
           /\ \A x \in Ports \ {p} : ClearedPort(p)[x] = ip[x]
<1>1. PICK new, z : new = ClearedPort(p) /\ z = None
  OBVIOUS
<1>2. new = Joined(p, z, 0) /\ z \in Psets \cup {None} /\ 0 \in Nat
  BY <1>1 DEF ClearedPort, Joined
<1>3. new \in [Ports -> PortShape] /\ new[p].pset = z
  BY <1>2, JoinedShape
<1>4. \A x \in Ports : /\ new[x].right = ip[x].right /\ new[x].blocked = ip[x].blocked
                       /\ new[x].msgcount = ip[x].msgcount /\ new[x].qlimit = ip[x].qlimit
  BY <1>2, JoinedShape
<1>5. \A x \in Ports \ {p} : new[x] = ip[x]
  BY <1>2, JoinedShape
<1>6. QED
  BY <1>1, <1>3, <1>4, <1>5

CopiedSender(m, how) == [Idle EXCEPT !.pc = "copied", !.how = how, !.kmsg = m]

LEMMA CopyinReceiveKeeps ==
    ASSUME LinkInv, NEW t \in Senders, NEW p \in Ports, NEW how \in SendWaits,
           CopyinReceive(t, p, how)
    PROVE  LinkInv'
<1>1. PICK m : m = [port |-> p, n |-> sent + 1, big |-> FALSE, circular |-> TRUE]
  OBVIOUS
<1>2. PICK ths : ths = ClearedThreads(p)
  OBVIOUS
<1>3. /\ th[t].pc = "idle" /\ sent < MaxSends /\ ip[p].right = "held"
      /\ ip' = [ClearedPort(p) EXCEPT ![p].right = "limbo"]
      /\ imq' = ClearedQueues(p)
      /\ th' = [ths EXCEPT ![t] = CopiedSender(m, how)]
      /\ sent' = sent + 1 /\ Operation /\ ips_active' = ips_active
  BY <1>1, <1>2 DEF CopyinReceive, CopiedSender
<1>4. sent \in 0 .. MaxSends /\ MaxSends \in Nat /\ ops \in 0 .. MaxOps /\ MaxOps \in Nat
  BY MqueueAssumption DEF LinkInv, Shapes
<1>5. sent + 1 \in 1 .. MaxSends
  BY <1>3, <1>4
<1>6. Counters
  BY <1>3, <1>4, <1>5 DEF Counters, Operation
<1>7. m \in Messages /\ m.port = p /\ m.circular /\ m # None
  <2>1. m \in Messages /\ m.port = p /\ m.circular
    BY <1>1, <1>5 DEF Messages
  <2>2. QED
    BY <2>1, MessageShape
<1>8. /\ CopiedSender(m, how) \in ThreadRecord /\ SenderOK(CopiedSender(m, how))
      /\ CopiedSender(m, how).kmsg = m /\ CopiedSender(m, how).ith_state # "in_progress"
  <2>1. how \in {"always", "poll", "timed", "forever"}
    BY MqueueAssumption
  <2>2. QED
    BY <1>7, <2>1 DEF CopiedSender, Idle, ThreadRecord, SenderOK
<1>9. /\ imq' \in [Queues -> QueueRecord] /\ imq'[p].threads = <<>>
      /\ \A x \in Queues \ {p} : imq'[x].threads = imq[x].threads
      /\ \A x \in Queues : \A y \in Members(imq'[x].messages) :
           /\ y.port \in Ports /\ ip_active(y.port)
           /\ x = IF y.port = p THEN p ELSE MqueueOf(y.port)
      /\ \A x \in Queues : imq'[x].messages # <<>> => imq'[x].threads = <<>>
  BY <1>3, Cleared
<1>10. /\ ths \in [Threads -> ThreadRecord]
       /\ \A u \in Threads :
            IF u \in Members(imq[p].threads)
            THEN Gone(th[u], ths[u], "port_died") /\ ths[u].kmsg = th[u].kmsg
            ELSE ths[u] = th[u]
  BY <1>2, <1>3, Cleared
<1>11. /\ th' \in [Threads -> ThreadRecord] /\ th'[t] = CopiedSender(m, how)
       /\ \A u \in Threads \ {t} : th'[u] = ths[u]
  BY <1>3, <1>8, <1>10, ThreadTypes
<1>12. p \in Queues /\ Members(imq[p].threads) \subseteq Receivers
  BY PortTypes, QueueTypes, NoMembers
<1>13. \A u \in Senders \ {t} : th'[u] = th[u]
  BY <1>10, <1>11, <1>12, ThreadTypes
<1>14. \A r \in Receivers :
         IF r \in Members(imq[p].threads)
         THEN Gone(th[r], th'[r], "port_died") /\ th'[r].kmsg = th[r].kmsg
         ELSE th'[r] = th[r]
  BY <1>10, <1>11, ThreadTypes
<1>15. /\ ip' \in [Ports -> PortShape] /\ ip'[p].pset = None /\ ip'[p].right = "limbo"
       /\ \A x \in Ports : ip'[x].blocked = ip[x].blocked
       /\ \A x \in Ports \ {p} : ip'[x] = ip[x]
  <2>1. PICK new : new = ClearedPort(p)
    OBVIOUS
  <2>2. /\ new \in [Ports -> PortShape] /\ new[p].pset = None
        /\ \A x \in Ports : new[x].blocked = ip[x].blocked
        /\ \A x \in Ports \ {p} : new[x] = ip[x]
    BY <2>1, ClearedShape
  <2>3. ip' = [new EXCEPT ![p].right = "limbo"]
    BY <1>3, <2>1
  <2>4. QED
    BY <2>2, <2>3 DEF PortShape
<1>16. SendersOK' /\ SenderLinks'
  <2>1. \A u \in Senders : IF u \in {t} THEN SenderOK(th'[u]) ELSE th'[u] = th[u]
    BY <1>8, <1>11, <1>13
  <2>2. th[t].ith_state # "in_progress"
    BY <1>3 DEF LinkInv, SendersOK, SenderOK
  <2>3. ASSUME NEW x \in Ports
        PROVE  /\ Once(ip'[x].blocked)
               /\ Members(ip'[x].blocked) =
                    (Members(ip[x].blocked) \ {t}) \cup {u \in Senders \cap {t} :
                       th'[u].ith_state = "in_progress" /\ th'[u].kmsg.port = x}
    <3>1. {u \in Senders \cap {t} :
             th'[u].ith_state = "in_progress" /\ th'[u].kmsg.port = x} = {}
      BY <1>8, <1>11
    <3>2. Members(ip[x].blocked) = Members(ip[x].blocked) \ {t}
      BY <2>2, NotBlocked
    <3>3. Once(ip[x].blocked)
      BY DEF LinkInv, SenderLinks
    <3>4. QED
      BY <1>15, <3>1, <3>2, <3>3
  <2>4. QED
    BY <2>1, <2>3, SendersStep
<1>17. ReceiversOK' /\ ReceiverLinks'
  BY <1>9, <1>12, <1>14, ReceiversLeave
<1>18. PortsOK'
  <2>1. \A x \in Ports : x \in Queues
    BY DEF Queues
  <2>2. QED
    BY <1>9, <1>15, <2>1 DEF LinkInv, PortsOK
<1>19. Circulars'
  <2>1. \A u \in Senders : ~Carries(u, p)
    BY <1>3 DEF LinkInv, Circulars
  <2>2. ASSUME NEW u \in Senders, NEW x \in Ports, Carries(u, x)'
        PROVE  IF x = p THEN u = t ELSE u # t /\ Carries(u, x)
    BY <1>7, <1>8, <1>11, <1>13, <2>1, <2>2 DEF Carries
  <2>3. \A u \in Senders, x \in Ports : Carries(u, x) =>
          ip[x].right = "limbo" /\ \A v \in Senders : Carries(v, x) => v = u
    BY DEF LinkInv, Circulars
  <2>4. QED
    BY <1>15, <2>2, <2>3 DEF Circulars
<1>20. MessagesPlaced'
  BY <1>9, <1>15 DEF MessagesPlaced, ip_active, MqueueOf
<1>21. NoReceiverBesideMessage'
  BY <1>9 DEF NoReceiverBesideMessage
<1>22. Shapes'
  BY <1>6, <1>9, <1>11, <1>15 DEF LinkInv, Shapes, Counters
<1>23. QED
  BY <1>16, <1>17, <1>18, <1>19, <1>20, <1>21, <1>22 DEF LinkInv

LEMMA PortDestroyKeeps ==
    ASSUME LinkInv, NEW p \in Ports, PortDestroy(p)
    PROVE  LinkInv'
<1>1. PICK ths, ports, queues, G :
        /\ ths = ClearedThreads(p) /\ ports = ClearedPort(p) /\ queues = ClearedQueues(p)
        /\ G = Members(ip[p].blocked)
  OBVIOUS
<1>2. /\ ip[p].right = "held" /\ Counters
      /\ ip' = DeadPort(ports, p) /\ imq' = EmptyQueue(queues, p)
      /\ th' = thread_go(ths, G, "success")
  BY <1>1, OperationCounts DEF PortDestroy, SendersGo
<1>3. p \in Queues /\ Members(imq[p].threads) \subseteq Receivers /\ G \subseteq Senders
  BY <1>1, PortTypes, QueueTypes, NoMembers
<1>4. /\ queues \in [Queues -> QueueRecord] /\ queues[p].threads = <<>>
      /\ \A x \in Queues \ {p} : queues[x].threads = imq[x].threads
      /\ \A x \in Queues : \A y \in Members(queues[x].messages) :
           /\ y.port \in Ports /\ ip_active(y.port)
           /\ x = IF y.port = p THEN p ELSE MqueueOf(y.port)
      /\ \A x \in Queues : queues[x].messages # <<>> => queues[x].threads = <<>>
  BY <1>1, <1>2, Cleared
<1>5. /\ ths \in [Threads -> ThreadRecord]
      /\ \A u \in Threads :
           IF u \in Members(imq[p].threads)
           THEN Gone(th[u], ths[u], "port_died") /\ ths[u].kmsg = th[u].kmsg
           ELSE ths[u] = th[u]
  BY <1>1, <1>2, Cleared
<1>6. /\ th' \in [Threads -> ThreadRecord]
      /\ \A u \in Threads :
           IF u \in G THEN Gone(ths[u], th'[u], "success") /\ th'[u].kmsg = ths[u].kmsg
                      ELSE th'[u] = ths[u]
  BY <1>2, <1>5, ThreadGo DEF States
<1>7. \A u \in Senders :
        IF u \in G THEN Gone(th[u], th'[u], "success") /\ th'[u].kmsg = th[u].kmsg
                   ELSE th'[u] = th[u]
  BY <1>3, <1>5, <1>6, ThreadTypes
<1>8. \A r \in Receivers :
        IF r \in Members(imq[p].threads)
        THEN Gone(th[r], th'[r], "port_died") /\ th'[r].kmsg = th[r].kmsg
        ELSE th'[r] = th[r]
  BY <1>3, <1>5, <1>6, ThreadTypes
<1>9. /\ imq' \in [Queues -> QueueRecord] /\ imq'[p].messages = <<>>
      /\ \A x \in Queues : imq'[x].threads = queues[x].threads
      /\ \A x \in Queues \ {p} : imq'[x] = queues[x]
  <2>1. <<>> \in Seq(Messages)
    OBVIOUS
  <2>2. QED
    BY <1>2, <1>3, <1>4, <2>1 DEF EmptyQueue, QueueRecord
<1>10. /\ ip' \in [Ports -> PortShape] /\ ip'[p].pset = None /\ ip'[p].right = "dead"
       /\ ip'[p].blocked = <<>>
       /\ \A x \in Ports \ {p} : ip'[x] = ip[x]
  <2>1. /\ ports \in [Ports -> PortShape] /\ ports[p].pset = None
        /\ \A x \in Ports \ {p} : ports[x] = ip[x]
    BY <1>1, ClearedShape
  <2>2. QED
    BY <1>2, <2>1, DeadPortShape
<1>11. SendersOK' /\ SenderLinks'
  <2>1. Members(ip'[p].blocked) = {} /\ Once(ip'[p].blocked)
    BY <1>10, NoMembers
  <2>2. Wakes(p, G, {})
    BY <1>1, <1>7, <1>10, <2>1 DEF Wakes
  <2>3. QED
    BY <2>2, SendersWoken
<1>12. ReceiversOK' /\ ReceiverLinks'
  BY <1>3, <1>4, <1>8, <1>9, ReceiversLeave
<1>13. PortsOK'
  <2>1. \A x \in Ports : x \in Queues
    BY DEF Queues
  <2>2. QED
    BY <1>4, <1>9, <1>10, <2>1 DEF LinkInv, PortsOK
<1>14. Circulars'
  <2>1. \A u \in Senders : th'[u].kmsg = th[u].kmsg
    BY <1>7
  <2>2. \A u \in Senders : ~Carries(u, p)
    BY <1>2 DEF LinkInv, Circulars
  <2>3. \A u \in Senders : ~Carries(u, p)'
    BY <2>1, <2>2 DEF Carries
  <2>4. \A x \in Ports : ip'[x].right = ip[x].right \/ \A u \in Senders : ~Carries(u, x)'
    BY <1>10, <2>3
  <2>5. QED
    BY <2>1, <2>4, CircularsStep
<1>15. MessagesPlaced'
  <2> SUFFICES ASSUME NEW x \in Queues, NEW y \in Members(imq'[x].messages)
               PROVE  ip_active(y.port)' /\ x = MqueueOf(y.port)'
    BY DEF MessagesPlaced
  <2>1. x # p
    BY <1>9, NoMembers
  <2>2. y \in Members(queues[x].messages)
    BY <1>9, <2>1
  <2>3. y.port \in Ports /\ y.port # p /\ ip_active(y.port) /\ x = MqueueOf(y.port)
    BY <1>4, <2>1, <2>2
  <2>4. ip'[y.port] = ip[y.port]
    BY <1>10, <2>3
  <2>5. QED
    BY <2>3, <2>4 DEF ip_active, MqueueOf
<1>16. NoReceiverBesideMessage'
  BY <1>4, <1>9 DEF NoReceiverBesideMessage
<1>17. Shapes'
  BY <1>2, <1>6, <1>9, <1>10 DEF LinkInv, Shapes, Counters
<1>18. QED
  BY <1>11, <1>12, <1>13, <1>14, <1>15, <1>16, <1>17 DEF LinkInv

-----------------------------------------------------------------------------
(* The actions of the receivers.                                           *)

\* The ports and queues as the loop of ipc_mqueue_receive finds them: r is in
\* no queue.
Found(r, ports, queues) ==
    /\ ports \in [Ports -> PortShape] /\ queues \in [Queues -> QueueRecord]
    /\ \A p \in Ports :
         /\ ports[p].right = ip[p].right /\ ports[p].blocked = ip[p].blocked
         /\ ports[p].pset # None \/ ports[p].right # "held" => queues[p].threads = <<>>
         /\ ports[p].right # "held" => ports[p].pset = None
    /\ \A x \in Queues :
         /\ Once(queues[x].threads)
         /\ Members(queues[x].threads) = Members(imq[x].threads) \ {r}
         /\ queues[x].messages # <<>> => queues[x].threads = <<>>
         /\ \A m \in Members(queues[x].messages) :
              /\ m.port \in Ports /\ ip_active(m.port)
              /\ x = IF ports[m.port].pset = None THEN m.port ELSE ports[m.port].pset

\* r leaves with an answer, a message or nothing; it waits nowhere.
Answers(r, ports, queues) ==
    /\ ip' \in [Ports -> PortShape]
    /\ \A p \in Ports : /\ ip'[p].right = ports[p].right /\ ip'[p].pset = ports[p].pset
                        /\ ip'[p].blocked = ports[p].blocked
    /\ imq' \in [Queues -> QueueRecord]
    /\ \A x \in Queues : /\ imq'[x].threads = queues[x].threads
                         /\ Members(imq'[x].messages) \subseteq Members(queues[x].messages)
                         /\ imq'[x].messages # <<>> => queues[x].messages # <<>>
    /\ th' \in [Threads -> ThreadRecord]
    /\ \A u \in Threads \ {r} : th'[u] = th[u]
    /\ ReceiverOK(th'[r]) /\ th'[r].ith_state # "in_progress"

LEMMA ReceiverAnswered ==
    ASSUME LinkInv, NEW r \in Receivers, NEW ports, NEW queues, Found(r, ports, queues), Counters,
           Answers(r, ports, queues)
    PROVE  LinkInv'
<1> USE DEF Answers
<1>1. \A t \in Senders : th'[t] = th[t]
  BY ThreadTypes
<1>2. \A p \in Ports : ip'[p].right = ip[p].right /\ ip'[p].blocked = ip[p].blocked
  BY DEF Found
<1>3. SendersOK' /\ SenderLinks'
  BY <1>1, <1>2, SendersKept
<1>4. Circulars'
  BY <1>1, <1>2, CircularsStep
<1>5. ReceiversOK' /\ ReceiverLinks'
  <2>1. \A u \in Receivers : IF u \in {r} THEN ReceiverOK(th'[u]) ELSE th'[u] = th[u]
    BY ThreadTypes
  <2>2. ASSUME NEW x \in Queues
        PROVE  /\ Once(imq'[x].threads)
               /\ Members(imq'[x].threads) =
                    (Members(imq[x].threads) \ {r}) \cup {u \in Receivers \cap {r} :
                       th'[u].ith_state = "in_progress" /\ th'[u].mq = x}
    <3>1. {u \in Receivers \cap {r} : th'[u].ith_state = "in_progress" /\ th'[u].mq = x} = {}
      OBVIOUS
    <3>2. QED
      BY <3>1 DEF Found
  <2>3. QED
    BY <2>1, <2>2, ReceiversStep
<1>6. PortsOK'
  <2>1. \A p \in Ports : p \in Queues
    BY DEF Queues
  <2>2. \A p \in Ports : ip[p].right = "dead" => ip[p].blocked = <<>>
    BY DEF LinkInv, PortsOK
  <2>3. QED
    BY <1>2, <2>1, <2>2 DEF PortsOK, Found
<1>7. MessagesPlaced'
  <2> SUFFICES ASSUME NEW x \in Queues, NEW m \in Members(imq'[x].messages)
               PROVE  ip_active(m.port)' /\ x = MqueueOf(m.port)'
    BY DEF MessagesPlaced
  <2>1. m \in Members(queues[x].messages)
    OBVIOUS
  <2>2. /\ m.port \in Ports /\ ip_active(m.port)
        /\ x = IF ports[m.port].pset = None THEN m.port ELSE ports[m.port].pset
    BY <2>1 DEF Found
  <2>3. QED
    BY <1>2, <2>2 DEF ip_active, MqueueOf
<1>8. NoReceiverBesideMessage'
  BY DEF NoReceiverBesideMessage, Found
<1>9. Shapes'
  BY DEF LinkInv, Shapes, Counters
<1>10. QED
  BY <1>3, <1>4, <1>5, <1>6, <1>7, <1>8, <1>9 DEF LinkInv

ReceiverGot(q, how, buf, m) ==
    [[Idle EXCEPT !.how = how, !.buf = buf, !.mq = q]
       EXCEPT !.pc = "got", !.kmsg = m, !.ith_state = RcvState(buf, m)]
BlockedReceiver(q, how, buf) ==
    [[Idle EXCEPT !.how = how, !.buf = buf, !.mq = q]
       EXCEPT !.pc = "blocked", !.ith_state = "in_progress", !.wait = "waiting"]

Hows == {"poll", "timed", "forever"}
Bufs == {"none", "any", "large", "trunc"}

LEMMA ReceiverShapes ==
    ASSUME NEW q \in Queues, NEW how \in Hows, NEW buf \in Bufs
    PROVE  /\ BlockedReceiver(q, how, buf) \in ThreadRecord
           /\ ReceiverOK(BlockedReceiver(q, how, buf))
           /\ BlockedReceiver(q, how, buf).ith_state = "in_progress"
           /\ BlockedReceiver(q, how, buf).mq = q
           /\ \A m \in Messages :
                /\ ReceiverGot(q, how, buf, m) \in ThreadRecord
                /\ ReceiverOK(ReceiverGot(q, how, buf, m))
                /\ ReceiverGot(q, how, buf, m).ith_state # "in_progress"
                /\ ReceiverGot(q, how, buf, m).kmsg = m
<1>1. q # None
  BY MqueueAssumption DEF Queues
<1>2. /\ BlockedReceiver(q, how, buf) \in ThreadRecord
      /\ ReceiverOK(BlockedReceiver(q, how, buf))
      /\ BlockedReceiver(q, how, buf).ith_state = "in_progress"
      /\ BlockedReceiver(q, how, buf).mq = q
  BY <1>1 DEF BlockedReceiver, Idle, ThreadRecord, ReceiverOK, Hows, Bufs
<1>3. ASSUME NEW m \in Messages
      PROVE  /\ ReceiverGot(q, how, buf, m) \in ThreadRecord
             /\ ReceiverOK(ReceiverGot(q, how, buf, m))
             /\ ReceiverGot(q, how, buf, m).ith_state # "in_progress"
             /\ ReceiverGot(q, how, buf, m).kmsg = m
  <2>1. PICK s : s = RcvState(buf, m)
    OBVIOUS
  <2>2. s \in {"success", "too_large"} /\ m # None
    BY <2>1, MessageShape DEF RcvState
  <2>3. QED
    BY <1>1, <2>1, <2>2 DEF ReceiverGot, Idle, ThreadRecord, ReceiverOK, Hows, Bufs
<1>4. QED
  BY <1>2, <1>3

LEMMA ReceiverBlocks ==
    ASSUME LinkInv, NEW r \in Receivers, NEW ports, NEW queues, Found(r, ports, queues), Counters,
           NEW q \in Queues, NEW how \in Hows, NEW buf \in Bufs,
           q \in Ports => ports[q].right = "held" /\ ports[q].pset = None,
           queues[q].messages = <<>>,
           th' = [th EXCEPT ![r] = BlockedReceiver(q, how, buf)],
           ip' = ports, imq' = [queues EXCEPT ![q].threads = Append(@, r)]
    PROVE  LinkInv'
<1>1. PICK u : u = BlockedReceiver(q, how, buf)
  OBVIOUS
<1>2. u \in ThreadRecord /\ ReceiverOK(u) /\ u.ith_state = "in_progress" /\ u.mq = q
  BY <1>1, ReceiverShapes
<1>3. /\ th' \in [Threads -> ThreadRecord] /\ th'[r] = u
      /\ \A t \in Threads \ {r} : th'[t] = th[t]
  BY <1>1, <1>2, ThreadTypes
<1>4. \A t \in Senders : th'[t] = th[t]
  BY <1>3, ThreadTypes
<1>5. \A p \in Ports : ip'[p].right = ip[p].right /\ ip'[p].blocked = ip[p].blocked
  BY DEF Found
<1>6. PICK new : new = Append(queues[q].threads, r)
  OBVIOUS
<1>7. /\ queues \in [Queues -> QueueRecord] /\ queues[q].threads \in Seq(Receivers)
      /\ Once(queues[q].threads) /\ Members(queues[q].threads) = Members(imq[q].threads) \ {r}
  BY DEF Found, QueueRecord
<1>8. new \in Seq(Receivers) /\ Members(new) = Members(queues[q].threads) \cup {r} /\ Once(new)
  BY <1>6, <1>7, AppendMembers
<1>9. /\ imq' \in [Queues -> QueueRecord] /\ imq'[q].threads = new
      /\ \A x \in Queues : imq'[x].messages = queues[x].messages
      /\ \A x \in Queues \ {q} : imq'[x] = queues[x]
  BY <1>6, <1>7, <1>8 DEF QueueRecord
<1>10. SendersOK' /\ SenderLinks'
  BY <1>4, <1>5, SendersKept
<1>11. Circulars'
  BY <1>4, <1>5, CircularsStep
<1>12. ReceiversOK' /\ ReceiverLinks'
  <2>1. \A t \in Receivers : IF t \in {r} THEN ReceiverOK(th'[t]) ELSE th'[t] = th[t]
    BY <1>2, <1>3, ThreadTypes
  <2>2. ASSUME NEW x \in Queues
        PROVE  /\ Once(imq'[x].threads)
               /\ Members(imq'[x].threads) =
                    (Members(imq[x].threads) \ {r}) \cup {t \in Receivers \cap {r} :
                       th'[t].ith_state = "in_progress" /\ th'[t].mq = x}
    <3>1. {t \in Receivers \cap {r} : th'[t].ith_state = "in_progress" /\ th'[t].mq = x}
            = IF x = q THEN {r} ELSE {}
      BY <1>2, <1>3
    <3>2. CASE x = q
      BY <1>7, <1>8, <1>9, <3>1, <3>2
    <3>3. CASE x # q
      BY <1>9, <3>1, <3>3 DEF Found
    <3>4. QED
      BY <3>2, <3>3
  <2>3. QED
    BY <2>1, <2>2, ReceiversStep
<1>13. PortsOK'
  <2>1. \A p \in Ports : p \in Queues
    BY DEF Queues
  <2>2. \A p \in Ports : ip[p].right = "dead" => ip[p].blocked = <<>>
    BY DEF LinkInv, PortsOK
  <2>3. QED
    BY <1>5, <1>9, <2>1, <2>2 DEF PortsOK, Found
<1>14. MessagesPlaced'
  <2> SUFFICES ASSUME NEW x \in Queues, NEW m \in Members(imq'[x].messages)
               PROVE  ip_active(m.port)' /\ x = MqueueOf(m.port)'
    BY DEF MessagesPlaced
  <2>1. m \in Members(queues[x].messages)
    BY <1>9
  <2>2. /\ m.port \in Ports /\ ip_active(m.port)
        /\ x = IF ports[m.port].pset = None THEN m.port ELSE ports[m.port].pset
    BY <2>1 DEF Found
  <2>3. QED
    BY <1>5, <2>2 DEF ip_active, MqueueOf
<1>15. NoReceiverBesideMessage'
  BY <1>9 DEF NoReceiverBesideMessage, Found
<1>16. Shapes'
  BY <1>3, <1>9 DEF LinkInv, Shapes, Counters, Found
<1>17. QED
  BY <1>10, <1>11, <1>12, <1>13, <1>14, <1>15, <1>16 DEF LinkInv

Numbered(ports, p) == [ports EXCEPT ![p].seqno = @ + 1]

LEMMA NumberedShape ==
    ASSUME NEW ports \in [Ports -> PortShape], NEW p \in Ports, NEW new, new = Numbered(ports, p)
    PROVE  /\ new \in [Ports -> PortShape]
           /\ \A x \in Ports : /\ new[x].right = ports[x].right /\ new[x].pset = ports[x].pset
                               /\ new[x].blocked = ports[x].blocked
                               /\ new[x].msgcount = ports[x].msgcount
                               /\ new[x].qlimit = ports[x].qlimit
<1> DEFINE n == ports[p].seqno + 1
           port == [ports[p] EXCEPT !.seqno = n]
<1>1. ports[p] \in PortShape
  OBVIOUS
<1>2. n \in Nat
  BY <1>1 DEF PortShape
<1>3. new = [ports EXCEPT ![p] = port]
  BY DEF Numbered
<1> HIDE DEF n
<1>4. /\ port \in PortShape /\ port.pset = ports[p].pset /\ port.right = ports[p].right
      /\ port.blocked = ports[p].blocked /\ port.msgcount = ports[p].msgcount
      /\ port.qlimit = ports[p].qlimit
  BY <1>1, <1>2 DEF PortShape
<1> HIDE DEF port
<1>5. QED
  BY <1>3, <1>4

LEMMA ReceiveLoopKeeps ==
    ASSUME LinkInv, NEW r \in Receivers, NEW ports, NEW queues, Found(r, ports, queues), Counters,
           NEW q \in Queues, NEW how \in Hows, NEW buf \in Bufs,
           how # "poll" /\ q \in Ports => ports[q].right = "held" /\ ports[q].pset = None,
           ReceiveLoop(r, q, how, buf, ports, queues)
    PROVE  LinkInv'
<1>1. /\ ports \in [Ports -> PortShape] /\ queues \in [Queues -> QueueRecord]
      /\ queues[q].messages \in Seq(Messages) /\ r \in Threads
  BY ThreadTypes DEF Found, QueueRecord
<1>2. CASE th' = Return(th, r) /\ ip' = ports /\ imq' = queues
  <2>1. /\ th' \in [Threads -> ThreadRecord] /\ th'[r] = Idle
        /\ \A u \in Threads \ {r} : th'[u] = th[u]
    BY <1>1, <1>2, ThreadTypes, ReturnShape
  <2>2. ReceiverOK(th'[r]) /\ th'[r].ith_state # "in_progress"
    BY <2>1, IdleShape
  <2>3. Answers(r, ports, queues)
    BY <1>1, <1>2, <2>1, <2>2 DEF Answers
  <2>4. QED
    BY <2>3, ReceiverAnswered
<1>3. ASSUME queues[q].messages # <<>>, NEW m, m = Head(queues[q].messages),
             th' = [th EXCEPT ![r] = ReceiverGot(q, how, buf, m)],
             ip' = Numbered(ports, m.port),
             imq' = [queues EXCEPT ![q].messages = Tail(@)]
      PROVE  LinkInv'
  <2>1. m \in Messages /\ m.port \in Ports /\ Tail(queues[q].messages) \in Seq(Messages)
    BY <1>1, <1>3, TailMembers, MessageShape
  <2>2. Members(queues[q].messages) = Members(Tail(queues[q].messages)) \cup {Head(queues[q].messages)}
    BY <1>1, <1>3, TailMembers
  <2>3. PICK u : u = ReceiverGot(q, how, buf, m)
    OBVIOUS
  <2>4. u \in ThreadRecord /\ ReceiverOK(u) /\ u.ith_state # "in_progress"
    BY <2>1, <2>3, ReceiverShapes
  <2>5. /\ th' \in [Threads -> ThreadRecord] /\ th'[r] = u
        /\ \A t \in Threads \ {r} : th'[t] = th[t]
    BY <1>1, <1>3, <2>3, <2>4, ThreadTypes
  <2>6. ip' \in [Ports -> PortShape]
    BY <1>1, <1>3, <2>1, NumberedShape
  <2>7. \A p \in Ports : /\ ip'[p].right = ports[p].right /\ ip'[p].pset = ports[p].pset
                         /\ ip'[p].blocked = ports[p].blocked
    BY <1>1, <1>3, <2>1, NumberedShape
  <2>8. /\ imq' \in [Queues -> QueueRecord]
        /\ imq'[q].messages = Tail(queues[q].messages)
        /\ \A x \in Queues : imq'[x].threads = queues[x].threads
        /\ \A x \in Queues \ {q} : imq'[x] = queues[x]
    BY <1>1, <1>3, <2>1 DEF QueueRecord
  <2>9. \A x \in Queues : /\ imq'[x].threads = queues[x].threads
                          /\ Members(imq'[x].messages) \subseteq Members(queues[x].messages)
                          /\ imq'[x].messages # <<>> => queues[x].messages # <<>>
    BY <1>3, <2>2, <2>8
  <2>10. ReceiverOK(th'[r]) /\ th'[r].ith_state # "in_progress"
    BY <2>4, <2>5
  <2>11. Answers(r, ports, queues)
    BY <2>5, <2>6, <2>7, <2>8, <2>9, <2>10 DEF Answers
  <2>12. QED
    BY <2>11, ReceiverAnswered
<1>4. CASE /\ queues[q].messages = <<>> /\ how # "poll"
           /\ th' = [th EXCEPT ![r] = BlockedReceiver(q, how, buf)]
           /\ ip' = ports /\ imq' = [queues EXCEPT ![q].threads = Append(@, r)]
  BY <1>4, ReceiverBlocks
<1>5. \/ th' = Return(th, r) /\ ip' = ports /\ imq' = queues
      \/ LET m == Head(queues[q].messages) IN
         /\ queues[q].messages # <<>>
         /\ th' = [th EXCEPT ![r] = ReceiverGot(q, how, buf, m)]
         /\ ip' = Numbered(ports, m.port)
         /\ imq' = [queues EXCEPT ![q].messages = Tail(@)]
      \/ /\ queues[q].messages = <<>> /\ how # "poll"
         /\ th' = [th EXCEPT ![r] = BlockedReceiver(q, how, buf)]
         /\ ip' = ports /\ imq' = [queues EXCEPT ![q].threads = Append(@, r)]
  BY DEF ReceiveLoop, ReceiverGot, BlockedReceiver, Numbered
<1>6. PICK m : m = Head(queues[q].messages)
  OBVIOUS
<1>7. QED
  BY <1>2, <1>3, <1>4, <1>5, <1>6

\* A thread that waits in no queue finds them as they are.
LEMMA FoundIdle ==
    ASSUME LinkInv, NEW r \in Receivers, th[r].ith_state # "in_progress"
    PROVE  Found(r, ip, imq)
<1>1. ip \in [Ports -> PortShape] /\ imq \in [Queues -> QueueRecord]
  BY DEF LinkInv, Shapes
<1>2. ASSUME NEW x \in Queues
      PROVE  /\ Once(imq[x].threads)
             /\ Members(imq[x].threads) = Members(imq[x].threads) \ {r}
             /\ imq[x].messages # <<>> => imq[x].threads = <<>>
  BY DEF LinkInv, ReceiverLinks, WaitingAt, NoReceiverBesideMessage
<1>3. ASSUME NEW x \in Queues, NEW m \in Members(imq[x].messages)
      PROVE  /\ m.port \in Ports /\ ip_active(m.port)
             /\ x = IF ip[m.port].pset = None THEN m.port ELSE ip[m.port].pset
  <2>1. m \in Messages
    BY QueueTypes, NoMembers
  <2>2. QED
    BY <2>1, MessageShape DEF LinkInv, MessagesPlaced, MqueueOf
<1>4. QED
  BY <1>1, <1>2, <1>3 DEF Found, LinkInv, PortsOK

\* ipc_mqueue_copyin takes the port out of a set that died.
LEMMA FoundTakenOut ==
    ASSUME LinkInv, NEW r \in Receivers, th[r].ith_state # "in_progress",
           NEW p \in Ports, ip[p].right = "held", ip[p].pset # None
    PROVE  Found(r, [ip EXCEPT ![p].pset = None], ipc_pset_remove(p))
<1> DEFINE ports == [ip EXCEPT ![p].pset = None]
<1>1. PICK queues : queues = ipc_mqueue_move(p, p)
  OBVIOUS
<1>2. /\ imq[p].threads = <<>> /\ MqueueOf(p) # p /\ p \in Queues /\ MqueueOf(p) \in Queues
      /\ ip_active(p)
  BY PortTypes, MqueueAssumption DEF LinkInv, PortsOK, MqueueOf, ip_active
<1>3. /\ ports \in [Ports -> PortShape]
      /\ \A x \in Ports : /\ ports[x].pset = IF x = p THEN None ELSE ip[x].pset
                          /\ ports[x].right = ip[x].right /\ ports[x].blocked = ip[x].blocked
  BY DEF LinkInv, Shapes, PortShape
<1> HIDE DEF ports
<1>4. /\ Moved(p) \in Seq(Messages) /\ queues \in [Queues -> QueueRecord]
      /\ queues[MqueueOf(p)].threads = IF MqueueOf(p) = p THEN <<>> ELSE imq[MqueueOf(p)].threads
      /\ queues[p].threads = Deliver(p, Moved(p)).threads
      /\ \A x \in Queues \ {MqueueOf(p), p} : queues[x] = imq[x]
  BY <1>1, <1>2, MoveEffect
<1>5. Deliver(p, Moved(p)).threads = <<>>
  BY <1>2, <1>4, DeliverMessages
<1>6. \A x \in Queues : queues[x].threads = imq[x].threads
  BY <1>2, <1>4, <1>5
<1>7. /\ \A x \in Queues : \A m \in Members(queues[x].messages) :
            /\ m.port \in Ports /\ ip_active(m.port)
            /\ x = IF m.port = p THEN p ELSE MqueueOf(m.port)
      /\ \A x \in Queues : queues[x].messages # <<>> => queues[x].threads = <<>>
  <2>1. PICK pset : pset = None
    OBVIOUS
  <2>2. pset \in Psets \cup {None} /\ p = IF pset = None THEN p ELSE pset
    BY <2>1
  <2>3. QED
    BY <1>1, <1>2, <2>2, MovePlaces
<1>8. ASSUME NEW x \in Queues
      PROVE  /\ Once(queues[x].threads)
             /\ Members(queues[x].threads) = Members(imq[x].threads) \ {r}
  BY <1>6 DEF LinkInv, ReceiverLinks, WaitingAt
<1>9. ASSUME NEW x \in Queues, NEW m \in Members(queues[x].messages)
      PROVE  /\ m.port \in Ports /\ ip_active(m.port)
             /\ x = IF ports[m.port].pset = None THEN m.port ELSE ports[m.port].pset
  BY <1>3, <1>7 DEF MqueueOf
<1>10. ASSUME NEW x \in Ports
       PROVE  /\ ports[x].pset # None \/ ports[x].right # "held" => queues[x].threads = <<>>
              /\ ports[x].right # "held" => ports[x].pset = None
  BY <1>3, <1>6 DEF LinkInv, PortsOK, Queues
<1>11. Found(r, ports, queues)
  BY <1>3, <1>4, <1>7, <1>8, <1>9, <1>10 DEF Found
<1>12. QED
  BY <1>1, <1>11 DEF ports, ipc_pset_remove

LEMMA ReceiveKeeps ==
    ASSUME LinkInv, NEW r \in Receivers, NEW q \in Queues, NEW how \in RcvWaits,
           NEW buf \in Buffers, Receive(r, q, how, buf)
    PROVE  LinkInv'
<1>1. how \in Hows /\ buf \in Bufs
  BY MqueueAssumption DEF Hows, Bufs
<1>2. th[r].ith_state # "in_progress"
  <2>1. ReceiverOK(th[r]) /\ th[r].pc = "idle"
    BY DEF LinkInv, ReceiversOK, Receive
  <2>2. QED
    BY <2>1 DEF ReceiverOK
<1>3. Counters
  BY DEF LinkInv, Shapes, Counters, Receive
<1>4. CASE /\ q \in Ports => ip[q].right = "held" /\ ip[q].pset = None
           /\ ReceiveLoop(r, q, how, buf, ip, imq)
  <2>1. Found(r, ip, imq)
    BY <1>2, FoundIdle
  <2>2. QED
    BY <1>1, <1>3, <1>4, <2>1, ReceiveLoopKeeps
<1>5. CASE /\ q \in Ports /\ ip[q].right = "held" /\ ip[q].pset # None
           /\ ReceiveLoop(r, q, how, buf, [ip EXCEPT ![q].pset = None], ipc_pset_remove(q))
  <2>1. PICK ports, queues : ports = [ip EXCEPT ![q].pset = None] /\ queues = ipc_pset_remove(q)
    OBVIOUS
  <2>2. Found(r, ports, queues)
    BY <1>2, <1>5, <2>1, FoundTakenOut
  <2>3. ports[q].right = "held" /\ ports[q].pset = None
    BY <1>5, <2>1, PortTypes DEF PortShape
  <2>4. ReceiveLoop(r, q, how, buf, ports, queues)
    BY <1>5, <2>1
  <2>5. QED
    BY <1>1, <1>3, <2>2, <2>3, <2>4, ReceiveLoopKeeps
<1>6. None \notin Psets /\ (q \in Psets => q \notin Ports)
  BY MqueueAssumption
<1>7. QED
  BY <1>4, <1>5, <1>6 DEF Receive

\* A thread that waits takes itself out of the queue.
LEMMA FoundWithdrawn ==
    ASSUME LinkInv, NEW r \in Receivers, th[r].ith_state = "in_progress", NEW queues,
           queues = [imq EXCEPT ![th[r].mq].threads = Unlinked(@, r)]
    PROVE  Found(r, ip, queues) /\ th[r].mq \in Queues
<1>1. PICK q : q = th[r].mq
  OBVIOUS
<1>2. q \in Queues
  <2>1. ReceiverOK(th[r]) /\ th[r] \in ThreadRecord
    BY ThreadTypes DEF LinkInv, ReceiversOK
  <2>2. QED
    BY <1>1, <2>1 DEF ReceiverOK, ThreadRecord
<1>3. /\ Unlinked(imq[q].threads, r) \in Seq(Receivers)
      /\ Members(Unlinked(imq[q].threads, r)) = Members(imq[q].threads) \ {r}
      /\ Once(Unlinked(imq[q].threads, r))
  <2>1. imq[q].threads \in Seq(Receivers) /\ Once(imq[q].threads)
    BY <1>2, QueueTypes DEF LinkInv, ReceiverLinks
  <2>2. QED
    BY <2>1, UnlinkedMembers
<1>4. PICK rest : rest = Unlinked(imq[q].threads, r)
  OBVIOUS
<1>5. /\ queues \in [Queues -> QueueRecord] /\ queues[q].threads = rest
      /\ \A x \in Queues : queues[x].messages = imq[x].messages
      /\ \A x \in Queues \ {q} : queues[x] = imq[x]
  BY <1>1, <1>2, <1>3, <1>4 DEF LinkInv, Shapes, QueueRecord
<1>6. ASSUME NEW x \in Queues
      PROVE  /\ Once(queues[x].threads)
             /\ Members(queues[x].threads) = Members(imq[x].threads) \ {r}
  <2>1. CASE x = q
    BY <1>3, <1>4, <1>5, <2>1
  <2>2. CASE x # q
    BY <1>1, <1>5, <2>2 DEF LinkInv, ReceiverLinks, WaitingAt
  <2>3. QED
    BY <2>1, <2>2
<1>7. ASSUME NEW x \in Queues, imq[x].threads = <<>>
      PROVE  queues[x].threads = <<>>
  <2>1. Members(queues[x].threads) = {}
    BY <1>6, <1>7, NoMembers
  <2>2. queues[x].threads \in Seq(Receivers)
    BY <1>5 DEF QueueRecord
  <2>3. QED
    BY <2>1, <2>2, NoMembers
<1>8. ASSUME NEW x \in Queues, NEW m \in Members(queues[x].messages)
      PROVE  /\ m.port \in Ports /\ ip_active(m.port)
             /\ x = IF ip[m.port].pset = None THEN m.port ELSE ip[m.port].pset
  <2>1. m \in Members(imq[x].messages)
    BY <1>5
  <2>2. m \in Messages
    BY <2>1, QueueTypes, NoMembers
  <2>3. QED
    BY <2>1, <2>2, MessageShape DEF LinkInv, MessagesPlaced, MqueueOf
<1>9. ASSUME NEW x \in Ports
      PROVE  /\ ip[x].pset # None \/ ip[x].right # "held" => queues[x].threads = <<>>
             /\ ip[x].right # "held" => ip[x].pset = None
  BY <1>7 DEF LinkInv, PortsOK, Queues
<1>10. ASSUME NEW x \in Queues
       PROVE  queues[x].messages # <<>> => queues[x].threads = <<>>
  BY <1>5, <1>7 DEF LinkInv, NoReceiverBesideMessage
<1>11. ip \in [Ports -> PortShape]
  BY DEF LinkInv, Shapes
<1>12. QED
  BY <1>1, <1>2, <1>5, <1>6, <1>8, <1>9, <1>10, <1>11 DEF Found

LEMMA ReceiveResumeKeeps ==
    ASSUME LinkInv, NEW r \in Threads, ReceiveResume(r)
    PROVE  LinkInv'
<1>1. /\ r \in Receivers /\ th[r].pc = "blocked" /\ th[r].wait # "waiting" /\ Counters
      /\ ReceiverOK(th[r])
  BY DEF ReceiveResume, LinkInv, Shapes, Counters, ReceiversOK
<1>2. ASSUME NEW queues, Found(r, ip, queues), th' = Return(th, r), ip' = ip, imq' = queues
      PROVE  LinkInv'
  <2>1. /\ th' \in [Threads -> ThreadRecord] /\ th'[r] = Idle
        /\ \A u \in Threads \ {r} : th'[u] = th[u]
    BY <1>2, ThreadTypes, ReturnShape
  <2>2. ReceiverOK(th'[r]) /\ th'[r].ith_state # "in_progress"
    BY <2>1, IdleShape
  <2>3. ip' \in [Ports -> PortShape] /\ imq' \in [Queues -> QueueRecord]
    BY <1>2 DEF Found
  <2>4. Answers(r, ip, queues)
    BY <1>2, <2>1, <2>2, <2>3 DEF Answers
  <2>5. QED
    BY <1>1, <1>2, <2>4, ReceiverAnswered
<1>3. CASE /\ \/ th[r].ith_state = "success"
              \/ th[r].ith_state = "too_large" /\ th[r].buf # "large"
           /\ th' = [th EXCEPT ![r].pc = "got"] /\ ip' = ip /\ imq' = imq
  <2>1. Found(r, ip, imq)
    BY <1>1, <1>3, FoundIdle
  <2>2. /\ th' \in [Threads -> ThreadRecord]
        /\ \A u \in Threads \ {r} : th'[u] = th[u]
    BY <1>3, ThreadTypes DEF ThreadRecord
  <2>3. th'[r] = [th[r] EXCEPT !.pc = "got"] /\ th[r] \in ThreadRecord
    BY <1>3, ThreadTypes
  <2>4. ReceiverOK(th'[r]) /\ th'[r].ith_state # "in_progress"
    BY <1>1, <1>3, <2>3 DEF ReceiverOK, ThreadRecord
  <2>5. ip' \in [Ports -> PortShape] /\ imq' \in [Queues -> QueueRecord]
    BY <1>3, <2>1 DEF Found
  <2>6. Answers(r, ip, imq)
    BY <1>3, <2>2, <2>4, <2>5 DEF Answers
  <2>7. QED
    BY <1>1, <2>1, <2>6, ReceiverAnswered
<1>4. CASE /\ th[r].ith_state # "in_progress"
           /\ th' = Return(th, r) /\ ip' = ip /\ imq' = imq
  <2>1. Found(r, ip, imq)
    BY <1>1, <1>4, FoundIdle
  <2>2. QED
    BY <1>2, <1>4, <2>1
<1>5. ASSUME th[r].ith_state = "in_progress",
             NEW queues, queues = [imq EXCEPT ![th[r].mq].threads = Unlinked(@, r)],
             \/ th' = Return(th, r) /\ ip' = ip /\ imq' = queues
             \/ ReceiveLoop(r, th[r].mq, "poll", th[r].buf, ip, queues)
      PROVE  LinkInv'
  <2>1. Found(r, ip, queues) /\ th[r].mq \in Queues
    BY <1>1, <1>5, FoundWithdrawn
  <2>2. CASE th' = Return(th, r) /\ ip' = ip /\ imq' = queues
    BY <1>2, <2>1, <2>2
  <2>3. CASE ReceiveLoop(r, th[r].mq, "poll", th[r].buf, ip, queues)
    <3>1. PICK q, how, buf : q = th[r].mq /\ how = "poll" /\ buf = th[r].buf
      OBVIOUS
    <3>2. q \in Queues /\ how \in Hows /\ buf \in Bufs
      BY <2>1, <3>1, ThreadTypes DEF ThreadRecord, Hows, Bufs
    <3>3. ReceiveLoop(r, q, how, buf, ip, queues)
      BY <2>3, <3>1
    <3>4. how # "poll" /\ q \in Ports => ip[q].right = "held" /\ ip[q].pset = None
      BY <3>1
    <3>5. QED
      BY <1>1, <2>1, <3>2, <3>3, <3>4, ReceiveLoopKeeps
  <2>4. QED
    BY <1>5, <2>2, <2>3
<1>6. PICK queues : queues = [imq EXCEPT ![th[r].mq].threads = Unlinked(@, r)]
  OBVIOUS
<1>7. QED
  BY <1>3, <1>4, <1>5, <1>6 DEF ReceiveResume

-----------------------------------------------------------------------------
(* The invariant.                                                          *)

LEMMA LinkInvInit == Init => LinkInv
<1> SUFFICES ASSUME Init PROVE LinkInv
  OBVIOUS
<1>1. \A p \in Ports : ip[p].blocked = <<>> /\ ip[p].right = "held" /\ ip[p].pset = None
  BY DEF Init
<1>2. \A q \in Queues : imq[q].messages = <<>> /\ imq[q].threads = <<>>
  BY DEF Init
<1>3. \A t \in Threads : th[t] = Idle
  BY DEF Init
<1>4. Shapes
  <2>1. <<>> \in Seq(Senders) /\ <<>> \in Seq(Receivers) /\ <<>> \in Seq(Messages)
    OBVIOUS
  <2>2. ip \in [Ports -> PortShape]
    BY <2>1, MqueueAssumption DEF Init, PortShape
  <2>3. imq \in [Queues -> QueueRecord]
    BY <2>1 DEF Init, QueueRecord
  <2>4. th \in [Threads -> ThreadRecord]
    BY IdleShape DEF Init
  <2>5. sent \in 0 .. MaxSends /\ ops \in 0 .. MaxOps /\ ips_active \in SUBSET Psets
    BY MqueueAssumption DEF Init
  <2>6. QED
    BY <2>2, <2>3, <2>4, <2>5 DEF Shapes
<1>5. SendersOK /\ ReceiversOK
  BY <1>3, IdleShape DEF SendersOK, ReceiversOK, Threads
<1>6. SenderLinks
  <2>1. \A p \in Ports : BlockedAt(p) = {}
    BY <1>3, IdleShape DEF BlockedAt, Threads
  <2>2. QED
    BY <1>1, <2>1, NoMembers DEF SenderLinks
<1>7. ReceiverLinks
  <2>1. \A q \in Queues : WaitingAt(q) = {}
    BY <1>3, IdleShape DEF WaitingAt, Threads
  <2>2. QED
    BY <1>2, <2>1, NoMembers DEF ReceiverLinks
<1>8. PortsOK
  BY <1>1 DEF PortsOK
<1>9. Circulars
  BY <1>3, IdleShape DEF Circulars, Carries, Threads
<1>10. MessagesPlaced
  BY <1>2, NoMembers DEF MessagesPlaced
<1>11. NoReceiverBesideMessage
  BY <1>2 DEF NoReceiverBesideMessage
<1>12. QED
  BY <1>4, <1>5, <1>6, <1>7, <1>8, <1>9, <1>10, <1>11 DEF LinkInv

LEMMA LinkInvStutters ==
    ASSUME LinkInv, UNCHANGED vars
    PROVE  LinkInv'
BY DEF LinkInv, vars, Shapes, SendersOK, SenderLinks, BlockedAt, ReceiversOK, ReceiverLinks,
       WaitingAt, PortsOK, Circulars, Carries, MessagesPlaced, ip_active, MqueueOf,
       NoReceiverBesideMessage

LEMMA LinkInvStep == LinkInv /\ [Next]_vars => LinkInv'
<1> SUFFICES ASSUME LinkInv, [Next]_vars PROVE LinkInv'
  OBVIOUS
<1>1. ASSUME NEW t \in Senders, NEW p \in Ports, NEW how \in SendWaits, NEW big \in Sizes,
             Send(t, p, how, big)
      PROVE  LinkInv'
  BY <1>1, SendTries, TryKeeps
<1>2. ASSUME NEW t \in Senders, NEW p \in Ports, NEW how \in SendWaits, CopyinReceive(t, p, how)
      PROVE  LinkInv'
  BY <1>2, CopyinReceiveKeeps
<1>3. ASSUME NEW r \in Receivers, NEW q \in Queues, NEW how \in RcvWaits, NEW buf \in Buffers,
             Receive(r, q, how, buf)
      PROVE  LinkInv'
  BY <1>3, ReceiveKeeps
<1>4. ASSUME NEW t \in Threads, SendCopied(t) PROVE LinkInv'
  BY <1>4, SendCopiedTries, TryKeeps
<1>5. ASSUME NEW t \in Threads, SendResume(t) PROVE LinkInv'
  BY <1>5, SendResumeTries, TryKeeps
<1>6. ASSUME NEW t \in Threads, ReceiveResume(t) PROVE LinkInv'
  BY <1>6, ReceiveResumeKeeps
<1>7. ASSUME NEW t \in Threads, ReceiveDone(t) PROVE LinkInv'
  BY <1>7, ReceiveDoneKeeps
<1>8. ASSUME NEW t \in Threads, Timeout(t) \/ Interrupt(t) PROVE LinkInv'
  BY <1>8, TimeoutKeeps, InterruptKeeps
<1>9. ASSUME NEW p \in Ports, NEW qlimit \in QLimits, SetQlimit(p, qlimit) PROVE LinkInv'
  BY <1>9, SetQlimitKeeps
<1>10. ASSUME NEW p \in Ports, NEW s \in Psets, PsetAdd(p, s) PROVE LinkInv'
  BY <1>10, PsetAddKeeps
<1>11. ASSUME NEW p \in Ports, PsetRemove(p) \/ PortDestroy(p) PROVE LinkInv'
  BY <1>11, PsetRemoveKeeps, PortDestroyKeeps
<1>12. ASSUME NEW s \in Psets, PsetDestroy(s) PROVE LinkInv'
  BY <1>12, PsetDestroyKeeps
<1>13. CASE UNCHANGED vars
  BY <1>13, LinkInvStutters
<1>14. QED
  BY <1>1, <1>2, <1>3, <1>4, <1>5, <1>6, <1>7, <1>8, <1>9, <1>10, <1>11, <1>12, <1>13
     DEF Next, Step

(* In every reachable state of every instance of the message queues the    *)
(* threads, queues, rights and messages are linked as LinkInv says: the    *)
(* inductive invariant of ipc_mqueue_send, _receive, _move and _changed.   *)
THEOREM LinkInvariance == Spec => []LinkInv
<1>1. QED
  BY LinkInvInit, LinkInvStep, PTL DEF Spec

\* A queue without repetitions holds an element once or not at all.
LEMMA OnceIn ==
    ASSUME NEW S, NEW s \in Seq(S), Once(s), NEW t
    PROVE  Cardinality({i \in DOMAIN s : s[i] = t}) = IF t \in Members(s) THEN 1 ELSE 0
<1>1. CASE t \in Members(s)
  <2>1. PICK i \in DOMAIN s : s[i] = t
    BY <1>1 DEF Members
  <2>2. {k \in DOMAIN s : s[k] = t} = {i}
    BY <2>1 DEF Once
  <2>3. QED
    BY <1>1, <2>2, FS_Singleton
<1>2. CASE t \notin Members(s)
  <2>1. {k \in DOMAIN s : s[k] = t} = {}
    BY <1>2 DEF Members
  <2>2. QED
    BY <1>2, <2>1, FS_EmptySet
<1>3. QED
  BY <1>1, <1>2

(* A sender is linked in ip_blocked, and a receiver in imq_threads, once,  *)
(* exactly while its ith_state is MACH_*_IN_PROGRESS: timeouts, aborts,    *)
(* deaths, moves and changes of the limit never leave a stale link and     *)
(* never hand a message or a turn to a thread that has left.               *)
THEOREM WaitersStayQueued == Spec => []WaitersQueued
<1>1. LinkInv => WaitersQueued
  <2> SUFFICES ASSUME LinkInv PROVE WaitersQueued
    OBVIOUS
  <2>1. ASSUME NEW t \in Senders, NEW p \in Ports
        PROVE  Cardinality({i \in DOMAIN ip[p].blocked : ip[p].blocked[i] = t}) =
                 IF th[t].ith_state = "in_progress" /\ th[t].kmsg.port = p THEN 1 ELSE 0
    <3>1. ip[p].blocked \in Seq(Senders) /\ Once(ip[p].blocked)
      BY PortTypes DEF LinkInv, SenderLinks
    <3>2. t \in Members(ip[p].blocked) <=> th[t].ith_state = "in_progress" /\ th[t].kmsg.port = p
      BY DEF LinkInv, SenderLinks, BlockedAt
    <3>3. QED
      BY <3>1, <3>2, OnceIn
  <2>2. ASSUME NEW r \in Receivers, NEW q \in Queues
        PROVE  Cardinality({i \in DOMAIN imq[q].threads : imq[q].threads[i] = r}) =
                 IF th[r].ith_state = "in_progress" /\ th[r].mq = q THEN 1 ELSE 0
    <3>1. imq[q].threads \in Seq(Receivers) /\ Once(imq[q].threads)
      BY QueueTypes DEF LinkInv, ReceiverLinks
    <3>2. r \in Members(imq[q].threads) <=> th[r].ith_state = "in_progress" /\ th[r].mq = q
      BY DEF LinkInv, ReceiverLinks, WaitingAt
    <3>3. QED
      BY <3>1, <3>2, OnceIn
  <2>3. ASSUME NEW t \in Threads, th[t].wait = "waiting"
        PROVE  th[t].ith_state = "in_progress"
    BY <2>3 DEF LinkInv, SendersOK, ReceiversOK, SenderOK, ReceiverOK, Threads
  <2>4. QED
    BY <2>1, <2>2, <2>3 DEF WaitersQueued
<1>2. QED
  BY <1>1, LinkInvariance, PTL

(* The messages of a port are in the queue its receivers look at, wherever *)
(* ipc_pset_move and a dying set took it, and a dead port has none.        *)
THEOREM MessagesFollow == Spec => []NoneLeftBehind
<1>1. LinkInv => NoneLeftBehind
  <2> SUFFICES ASSUME LinkInv, NEW p \in Ports, NEW q \in Queues,
                      SentTo(p, imq[q].messages) # <<>>
               PROVE  ip_active(p) /\ q = MqueueOf(p)
    BY DEF NoneLeftBehind
  <2>1. /\ SentTo(p, imq[q].messages) \in Seq(Messages)
        /\ Members(SentTo(p, imq[q].messages)) = {m \in Members(imq[q].messages) : m.port = p}
    BY QueueTypes, SentMembers
  <2>2. PICK m \in Members(imq[q].messages) : m.port = p
    BY <2>1, NoMembers
  <2>3. QED
    BY <2>2 DEF LinkInv, MessagesPlaced
<1>2. QED
  BY <1>1, LinkInvariance, PTL

(* A queue never holds a message and a waiting receiver: what the          *)
(* assertions ipc_kmsg_queue_empty of ipc_mqueue.c rely on.                *)
THEOREM MessagesFindReceivers == Spec => []NoReceiverBesideMessage
<1>1. LinkInv => NoReceiverBesideMessage
  BY DEF LinkInv
<1>2. QED
  BY <1>1, LinkInvariance, PTL

-----------------------------------------------------------------------------
(* Counting the messages of a port.                                        *)

At(p, ms) == {i \in DOMAIN ms : ms[i].port = p}
Num(p, ms) == Len(SentTo(p, ms))

LEMMA SameCardinality ==
    ASSUME NEW S, NEW T, IsFiniteSet(S), NEW f \in [S -> T],
           \A a, b \in S : f[a] = f[b] => a = b,
           \A t \in T : \E a \in S : f[a] = t
    PROVE  IsFiniteSet(T) /\ Cardinality(T) = Cardinality(S)
<1>1. f \in Surjection(S, T) /\ f \in Injection(S, T)
  BY DEF Surjection, Injection, IsInjective
<1>2. QED
  BY <1>1, FS_Surjection

LEMMA NumIsPositions ==
    ASSUME NEW ms \in Seq(Messages), NEW p
    PROVE  /\ IsFiniteSet(At(p, ms)) /\ Num(p, ms) = Cardinality(At(p, ms))
           /\ Num(p, ms) \in Nat
<1> DEFINE I == {i \in DOMAIN ms : ms[i].port # p}
<1>1. DOMAIN ms = 1 .. Len(ms) /\ Len(ms) \in Nat
  BY LenProperties
<1>2. I \in SUBSET DOMAIN ms /\ At(p, ms) = DOMAIN ms \ I /\ DOMAIN ms \cap I = I
  BY DEF At
<1>3. SentTo(p, ms) = Without(ms, I)
  BY DEF SentTo
<1> HIDE DEF I
<1>4. Cardinality(I) \in Nat /\ Len(Without(ms, I)) = Len(ms) - Cardinality(I)
  BY <1>2, WithoutProperties
<1>5. IsFiniteSet(DOMAIN ms) /\ Cardinality(DOMAIN ms) = Len(ms)
  BY <1>1, FS_Interval
<1>6. /\ IsFiniteSet(DOMAIN ms \ I)
      /\ Cardinality(DOMAIN ms \ I) = Cardinality(DOMAIN ms) - Cardinality(DOMAIN ms \cap I)
  BY <1>5, FS_Difference
<1>7. Cardinality(At(p, ms)) \in Nat
  BY <1>2, <1>6, FS_CardinalityType
<1>8. QED
  BY <1>2, <1>3, <1>4, <1>5, <1>6, <1>7 DEF Num

\* All, or none, of the messages are for p.
LEMMA NumUniform ==
    ASSUME NEW ms \in Seq(Messages), NEW p
    PROVE  /\ (\A m \in Members(ms) : m.port = p) => Num(p, ms) = Len(ms)
           /\ (\A m \in Members(ms) : m.port # p) => Num(p, ms) = 0
<1>1. DOMAIN ms = 1 .. Len(ms) /\ Len(ms) \in Nat
  BY LenProperties
<1>2. IsFiniteSet(DOMAIN ms) /\ Cardinality(DOMAIN ms) = Len(ms)
  BY <1>1, FS_Interval
<1>3. Num(p, ms) = Cardinality(At(p, ms))
  BY NumIsPositions
<1>4. ASSUME \A m \in Members(ms) : m.port = p PROVE Num(p, ms) = Len(ms)
  <2>1. At(p, ms) = DOMAIN ms
    BY <1>4 DEF At, Members
  <2>2. QED
    BY <1>2, <1>3, <2>1
<1>5. ASSUME \A m \in Members(ms) : m.port # p PROVE Num(p, ms) = 0
  <2>1. At(p, ms) = {}
    BY <1>5 DEF At, Members
  <2>2. QED
    BY <1>3, <2>1, FS_EmptySet
<1>6. QED
  BY <1>4, <1>5

LEMMA NumConcat ==
    ASSUME NEW s \in Seq(Messages), NEW t \in Seq(Messages), NEW p
    PROVE  Num(p, s \o t) = Num(p, s) + Num(p, t)
<1> DEFINE n == Len(s)
           u == s \o t
           K == {i \in DOMAIN u : i > n /\ u[i].port = p}
           f == [j \in At(p, t) |-> n + j]
<1>1. /\ DOMAIN s = 1 .. n /\ n \in Nat /\ DOMAIN t = 1 .. Len(t) /\ Len(t) \in Nat
      /\ u \in Seq(Messages) /\ DOMAIN u = 1 .. n + Len(t)
      /\ \A i \in 1 .. n : u[i] = s[i]
      /\ \A j \in 1 .. Len(t) : u[n + j] = t[j]
  BY LenProperties, ConcatProperties
<1> HIDE DEF n, u
<1>2. At(p, u) = At(p, s) \cup K /\ At(p, s) \cap K = {}
  BY <1>1 DEF At
<1>3. /\ f \in [At(p, t) -> K]
      /\ \A a, b \in At(p, t) : f[a] = f[b] => a = b
  BY <1>1 DEF At
<1>4. ASSUME NEW i \in K PROVE \E j \in At(p, t) : f[j] = i
  <2>1. i - n \in 1 .. Len(t) /\ n + (i - n) = i
    BY <1>1
  <2>2. i - n \in At(p, t)
    BY <1>1, <2>1 DEF At
  <2>3. QED
    BY <2>1, <2>2
<1>5. IsFiniteSet(At(p, t)) /\ IsFiniteSet(At(p, s))
  BY NumIsPositions
<1> HIDE DEF K, f
<1>6. IsFiniteSet(K) /\ Cardinality(K) = Cardinality(At(p, t))
  BY <1>3, <1>4, <1>5, SameCardinality
<1>7. Cardinality(At(p, u)) = Cardinality(At(p, s)) + Cardinality(K) - Cardinality(At(p, s) \cap K)
  BY <1>2, <1>5, <1>6, FS_Union
<1>8. Cardinality(At(p, s) \cap K) = 0
  BY <1>2, FS_EmptySet
<1>9. /\ Num(p, u) = Cardinality(At(p, u)) /\ Num(p, s) = Cardinality(At(p, s))
      /\ Num(p, t) = Cardinality(At(p, t))
      /\ Num(p, s) \in Nat /\ Num(p, t) \in Nat
  BY <1>1, NumIsPositions
<1>10. QED
  BY <1>6, <1>7, <1>8, <1>9 DEF u

LEMMA NumTail ==
    ASSUME NEW ms \in Seq(Messages), ms # <<>>, NEW p
    PROVE  Num(p, ms) = Num(p, Tail(ms)) + IF Head(ms).port = p THEN 1 ELSE 0
<1>1. PICK m : m = Head(ms)
  OBVIOUS
<1>2. m \in Messages /\ Tail(ms) \in Seq(Messages)
  BY <1>1, TailMembers
<1>3. ms = <<m>> \o Tail(ms) /\ <<m>> \in Seq(Messages)
  BY <1>1, <1>2, HeadTailProperties
<1>4. Members(<<m>>) = {m} /\ Len(<<m>>) = 1
  BY DEF Members
<1>5. Num(p, <<m>>) = IF m.port = p THEN 1 ELSE 0
  BY <1>3, <1>4, NumUniform
<1>6. Num(p, ms) = Num(p, <<m>>) + Num(p, Tail(ms))
  BY <1>2, <1>3, NumConcat
<1>7. Num(p, <<m>>) \in Nat /\ Num(p, Tail(ms)) \in Nat
  BY <1>2, <1>3, NumIsPositions
<1>8. QED
  BY <1>1, <1>5, <1>6, <1>7

LEMMA NumSplit ==
    ASSUME NEW ms \in Seq(Messages), NEW p, NEW x
    PROVE  /\ Num(x, SentTo(p, ms)) = IF x = p THEN Num(p, ms) ELSE 0
           /\ Num(x, SentElsewhere(p, ms)) = IF x = p THEN 0 ELSE Num(x, ms)
<1>1. /\ SentTo(p, ms) \in Seq(Messages) /\ SentElsewhere(p, ms) \in Seq(Messages)
      /\ Members(SentTo(p, ms)) = {m \in Members(ms) : m.port = p}
      /\ Members(SentElsewhere(p, ms)) = {m \in Members(ms) : m.port # p}
  BY SentMembers
<1>2. Num(x, SentTo(p, ms)) = IF x = p THEN Num(p, ms) ELSE 0
  <2>1. CASE x = p
    BY <1>1, <2>1, NumUniform DEF Num
  <2>2. CASE x # p
    BY <1>1, <2>2, NumUniform
  <2>3. QED
    BY <2>1, <2>2
<1>3. CASE x = p
  BY <1>1, <1>2, <1>3, NumUniform
<1>4. CASE x # p
  <2> DEFINE I == {i \in DOMAIN ms : ms[i].port = p}
             w == Without(ms, I)
             S == At(x, w)
             T == At(x, ms)
  <2>1. I \in SUBSET DOMAIN ms /\ w = SentElsewhere(p, ms)
    BY DEF SentElsewhere
  <2>2. T \subseteq DOMAIN ms \ I
    BY <1>4 DEF At
  <2> HIDE DEF I
  <2>3. PICK g \in [DOMAIN w -> DOMAIN ms \ I] :
          /\ \A j, k \in DOMAIN g : j < k => g[j] < g[k]
          /\ \A i \in DOMAIN ms \ I : \E j \in DOMAIN g : g[j] = i
          /\ \A j \in DOMAIN g : w[j] = ms[g[j]]
    BY <2>1, WithoutProperties
  <2> HIDE DEF w
  <2>4. w \in Seq(Messages) /\ DOMAIN w = 1 .. Len(w) /\ Len(w) \in Nat
    BY <1>1, <2>1, LenProperties
  <2>5. DOMAIN g = DOMAIN w
    BY <2>3
  <2> DEFINE f == [j \in S |-> g[j]]
  <2>6. f \in [S -> T]
    BY <2>3, <2>5 DEF At
  <2>7. ASSUME NEW a \in S, NEW b \in S, f[a] = f[b] PROVE a = b
    <3>1. a \in Nat /\ b \in Nat /\ a \in DOMAIN g /\ b \in DOMAIN g /\ g[a] = g[b]
      BY <2>4, <2>5, <2>7 DEF At
    <3>2. DOMAIN ms = 1 .. Len(ms) /\ Len(ms) \in Nat
      BY LenProperties
    <3>3. g[a] \in Nat
      BY <2>3, <3>1, <3>2
    <3>4. ~(a < b) /\ ~(b < a)
      BY <2>3, <3>1, <3>3
    <3>5. QED
      BY <3>1, <3>4
  <2>8. ASSUME NEW i \in T PROVE \E j \in S : f[j] = i
    <3>1. PICK j \in DOMAIN g : g[j] = i
      BY <2>2, <2>3
    <3>2. j \in S
      BY <2>3, <2>5, <3>1 DEF At
    <3>3. QED
      BY <3>1, <3>2
  <2>9. IsFiniteSet(S) /\ Num(x, w) = Cardinality(S) /\ Num(x, ms) = Cardinality(T)
    BY <2>4, NumIsPositions
  <2> HIDE DEF S, T, f
  <2>10. Cardinality(T) = Cardinality(S)
    BY <2>6, <2>7, <2>8, <2>9, SameCardinality
  <2>11. QED
    BY <1>2, <1>4, <2>1, <2>9, <2>10
<1>5. QED
  BY <1>3, <1>4

-----------------------------------------------------------------------------
(* What a step does to the counts, and to the turns of the senders.        *)

\* p has so many messages more in its queue, and in the hands of receivers.
Shift(p, queued, inhand) ==
    /\ Num(p, imq'[MqueueOf(p)'].messages) = Num(p, imq[MqueueOf(p)].messages) + queued
    /\ Cardinality(InHand(p)') = Cardinality(InHand(p)) + inhand
    /\ ip'[p].msgcount = ip[p].msgcount + (queued + inhand)

\* The count of a live port is kept exact, that of a dead one left alone.
CountedAt(p) ==
    /\ ip'[p].right # "dead" => /\ ip[p].right # "dead"
                                /\ \E queued, inhand \in Int : Shift(p, queued, inhand)
    /\ ip'[p].right = "dead" => ip'[p].msgcount = ip[p].msgcount
Counted == \A p \in Ports : CountedAt(p)

\* The messages at p, counted or promised, beyond its limit.
Spare(p) == ip[p].msgcount + Cardinality(Turns(p)) - ip[p].qlimit

\* A sender sleeps at a full port; or else the room there is was promised
\* before, and the step makes no more of it.
PromisedAt(p) ==
    ip'[p].blocked # <<>> => \/ ip'[p].msgcount >= ip'[p].qlimit
                             \/ ip[p].blocked # <<>> /\ Spare(p)' >= Spare(p)
Promised == \A p \in Ports : PromisedAt(p)

CountInv == CountExact /\ \A p \in Ports : ip[p].msgcount \in Nat

LEMMA FiniteThreads ==
    ASSUME NEW p
    PROVE  /\ IsFiniteSet(InHand(p)) /\ Cardinality(InHand(p)) \in Nat
           /\ IsFiniteSet(Turns(p)) /\ Cardinality(Turns(p)) \in Nat
<1>1. InHand(p) \in SUBSET Receivers /\ Turns(p) \in SUBSET Senders
  BY DEF InHand, Turns
<1>2. IsFiniteSet(InHand(p)) /\ IsFiniteSet(Turns(p))
  BY <1>1, MqueueAssumption, FS_Subset
<1>3. QED
  BY <1>2, FS_CardinalityType

LEMMA FiniteThreadsNext ==
    ASSUME NEW p
    PROVE  /\ IsFiniteSet(InHand(p)') /\ Cardinality(InHand(p)') \in Nat
           /\ IsFiniteSet(Turns(p)') /\ Cardinality(Turns(p)') \in Nat
<1>1. InHand(p)' \in SUBSET Receivers /\ Turns(p)' \in SUBSET Senders
  BY DEF InHand, Turns
<1>2. IsFiniteSet(InHand(p)') /\ IsFiniteSet(Turns(p)')
  BY <1>1, MqueueAssumption, FS_Subset
<1>3. QED
  BY <1>2, FS_CardinalityType

LEMMA CountsStayExact ==
    ASSUME LinkInv, LinkInv', CountInv, Counted
    PROVE  CountInv'
<1>1. ASSUME NEW p \in Ports
      PROVE  /\ ip_active(p)' => ip'[p].msgcount = Len(Queued(p)') + Cardinality(InHand(p)')
             /\ ip'[p].msgcount \in Nat
  <2>1. CASE ip'[p].right = "dead"
    BY <2>1 DEF Counted, CountedAt, CountInv, ip_active
  <2>2. CASE ip'[p].right # "dead"
    <3>1. PICK queued \in Int, inhand \in Int : Shift(p, queued, inhand)
      BY <2>2 DEF Counted, CountedAt
    <3>2. ip[p].right # "dead"
      BY <2>2 DEF Counted, CountedAt
    <3>3. ip[p].msgcount = Num(p, imq[MqueueOf(p)].messages) + Cardinality(InHand(p))
      BY <3>2 DEF CountInv, CountExact, ip_active, Queued, Num
    <3>4. /\ Num(p, imq[MqueueOf(p)].messages) \in Nat
          /\ Cardinality(InHand(p)) \in Nat /\ Cardinality(InHand(p)') \in Nat
      BY PortTypes, QueueTypes, NumIsPositions, FiniteThreads, FiniteThreadsNext
    <3>5. Num(p, imq'[MqueueOf(p)'].messages) \in Nat
      <4>1. imq'[MqueueOf(p)'].messages \in Seq(Messages)
        BY DEF LinkInv, Shapes, MqueueOf, Queues, PortShape, QueueRecord
      <4>2. QED
        BY <4>1, NumIsPositions
    <3>6. ip'[p].msgcount = Num(p, imq'[MqueueOf(p)'].messages) + Cardinality(InHand(p)')
      BY <3>1, <3>3, <3>4, <3>5 DEF Shift
    <3>7. Len(Queued(p)') = Num(p, imq'[MqueueOf(p)'].messages)
      BY DEF Queued, Num, SentTo
    <3>8. QED
      BY <3>4, <3>5, <3>6, <3>7
  <2>3. QED
    BY <2>1, <2>2
<1>2. QED
  BY <1>1 DEF CountInv, CountExact

LEMMA PromisesKept ==
    ASSUME LinkInv, LinkInv', NoSenderBelowLimit, Promised
    PROVE  NoSenderBelowLimit'
<1> SUFFICES ASSUME NEW p \in Ports, ip'[p].blocked # <<>>
             PROVE  ip'[p].msgcount + Cardinality(Turns(p)') >= ip'[p].qlimit
  BY DEF NoSenderBelowLimit
<1>1. /\ ip[p].msgcount \in Int /\ ip[p].qlimit \in Int
      /\ ip'[p].msgcount \in Int /\ ip'[p].qlimit \in Int
  BY DEF LinkInv, Shapes, PortShape
<1>2. Cardinality(Turns(p)) \in Nat /\ Cardinality(Turns(p)') \in Nat
  BY FiniteThreads, FiniteThreadsNext
<1>3. ip[p].blocked # <<>> => ip[p].msgcount + Cardinality(Turns(p)) >= ip[p].qlimit
  BY DEF NoSenderBelowLimit
<1>4. \/ ip'[p].msgcount >= ip'[p].qlimit
      \/ /\ ip[p].blocked # <<>>
         /\ ip'[p].msgcount + Cardinality(Turns(p)') - ip'[p].qlimit >=
              ip[p].msgcount + Cardinality(Turns(p)) - ip[p].qlimit
  BY DEF Promised, PromisedAt, Spare
<1>5. PICK c, n, l, c2, n2, l2 :
        /\ c = ip[p].msgcount /\ n = Cardinality(Turns(p)) /\ l = ip[p].qlimit
        /\ c2 = ip'[p].msgcount /\ n2 = Cardinality(Turns(p)') /\ l2 = ip'[p].qlimit
  OBVIOUS
<1>6. /\ c \in Int /\ l \in Int /\ c2 \in Int /\ l2 \in Int /\ n \in Nat /\ n2 \in Nat
      /\ \/ c2 >= l2
         \/ c + n >= l /\ c2 + n2 - l2 >= c + n - l
  BY <1>1, <1>2, <1>3, <1>4, <1>5
<1>7. c2 + n2 >= l2
  BY <1>6
<1>8. QED
  BY <1>5, <1>7

\* Nothing of p moves.
LEMMA CountKeptAt ==
    ASSUME LinkInv, NEW p \in Ports,
           \A r \in Receivers : th'[r].kmsg = th[r].kmsg,
           ip'[p].msgcount = ip[p].msgcount,
           ip'[p].right # "dead" =>
             /\ ip[p].right # "dead"
             /\ Num(p, imq'[MqueueOf(p)'].messages) = Num(p, imq[MqueueOf(p)].messages)
    PROVE  CountedAt(p)
<1>1. InHand(p)' = InHand(p)
  BY DEF InHand
<1>2. Cardinality(InHand(p)) \in Nat
  BY FiniteThreads
<1>3. Num(p, imq[MqueueOf(p)].messages) \in Nat
  BY PortTypes, QueueTypes, NumIsPositions
<1>4. ip[p].msgcount \in Int
  BY PortTypes
<1>5. PICK z : z = 0
  OBVIOUS
<1>6. ip'[p].right # "dead" => Shift(p, z, z)
  BY <1>1, <1>2, <1>3, <1>4, <1>5 DEF Shift
<1>7. z \in Int
  BY <1>5
<1>8. QED
  BY <1>6, <1>7 DEF CountedAt

LEMMA CountKept ==
    ASSUME LinkInv, imq' = imq,
           \A r \in Receivers : th'[r].kmsg = th[r].kmsg,
           \A p \in Ports : /\ ip'[p].msgcount = ip[p].msgcount /\ ip'[p].pset = ip[p].pset
                            /\ ip'[p].right = "dead" \/ ip[p].right # "dead"
    PROVE  Counted
<1> SUFFICES ASSUME NEW p \in Ports PROVE CountedAt(p)
  BY DEF Counted
<1>1. MqueueOf(p)' = MqueueOf(p)
  BY DEF MqueueOf
<1>2. QED
  BY <1>1, CountKeptAt

IsTurn(u, p) == u.pc = "blocked" /\ u.ith_state = "success" /\ u.kmsg.port = p

\* Nobody gets a turn at p, nobody uses one.
LEMMA PromiseKeptAt ==
    ASSUME LinkInv, NEW p \in Ports,
           \A t \in Senders : IsTurn(th'[t], p) <=> IsTurn(th[t], p),
           ip'[p].msgcount = ip[p].msgcount, ip'[p].qlimit = ip[p].qlimit,
           ip'[p].blocked # <<>> => ip[p].blocked # <<>>
    PROVE  PromisedAt(p)
<1>1. Turns(p)' = Turns(p)
  BY DEF Turns, IsTurn
<1>2. Cardinality(Turns(p)) \in Nat /\ ip[p].msgcount \in Int /\ ip[p].qlimit \in Int
  BY FiniteThreads, PortTypes
<1>3. Spare(p)' = Spare(p) /\ Spare(p) \in Int
  BY <1>1, <1>2 DEF Spare
<1>4. QED
  BY <1>3 DEF PromisedAt

LEMMA PromiseKept ==
    ASSUME LinkInv,
           \A t \in Senders : th'[t] = th[t],
           \A p \in Ports : /\ ip'[p].msgcount = ip[p].msgcount /\ ip'[p].qlimit = ip[p].qlimit
                            /\ ip'[p].blocked = ip[p].blocked
    PROVE  Promised
BY PromiseKeptAt DEF Promised

\* The messages ms for p arrive at q: h of them are handed over.
LEMMA DeliverCounts ==
    ASSUME LinkInv, NEW q \in Queues, NEW ms \in Seq(Messages), NEW p \in Ports,
           \A m \in Members(ms) : m.port = p,
           \A r \in Receivers : th'[r].kmsg = Receivers_go(Deliver(q, ms))[r].kmsg
    PROVE  LET d == Deliver(q, ms)
               h == Cardinality(d.handed)
           IN /\ h \in Nat /\ Len(ms) \in Nat
              /\ \A x \in Ports :
                   /\ Num(x, d.messages) =
                        Num(x, imq[q].messages) + IF x = p THEN Len(ms) - h ELSE 0
                   /\ Cardinality(InHand(x)') =
                        Cardinality(InHand(x)) + IF x = p THEN h ELSE 0
<1> DEFINE d == Deliver(q, ms)
           new == Receivers_go(d)
           h == Len(Chosen(q, ms))
           k == Len(ms)
           rest == SubSeq(ms, h + 1, k)
<1>1. imq[q] \in QueueRecord /\ Once(imq[q].threads) /\ Members(imq[q].threads) = WaitingAt(q)
  BY QueueTypes DEF LinkInv, ReceiverLinks
<1>2. imq[q].messages \in Seq(Messages)
  BY QueueTypes
<1>3. h \in 0 .. Len(ms) /\ d.messages = imq[q].messages \o rest
  BY <1>1, DeliverProperties
<1>4. Taken(d) \cup d.declined \subseteq Members(imq[q].threads)
  BY <1>1, DeliverProperties
<1>5. \A y \in d.handed : \E j \in 1 .. h : y = <<y[1], ms[j]>>
  BY <1>1, DeliverProperties
<1>6. Cardinality(d.handed) = h /\ IsFiniteSet(Taken(d)) /\ Cardinality(Taken(d)) = h
  BY <1>1, DeliverProperties
<1>7. \A t \in Threads :
        /\ t \in Taken(d) => new[t].kmsg \in Messages /\ <<t, new[t].kmsg>> \in d.handed
        /\ t \in d.declined => new[t].kmsg = th[t].kmsg
        /\ t \notin Taken(d) \cup d.declined => new[t] = th[t]
  BY ReceiversGo
<1>8. \A r \in Receivers : th'[r].kmsg = new[r].kmsg
  OBVIOUS
<1>9. DOMAIN ms = 1 .. k /\ k \in Nat
  BY LenProperties
<1> HIDE DEF d, h, new
<1>10. rest \in Seq(Messages) /\ Len(rest) = k - h
  BY <1>3, SuffixMembers
<1>11. Members(rest) = {ms[i] : i \in h + 1 .. Len(ms)}
  BY <1>3, SuffixMembers
<1>12. Members(rest) \subseteq Members(ms)
  <2>1. \A i \in h + 1 .. Len(ms) : i \in 1 .. Len(ms)
    BY <1>3, <1>9
  <2>2. QED
    BY <1>9, <1>11, <2>1 DEF Members
<1> HIDE DEF rest
<1>13. h \in Nat /\ h <= k
  BY <1>3, <1>9
<1> HIDE DEF k
<1>14. ASSUME NEW x \in Ports
       PROVE  Num(x, d.messages) = Num(x, imq[q].messages) + IF x = p THEN k - h ELSE 0
  <2>1. Num(x, d.messages) = Num(x, imq[q].messages) + Num(x, rest)
    BY <1>2, <1>3, <1>10, NumConcat
  <2>2. \A m \in Members(rest) : m.port = p
    BY <1>12
  <2>3. Num(x, rest) = IF x = p THEN k - h ELSE 0
    BY <1>10, <2>2, NumUniform
  <2>4. QED
    BY <2>1, <2>3
<1>15. ASSUME NEW r \in Taken(d)
       PROVE  /\ r \in Receivers /\ th[r].kmsg = None
              /\ th'[r].kmsg # None /\ th'[r].kmsg.port = p
  <2>1. r \in Receivers /\ r \in Threads /\ th[r].ith_state = "in_progress"
    BY <1>1, <1>4, ThreadTypes DEF WaitingAt
  <2>2. ReceiverOK(th[r])
    BY <2>1 DEF LinkInv, ReceiversOK
  <2>3. th[r].kmsg = None
    BY <2>1, <2>2 DEF ReceiverOK
  <2>4. new[r].kmsg \in Messages /\ <<r, new[r].kmsg>> \in d.handed
    BY <1>7, <2>1
  <2>5. PICK j \in 1 .. h : new[r].kmsg = ms[j]
    BY <1>5, <2>4
  <2>6. j \in DOMAIN ms
    BY <1>9, <1>13
  <2>7. new[r].kmsg \in Members(ms)
    BY <2>5, <2>6 DEF Members
  <2>8. QED
    BY <1>8, <2>1, <2>3, <2>4, <2>7, MessageShape
<1>16. \A r \in Receivers \ Taken(d) : th'[r].kmsg = th[r].kmsg
  BY <1>7, <1>8, ThreadTypes
<1>17. InHand(p)' = InHand(p) \cup Taken(d) /\ InHand(p) \cap Taken(d) = {}
  BY <1>15, <1>16 DEF InHand
<1>18. \A x \in Ports \ {p} : InHand(x)' = InHand(x)
  BY <1>15, <1>16 DEF InHand
<1>19. Cardinality(InHand(p)') = Cardinality(InHand(p)) + h
  <2>1. IsFiniteSet(InHand(p)) /\ Cardinality(InHand(p)) \in Nat
    BY FiniteThreads
  <2>2. Cardinality(InHand(p) \cup Taken(d)) =
          Cardinality(InHand(p)) + Cardinality(Taken(d)) - Cardinality(InHand(p) \cap Taken(d))
    BY <1>6, <2>1, FS_Union
  <2>3. Cardinality(InHand(p) \cap Taken(d)) = 0
    BY <1>17, FS_EmptySet
  <2>4. QED
    BY <1>6, <1>13, <1>17, <2>1, <2>2, <2>3
<1>20. \A x \in Ports : Cardinality(InHand(x)') =
                          Cardinality(InHand(x)) + IF x = p THEN h ELSE 0
  BY <1>18, <1>19, FiniteThreads
<1>21. QED
  BY <1>6, <1>9, <1>13, <1>14, <1>20 DEF d, k

-----------------------------------------------------------------------------
(* The senders count what they send and use the turns they have.           *)

\* A sender has a turn at the port it sends to, if it has one.
LEMMA TurnHere ==
    ASSUME LinkInv, NEW t, NEW m, NEW blocked, Sending(t, m, blocked), NEW x, x # m.port
    PROVE  ~IsTurn(th[t], x)
BY DEF Sending, IsTurn

\* At the other ports nothing is promised and no promise is used.
LEMMA OtherPromises ==
    ASSUME LinkInv, NEW t, NEW m, NEW blocked, Sending(t, m, blocked),
           \A u \in Senders \ {t} : th'[u] = th[u],
           \A x \in Ports \ {m.port} : ~IsTurn(th'[t], x),
           \A x \in Ports \ {m.port} : ip'[x] = ip[x]
    PROVE  \A x \in Ports \ {m.port} : PromisedAt(x)
<1> SUFFICES ASSUME NEW x \in Ports, x # m.port PROVE PromisedAt(x)
  OBVIOUS
<1>1. ~IsTurn(th[t], x) /\ ~IsTurn(th'[t], x)
  BY TurnHere
<1>2. \A u \in Senders : IsTurn(th'[u], x) <=> IsTurn(th[u], x)
  BY <1>1
<1>3. ip'[x] = ip[x]
  OBVIOUS
<1>4. QED
  BY <1>2, <1>3, PromiseKeptAt

LEMMA IdleNoTurn ==
    ASSUME NEW x
    PROVE  ~IsTurn(Idle, x)
BY IdleShape DEF IsTurn

\* blocked is the queue without t.
LEMMA OthersBlocked ==
    ASSUME LinkInv, NEW t, NEW m, NEW blocked, Sending(t, m, blocked), blocked # <<>>
    PROVE  ip[m.port].blocked # <<>>
<1>1. blocked \in Seq(Senders) /\ Members(blocked) \subseteq Members(ip[m.port].blocked)
  BY DEF Sending
<1>2. Members(blocked) # {}
  BY <1>1, NoMembers
<1>3. QED
  BY <1>1, <1>2, NoMembers

LEMMA RefusedEffect ==
    ASSUME LinkInv, NEW t, NEW m, NEW blocked, Sending(t, m, blocked), Refuse(t, m, blocked)
    PROVE  /\ imq' = imq /\ th'[t] = Idle
           /\ \A u \in Threads \ {t} : th'[u] = th[u]
           /\ \A x \in Ports \ {m.port} : ip'[x] = ip[x]
           /\ ip'[m.port].blocked = blocked /\ ip'[m.port].msgcount = ip[m.port].msgcount
           /\ ip'[m.port].qlimit = ip[m.port].qlimit /\ ip'[m.port].pset = ip[m.port].pset
<1>1. t \in Senders /\ t \in Threads /\ m.port \in Ports
  BY SendingAlone, ThreadTypes DEF Sending
<1>2. ip \in [Ports -> PortShape]
  BY DEF LinkInv, Shapes
<1>3. /\ \A x \in Ports \ {m.port} : ip'[x] = ip[x]
      /\ ip'[m.port].blocked = blocked /\ ip'[m.port].msgcount = ip[m.port].msgcount
      /\ ip'[m.port].qlimit = ip[m.port].qlimit /\ ip'[m.port].pset = ip[m.port].pset
  BY <1>1, <1>2 DEF Refuse, PortShape
<1>4. QED
  BY <1>1, <1>3, ThreadTypes, ReturnShape DEF Refuse

LEMMA RefusedCounts ==
    ASSUME LinkInv, NEW t, NEW m, NEW blocked, Sending(t, m, blocked), ip_active(m.port),
           Refuse(t, m, blocked),
           \/ th[t].ith_state = "in_progress"
           \/ ip[m.port].msgcount >= ip[m.port].qlimit
    PROVE  Counted /\ Promised
<1>1. /\ imq' = imq /\ th'[t] = Idle
      /\ \A u \in Threads \ {t} : th'[u] = th[u]
      /\ \A x \in Ports \ {m.port} : ip'[x] = ip[x]
      /\ ip'[m.port].blocked = blocked /\ ip'[m.port].msgcount = ip[m.port].msgcount
      /\ ip'[m.port].qlimit = ip[m.port].qlimit /\ ip'[m.port].pset = ip[m.port].pset
  BY RefusedEffect
<1>2. t \in Senders /\ m.port \in Ports
  BY SendingAlone DEF Sending
<1>3. (\A u \in Senders \ {t} : th'[u] = th[u]) /\ (\A r \in Receivers : th'[r] = th[r])
  BY <1>1, <1>2, ThreadTypes
<1>4. Counted
  <2>1. \A x \in Ports : /\ ip'[x].msgcount = ip[x].msgcount /\ ip'[x].pset = ip[x].pset
                         /\ ip'[x].right = "dead" \/ ip[x].right # "dead"
    BY <1>1 DEF ip_active
  <2>2. QED
    BY <1>1, <1>3, <2>1, CountKept
<1>5. PromisedAt(m.port)
  <2>1. CASE ip[m.port].msgcount >= ip[m.port].qlimit
    BY <1>1, <2>1 DEF PromisedAt
  <2>2. CASE th[t].ith_state = "in_progress"
    <3>1. ~IsTurn(th[t], m.port) /\ ~IsTurn(th'[t], m.port)
      BY <1>1, <2>2, IdleNoTurn DEF IsTurn
    <3>2. \A u \in Senders : IsTurn(th'[u], m.port) <=> IsTurn(th[u], m.port)
      BY <1>3, <3>1
    <3>3. ip'[m.port].blocked # <<>> => ip[m.port].blocked # <<>>
      BY <1>1, OthersBlocked
    <3>4. QED
      BY <1>1, <1>2, <3>2, <3>3, PromiseKeptAt
  <2>3. QED
    BY <2>1, <2>2
<1>6. \A x \in Ports \ {m.port} : PromisedAt(x)
  BY <1>1, <1>3, IdleNoTurn, OtherPromises
<1>7. QED
  BY <1>4, <1>5, <1>6 DEF Promised

LEMMA DeadCounts ==
    ASSUME LinkInv, NEW t, NEW m, NEW blocked, Sending(t, m, blocked), ~ip_active(m.port),
           th' = Return(th, t), ip' = ip, imq' = imq
    PROVE  Counted /\ Promised
<1>1. t \in Senders /\ m.port \in Ports /\ t \in Threads
  BY SendingAlone, ThreadTypes DEF Sending
<1>2. th'[t] = Idle /\ \A u \in Threads \ {t} : th'[u] = th[u]
  BY <1>1, ThreadTypes, ReturnShape
<1>3. (\A u \in Senders \ {t} : th'[u] = th[u]) /\ (\A r \in Receivers : th'[r] = th[r])
  BY <1>1, <1>2, ThreadTypes
<1>4. Counted
  BY <1>3, CountKept
<1>5. PromisedAt(m.port)
  BY <1>1 DEF PromisedAt, LinkInv, PortsOK, ip_active
<1>6. \A x \in Ports \ {m.port} : PromisedAt(x)
  BY <1>2, <1>3, IdleNoTurn, OtherPromises
<1>7. QED
  BY <1>4, <1>5, <1>6 DEF Promised

LEMMA BlocksCounts ==
    ASSUME LinkInv, NEW t, NEW m, NEW blocked, Sending(t, m, blocked), NEW how,
           ip[m.port].msgcount >= ip[m.port].qlimit, imq' = imq,
           ip' = [ip EXCEPT ![m.port].blocked = Append(blocked, t)],
           th' = [th EXCEPT ![t] = BlockedSender(m, how)]
    PROVE  Counted /\ Promised
<1>1. t \in Senders /\ m.port \in Ports /\ t \in Threads
  BY SendingAlone, ThreadTypes DEF Sending
<1>2. ip \in [Ports -> PortShape]
  BY DEF LinkInv, Shapes
<1>3. th'[t] = BlockedSender(m, how) /\ \A u \in Threads \ {t} : th'[u] = th[u]
  BY <1>1, ThreadTypes
<1>4. (\A u \in Senders \ {t} : th'[u] = th[u]) /\ (\A r \in Receivers : th'[r] = th[r])
  BY <1>1, <1>3, ThreadTypes
<1>5. /\ \A x \in Ports \ {m.port} : ip'[x] = ip[x]
      /\ \A x \in Ports : /\ ip'[x].msgcount = ip[x].msgcount /\ ip'[x].pset = ip[x].pset
                          /\ ip'[x].right = ip[x].right /\ ip'[x].qlimit = ip[x].qlimit
  BY <1>1, <1>2 DEF PortShape
<1>6. Counted
  BY <1>4, <1>5, CountKept
<1>7. PromisedAt(m.port)
  BY <1>1, <1>5 DEF PromisedAt
<1>8. \A x : ~IsTurn(th'[t], x)
  <2>1. BlockedSender(m, how).ith_state = "in_progress"
    BY DEF BlockedSender, Idle
  <2>2. QED
    BY <1>3, <2>1 DEF IsTurn
<1>9. \A x \in Ports \ {m.port} : PromisedAt(x)
  BY <1>4, <1>5, <1>8, OtherPromises
<1>10. QED
  BY <1>6, <1>7, <1>9 DEF Promised

LEMMA CircularCounts ==
    ASSUME LinkInv, NEW t, NEW m, NEW blocked, Sending(t, m, blocked),
           ip' = DeadPort(ip, m.port), imq' = EmptyQueue(imq, m.port),
           th' = Return(SendersGo(th, m.port), t)
    PROVE  Counted /\ Promised
<1>1. PICK p : p = m.port
  OBVIOUS
<1>2. t \in Senders /\ p \in Ports /\ t \in Threads
  BY <1>1, SendingAlone, ThreadTypes DEF Sending
<1>3. ip \in [Ports -> PortShape] /\ imq \in [Queues -> QueueRecord]
  BY DEF LinkInv, Shapes
<1>4. /\ ip'[p].right = "dead" /\ ip'[p].blocked = <<>> /\ ip'[p].msgcount = ip[p].msgcount
      /\ \A x \in Ports \ {p} : ip'[x] = ip[x]
  BY <1>1, <1>2, <1>3 DEF DeadPort, PortShape
<1>5. \A x \in Queues \ {p} : imq'[x] = imq[x]
  BY <1>1, <1>3 DEF EmptyQueue
<1>6. PICK gone : gone = SendersGo(th, p)
  OBVIOUS
<1>7. /\ gone \in [Threads -> ThreadRecord]
      /\ \A u \in Threads :
           IF u \in Members(ip[p].blocked)
           THEN Gone(th[u], gone[u], "success") /\ gone[u].kmsg = th[u].kmsg
           ELSE gone[u] = th[u]
  BY <1>6, ThreadTypes, ThreadGo DEF SendersGo, States
<1>8. th'[t] = Idle /\ \A u \in Threads \ {t} : th'[u] = gone[u]
  BY <1>1, <1>2, <1>6, <1>7, ReturnShape
<1>9. Members(ip[p].blocked) \subseteq Senders
  BY <1>2, PortTypes, NoMembers
<1>10. \A r \in Receivers : th'[r] = th[r]
  BY <1>2, <1>7, <1>8, <1>9, ThreadTypes
<1>11. Counted
  <2> SUFFICES ASSUME NEW x \in Ports PROVE CountedAt(x)
    BY DEF Counted
  <2>1. CASE x = p
    BY <1>4, <2>1 DEF CountedAt
  <2>2. CASE x # p
    <3>1. MqueueOf(x)' = MqueueOf(x) /\ MqueueOf(x) \in Queues /\ ip'[x] = ip[x]
      BY <1>4, <2>2, PortTypes DEF MqueueOf
    <3>2. MqueueOf(x) # p
      BY <1>2, <2>2, PortTypes, MqueueAssumption DEF MqueueOf
    <3>3. imq'[MqueueOf(x)'] = imq[MqueueOf(x)]
      BY <1>5, <3>1, <3>2
    <3>4. QED
      BY <1>10, <3>1, <3>3, CountKeptAt
  <2>3. QED
    BY <2>1, <2>2
<1>12. Promised
  <2> SUFFICES ASSUME NEW x \in Ports PROVE PromisedAt(x)
    BY DEF Promised
  <2>1. CASE x = p
    BY <1>4, <2>1 DEF PromisedAt
  <2>2. CASE x # p
    <3>1. ip'[x] = ip[x]
      BY <1>4, <2>2
    <3>2. ASSUME NEW u \in Senders PROVE IsTurn(th'[u], x) <=> IsTurn(th[u], x)
      <4>1. CASE u = t
        BY <1>1, <1>8, <2>2, <4>1, IdleNoTurn, TurnHere
      <4>2. CASE u # t /\ u \in Members(ip[p].blocked)
        <5>1. th[u].kmsg.port = p
          BY <1>2, <4>2 DEF LinkInv, SenderLinks, BlockedAt
        <5>2. th'[u].kmsg = th[u].kmsg
          BY <1>7, <1>8, <4>2, ThreadTypes
        <5>3. QED
          BY <2>2, <5>1, <5>2 DEF IsTurn
      <4>3. CASE u # t /\ u \notin Members(ip[p].blocked)
        BY <1>7, <1>8, <4>3, ThreadTypes
      <4>4. QED
        BY <4>1, <4>2, <4>3
    <3>3. QED
      BY <3>1, <3>2, PromiseKeptAt
  <2>3. QED
    BY <2>1, <2>2
<1>13. QED
  BY <1>11, <1>12

Accepted(p, seqno, blocked) ==
    [ip EXCEPT ![p].msgcount = @ + 1, ![p].seqno = seqno, ![p].blocked = blocked]

LEMMA AcceptedShape ==
    ASSUME LinkInv, NEW p \in Ports, NEW seqno, NEW blocked, NEW new,
           new = Accepted(p, seqno, blocked)
    PROVE  /\ new[p].msgcount = ip[p].msgcount + 1 /\ new[p].blocked = blocked
           /\ new[p].right = ip[p].right /\ new[p].pset = ip[p].pset
           /\ new[p].qlimit = ip[p].qlimit
           /\ \A x \in Ports \ {p} : new[x] = ip[x]
<1> DEFINE c == ip[p].msgcount + 1
           port == [ip[p] EXCEPT !.msgcount = c, !.seqno = seqno, !.blocked = blocked]
<1>1. ip \in [Ports -> PortShape] /\ ip[p] \in PortShape
  BY DEF LinkInv, Shapes
<1>2. new = [ip EXCEPT ![p] = port]
  BY <1>1 DEF PortShape, Accepted
<1> HIDE DEF c
<1>3. /\ port.msgcount = c /\ port.blocked = blocked /\ port.right = ip[p].right
      /\ port.pset = ip[p].pset /\ port.qlimit = ip[p].qlimit
  BY <1>1 DEF PortShape
<1> HIDE DEF port
<1>4. QED
  BY <1>1, <1>2, <1>3 DEF c

LEMMA DeliveredCounts ==
    ASSUME LinkInv, NEW t, NEW m, NEW blocked, Sending(t, m, blocked),
           ip_active(m.port), ~m.circular, Accept(t, m, blocked)
    PROVE  Counted /\ Promised
<1> DEFINE p == m.port
           q == MqueueOf(p)
           ms == <<m>>
           d == Deliver(q, ms)
           new == Receivers_go(d)
<1>1. t \in Senders /\ t \in Threads /\ t \notin Receivers /\ p \in Ports /\ m \in Messages
  BY SendingAlone, ThreadTypes DEF Sending
<1>2. q \in Queues /\ ms \in Seq(Messages) /\ Members(ms) = {m} /\ Len(ms) = 1
  BY <1>1, PortTypes DEF Members
<1>3. /\ ip' = Accepted(p, ip[p].seqno + Cardinality(d.handed), blocked)
      /\ imq' = [imq EXCEPT ![q] = [messages |-> d.messages, threads |-> d.threads]]
      /\ th' = Return(new, t)
  BY <1>1, PortTypes DEF Accept, Accepted, PortShape
<1> HIDE DEF p, q, ms
<1>4. /\ new \in [Threads -> ThreadRecord] /\ MetBy(d) \subseteq WaitingAt(q)
      /\ \A u \in Threads \ MetBy(d) : new[u] = th[u]
  BY <1>2, DeliverReceivers
<1>5. /\ ip'[p].msgcount = ip[p].msgcount + 1 /\ ip'[p].blocked = blocked
      /\ ip'[p].right = ip[p].right /\ ip'[p].pset = ip[p].pset
      /\ ip'[p].qlimit = ip[p].qlimit
      /\ \A x \in Ports \ {p} : ip'[x] = ip[x]
  BY <1>1, <1>3, AcceptedShape
<1>6. imq'[q].messages = d.messages /\ \A x \in Queues \ {q} : imq'[x] = imq[x]
  BY <1>2, <1>3, QueueTypes
<1>7. th'[t] = Idle /\ \A u \in Threads \ {t} : th'[u] = new[u]
  BY <1>1, <1>3, <1>4, ReturnShape
<1>8. \A u \in Senders \ {t} : th'[u] = th[u]
  BY <1>4, <1>7, ThreadTypes DEF WaitingAt
<1>9. \A r \in Receivers : th'[r] = new[r]
  BY <1>1, <1>7, ThreadTypes
<1>10. \A x \in Members(ms) : x.port = p
  BY <1>2 DEF p
<1>11. PICK h : h = Cardinality(d.handed)
  OBVIOUS
<1>12. /\ h \in Nat
       /\ \A x \in Ports :
            /\ Num(x, d.messages) = Num(x, imq[q].messages) + IF x = p THEN 1 - h ELSE 0
            /\ Cardinality(InHand(x)') = Cardinality(InHand(x)) + IF x = p THEN h ELSE 0
  <2>1. \A r \in Receivers : th'[r].kmsg = Receivers_go(Deliver(q, ms))[r].kmsg
    BY <1>9
  <2>2. Cardinality(d.handed) \in Nat
    BY <1>1, <1>2, <1>10, <2>1, DeliverCounts
  <2>3. \A x \in Ports :
          /\ Num(x, d.messages) =
               Num(x, imq[q].messages) + IF x = p THEN Len(ms) - Cardinality(d.handed) ELSE 0
          /\ Cardinality(InHand(x)') =
               Cardinality(InHand(x)) + IF x = p THEN Cardinality(d.handed) ELSE 0
    BY <1>1, <1>2, <1>10, <2>1, DeliverCounts
  <2>4. QED
    BY <1>2, <1>11, <2>2, <2>3
<1> HIDE DEF new, d
<1>13. Counted
  <2> SUFFICES ASSUME NEW x \in Ports PROVE CountedAt(x)
    BY DEF Counted
  <2>1. PICK queued, inhand : /\ queued = IF x = p THEN 1 - h ELSE 0
                              /\ inhand = IF x = p THEN h ELSE 0
    OBVIOUS
  <2>2. queued \in Int /\ inhand \in Int /\ queued + inhand = IF x = p THEN 1 ELSE 0
    BY <1>12, <2>1
  <2>3. /\ MqueueOf(x)' = MqueueOf(x) /\ MqueueOf(x) \in Queues
        /\ ip'[x].right = ip[x].right
    BY <1>5, PortTypes DEF MqueueOf
  <2>4. ip'[x].msgcount = ip[x].msgcount + (queued + inhand)
    BY <1>5, <2>2, PortTypes
  <2>5. Cardinality(InHand(x)') = Cardinality(InHand(x)) + inhand
    BY <1>12, <2>1
  <2>6. Num(x, imq'[MqueueOf(x)].messages) = Num(x, imq[MqueueOf(x)].messages) + queued
    <3>1. CASE MqueueOf(x) = q
      BY <1>6, <1>12, <2>1, <3>1
    <3>2. CASE MqueueOf(x) # q
      <4>1. x # p
        BY <3>2 DEF q
      <4>2. Num(x, imq[MqueueOf(x)].messages) \in Nat
        BY <2>3, QueueTypes, NumIsPositions
      <4>3. QED
        BY <1>6, <2>1, <2>3, <3>2, <4>1, <4>2
    <3>3. QED
      BY <3>1, <3>2
  <2>7. Shift(x, queued, inhand)
    BY <2>3, <2>4, <2>5, <2>6 DEF Shift
  <2>8. ip[x].right # "dead" \/ x # p
    BY DEF p, ip_active
  <2>9. ip'[x].right = "dead" => ip'[x].msgcount = ip[x].msgcount
    BY <1>5, <2>3, <2>8
  <2>10. QED
    BY <2>2, <2>3, <2>7, <2>9 DEF CountedAt
<1>14. PromisedAt(p)
  <2>1. Turns(p)' = Turns(p) \ {t}
    <3>1. ~IsTurn(th'[t], p)
      BY <1>7, IdleNoTurn
    <3>2. QED
      BY <1>8, <3>1 DEF Turns, IsTurn
  <2>2. PICK n, n2 : n = Cardinality(Turns(p)) /\ n2 = Cardinality(Turns(p)')
    OBVIOUS
  <2>3. n \in Nat /\ n2 \in Nat /\ (n2 = n \/ n2 = n - 1)
    BY <2>1, <2>2, FiniteThreads, FiniteThreadsNext, FS_RemoveElement
  <2>4. PICK c, l : c = ip[p].msgcount /\ l = ip[p].qlimit
    OBVIOUS
  <2>5. c \in Int /\ l \in Int
    BY <1>1, <2>4, PortTypes
  <2>6. Spare(p)' = c + 1 + n2 - l /\ Spare(p) = c + n - l
    BY <1>5, <2>2, <2>4 DEF Spare
  <2>7. c + 1 + n2 - l >= c + n - l
    BY <2>3, <2>5
  <2>8. blocked # <<>> => ip[p].blocked # <<>>
    BY OthersBlocked DEF p
  <2>9. QED
    BY <1>5, <2>6, <2>7, <2>8 DEF PromisedAt
<1>15. \A x \in Ports \ {p} : PromisedAt(x)
  BY <1>5, <1>7, <1>8, IdleNoTurn, OtherPromises DEF p
<1>16. QED
  BY <1>13, <1>14, <1>15 DEF Promised

LEMMA TryCounts ==
    ASSUME LinkInv, NEW t, Tries(t)
    PROVE  Counted /\ Promised
<1>1. PICK m, how, blocked :
        /\ Sending(t, m, blocked) /\ how \in SendHows
        /\ \/ SendLoop(t, m, how, blocked)
           \/ /\ ip_active(m.port) /\ th[t].ith_state = "in_progress"
              /\ Refuse(t, m, blocked)
  BY DEF Tries
<1>2. CASE ip_active(m.port) /\ th[t].ith_state = "in_progress" /\ Refuse(t, m, blocked)
  BY <1>1, <1>2, RefusedCounts
<1>3. CASE ~ip_active(m.port) /\ th' = Return(th, t) /\ ip' = ip /\ imq' = imq
  BY <1>1, <1>3, DeadCounts
<1>4. CASE ip_active(m.port) /\ Accept(t, m, blocked)
  <2>1. CASE ~m.circular
    BY <1>1, <1>4, <2>1, DeliveredCounts
  <2>2. CASE m.circular
    <3>1. /\ ip' = DeadPort(ip, m.port) /\ imq' = EmptyQueue(imq, m.port)
          /\ th' = Return(SendersGo(th, m.port), t)
      BY <1>4, <2>2 DEF Accept
    <3>2. QED
      BY <1>1, <3>1, CircularCounts
  <2>3. QED
    BY <2>1, <2>2
<1>5. ASSUME ~(ip[m.port].msgcount < ip[m.port].qlimit)
      PROVE  ip[m.port].msgcount >= ip[m.port].qlimit
  <2>1. ip[m.port].msgcount \in Int /\ ip[m.port].qlimit \in Int
    BY <1>1, SendingAlone, PortTypes
  <2>2. QED
    BY <1>5, <2>1
<1>6. CASE /\ ip_active(m.port) /\ ~(ip[m.port].msgcount < ip[m.port].qlimit)
           /\ Refuse(t, m, blocked)
  BY <1>1, <1>5, <1>6, RefusedCounts
<1>7. CASE /\ ~(ip[m.port].msgcount < ip[m.port].qlimit)
           /\ ip' = [ip EXCEPT ![m.port].blocked = Append(blocked, t)]
           /\ th' = [th EXCEPT ![t] = BlockedSender(m, how)]
           /\ imq' = imq
  BY <1>1, <1>5, <1>7, BlocksCounts
<1>8. QED
  BY <1>1, <1>2, <1>3, <1>4, <1>6, <1>7 DEF SendLoop, BlockedSender

-----------------------------------------------------------------------------
(* Ends of waits, turns given, and the counts.                             *)

LEMMA WaitEndsCounts ==
    ASSUME LinkInv, NEW t \in Threads, NEW w, th' = [th EXCEPT ![t].wait = w], ip' = ip,
           imq' = imq
    PROVE  Counted /\ Promised
<1>1. \A u \in Threads : /\ th'[u].pc = th[u].pc /\ th'[u].ith_state = th[u].ith_state
                         /\ th'[u].kmsg = th[u].kmsg
  BY ThreadTypes DEF ThreadRecord
<1>2. Counted
  BY <1>1, ThreadTypes, CountKept
<1>3. \A u \in Senders, p \in Ports : IsTurn(th'[u], p) <=> IsTurn(th[u], p)
  BY <1>1, ThreadTypes DEF IsTurn
<1>4. Promised
  BY <1>3, PromiseKeptAt DEF Promised
<1>5. QED
  BY <1>2, <1>4

LEMMA PsetDestroyCounts ==
    ASSUME LinkInv, NEW s \in Psets, PsetDestroy(s)
    PROVE  Counted /\ Promised
<1>1. /\ ip' = ip /\ imq' = [imq EXCEPT ![s].threads = <<>>]
      /\ th' = thread_go(th, Members(imq[s].threads), "port_died")
  BY DEF PsetDestroy, ipc_mqueue_changed
<1>2. s \in Queues
  BY DEF Queues
<1>3. \A x \in Queues : imq'[x].messages = imq[x].messages
  <2>1. imq \in [Queues -> QueueRecord]
    BY DEF LinkInv, Shapes
  <2>2. QED
    BY <1>1, <1>2, <2>1 DEF QueueRecord
<1>4. \A u \in Threads :
        IF u \in Members(imq[s].threads)
        THEN Gone(th[u], th'[u], "port_died") /\ th'[u].kmsg = th[u].kmsg
        ELSE th'[u] = th[u]
  BY <1>1, ThreadTypes, ThreadGo DEF States
<1>5. Members(imq[s].threads) \subseteq Receivers
  BY <1>2, QueueTypes, NoMembers
<1>6. (\A t \in Senders : th'[t] = th[t]) /\ (\A r \in Receivers : th'[r].kmsg = th[r].kmsg)
  BY <1>4, <1>5, ThreadTypes
<1>7. Promised
  BY <1>1, <1>6, PromiseKept
<1>8. Counted
  <2> SUFFICES ASSUME NEW x \in Ports PROVE CountedAt(x)
    BY DEF Counted
  <2>1. MqueueOf(x)' = MqueueOf(x) /\ MqueueOf(x) \in Queues
    BY <1>1, PortTypes DEF MqueueOf
  <2>2. QED
    BY <1>1, <1>3, <1>6, <2>1, CountKeptAt
<1>9. QED
  BY <1>7, <1>8

\* The senders G, asleep at p, are given turns.
LEMMA TurnsGiven ==
    ASSUME LinkInv, NEW p \in Ports, NEW G, G \subseteq Members(ip[p].blocked), IsFiniteSet(G),
           \A u \in Senders :
             IF u \in G THEN Gone(th[u], th'[u], "success") /\ th'[u].kmsg = th[u].kmsg
                        ELSE th'[u] = th[u]
    PROVE  /\ Cardinality(Turns(p)') = Cardinality(Turns(p)) + Cardinality(G)
           /\ \A x \in Ports \ {p} : \A u \in Senders : IsTurn(th'[u], x) <=> IsTurn(th[u], x)
<1>1. \A u \in G : u \in Senders /\ th[u].ith_state = "in_progress" /\ th[u].kmsg.port = p
  BY DEF LinkInv, SenderLinks, BlockedAt
<1>2. \A u \in G : th[u].pc = "blocked"
  BY <1>1 DEF LinkInv, SendersOK, SenderOK
<1>3. \A u \in G : IsTurn(th'[u], p) /\ th'[u].kmsg.port = p
  BY <1>1, <1>2 DEF Gone, IsTurn
<1>4. Turns(p)' = Turns(p) \cup G /\ Turns(p) \cap G = {}
  BY <1>1, <1>3 DEF Turns, IsTurn
<1>5. Cardinality(Turns(p)') = Cardinality(Turns(p)) + Cardinality(G)
  <2>1. IsFiniteSet(Turns(p)) /\ Cardinality(Turns(p)) \in Nat
    BY FiniteThreads
  <2>2. Cardinality(Turns(p) \cup G) =
          Cardinality(Turns(p)) + Cardinality(G) - Cardinality(Turns(p) \cap G)
    BY <2>1, FS_Union
  <2>3. Cardinality(Turns(p) \cap G) = 0 /\ Cardinality(G) \in Nat
    BY <1>4, FS_EmptySet, FS_CardinalityType
  <2>4. QED
    BY <1>4, <2>1, <2>2, <2>3
<1>6. ASSUME NEW x \in Ports \ {p}, NEW u \in Senders
      PROVE  IsTurn(th'[u], x) <=> IsTurn(th[u], x)
  <2>1. CASE u \in G
    BY <1>1, <1>3, <2>1 DEF IsTurn
  <2>2. CASE u \notin G
    BY <2>2
  <2>3. QED
    BY <2>1, <2>2
<1>7. QED
  BY <1>5, <1>6

LEMMA SetQlimitCounts ==
    ASSUME LinkInv, NEW p \in Ports, NEW qlimit \in QLimits, SetQlimit(p, qlimit)
    PROVE  Counted /\ Promised
<1>1. PICK s : s = ip[p].blocked
  OBVIOUS
<1>2. PICK k \in 0 .. Len(s) :
        /\ ip' = Requeue(p, qlimit, SubSeq(s, k + 1, Len(s)))
        /\ th' = thread_go(th, Members(SubSeq(s, 1, k)), "success")
        /\ k < Len(s) => ip[p].qlimit + k >= qlimit
  BY <1>1, SetQlimitEffect
<1>3. imq' = imq
  BY DEF SetQlimit
<1>4. s \in Seq(Senders) /\ Once(s)
  BY <1>1, PortTypes DEF LinkInv, SenderLinks
<1>5. PICK G, b : G = Members(SubSeq(s, 1, k)) /\ b = SubSeq(s, k + 1, Len(s))
  OBVIOUS
<1>6. b \in Seq(Senders) /\ Once(b)
  BY <1>4, <1>5, SplitMembers
<1>7. G \subseteq Members(s) /\ Cardinality(G) = k /\ IsFiniteSet(G)
  BY <1>4, <1>5, SplitMembers
<1>8. k = Len(s) => b = <<>>
  BY <1>4, <1>5, SplitMembers
<1>9. ip' = Requeue(p, qlimit, b) /\ qlimit \in Nat
  BY <1>2, <1>5, MqueueAssumption
<1>10. ip'[p].blocked = b /\ ip'[p].qlimit = qlimit
  BY <1>6, <1>9, RequeueShape
<1>11. \A x \in Ports : /\ ip'[x].right = ip[x].right /\ ip'[x].pset = ip[x].pset
                        /\ ip'[x].msgcount = ip[x].msgcount
  BY <1>6, <1>9, RequeueShape
<1>12. \A x \in Ports \ {p} : ip'[x] = ip[x]
  BY <1>6, <1>9, RequeueShape
<1>13. \A u \in Threads :
         IF u \in G THEN Gone(th[u], th'[u], "success") /\ th'[u].kmsg = th[u].kmsg
                    ELSE th'[u] = th[u]
  BY <1>2, <1>5, ThreadTypes, ThreadGo DEF States
<1>14. Counted
  <2>1. \A r \in Receivers : th'[r].kmsg = th[r].kmsg
    BY <1>13, ThreadTypes
  <2>2. QED
    BY <1>3, <1>11, <2>1, CountKept
<1>15. \A u \in Senders :
         IF u \in G THEN Gone(th[u], th'[u], "success") /\ th'[u].kmsg = th[u].kmsg
                    ELSE th'[u] = th[u]
  BY <1>13, ThreadTypes
<1>16. Cardinality(Turns(p)') = Cardinality(Turns(p)) + k
  BY <1>1, <1>7, <1>15, TurnsGiven
<1>17. \A x \in Ports \ {p} : \A u \in Senders : IsTurn(th'[u], x) <=> IsTurn(th[u], x)
  BY <1>1, <1>7, <1>15, TurnsGiven
<1>18. PromisedAt(p)
  <2> SUFFICES ASSUME b # <<>> PROVE ip[p].blocked # <<>> /\ Spare(p)' >= Spare(p)
    BY <1>10 DEF PromisedAt
  <2>1. PICK len : len = Len(s)
    OBVIOUS
  <2>2. len \in Nat /\ k \in 0 .. len /\ k # len
    BY <1>4, <1>8, <2>1, LenProperties
  <2>3. k < len /\ len # 0
    BY <2>2
  <2>4. s # <<>> /\ ip[p].qlimit + k >= qlimit
    BY <1>2, <2>1, <2>3
  <2>5. PICK c, l, n : c = ip[p].msgcount /\ l = ip[p].qlimit /\ n = Cardinality(Turns(p))
    OBVIOUS
  <2>6. c \in Int /\ l \in Nat /\ n \in Nat /\ k \in Nat /\ l + k >= qlimit
    BY <2>2, <2>4, <2>5, PortTypes, FiniteThreads
  <2>7. Spare(p)' = c + (n + k) - qlimit /\ Spare(p) = c + n - l
    BY <1>10, <1>11, <1>16, <2>5 DEF Spare
  <2>8. c + (n + k) - qlimit >= c + n - l
    BY <1>9, <2>6
  <2>9. QED
    BY <1>1, <2>4, <2>7, <2>8
<1>19. \A x \in Ports \ {p} : PromisedAt(x)
  BY <1>12, <1>17, PromiseKeptAt
<1>20. QED
  BY <1>14, <1>18, <1>19 DEF Promised

LEMMA ReceiveDoneCounts ==
    ASSUME LinkInv, NEW r \in Threads, ReceiveDone(r)
    PROVE  Counted /\ Promised
<1>1. r \in Receivers /\ th[r].pc = "got" /\ imq' = imq
  BY DEF ReceiveDone
<1>2. th[r].kmsg \in Messages /\ th[r].kmsg.port \in Ports /\ r \notin Senders
  BY <1>1, GotHas, ThreadTypes DEF GotFacts
<1>3. PICK p \in Ports : p = th[r].kmsg.port
  BY <1>2
<1>4. r \in InHand(p)
  BY <1>1, <1>2, <1>3, MessageShape DEF InHand
\* The message leaves the hand of r.
<1>5. ASSUME th'[r] = Idle, \A u \in Receivers \ {r} : th'[u] = th[u]
      PROVE  /\ Cardinality(InHand(p)') = Cardinality(InHand(p)) - 1
             /\ \A x \in Ports \ {p} : InHand(x)' = InHand(x)
  <2>1. th'[r].kmsg = None
    BY <1>5, IdleShape
  <2>2. InHand(p)' = InHand(p) \ {r}
    BY <1>5, <2>1 DEF InHand
  <2>3. Cardinality(InHand(p) \ {r}) = Cardinality(InHand(p)) - 1
    BY <1>4, FiniteThreads, FS_RemoveElement
  <2>4. \A x \in Ports \ {p} : InHand(x)' = InHand(x)
    BY <1>3, <1>5, <2>1 DEF InHand
  <2>5. QED
    BY <2>2, <2>3, <2>4
\* The counts of the other ports stay.
<1>6. ASSUME NEW x \in Ports, InHand(x)' = InHand(x), ip'[x] = ip[x]
      PROVE  CountedAt(x)
  <2>1. MqueueOf(x)' = MqueueOf(x)
    BY <1>6 DEF MqueueOf
  <2>2. Cardinality(InHand(x)) \in Nat /\ ip[x].msgcount \in Int
    BY FiniteThreads, PortTypes
  <2>3. Num(x, imq[MqueueOf(x)].messages) \in Nat
    BY PortTypes, QueueTypes, NumIsPositions
  <2>4. PICK z \in Int : z = 0
    OBVIOUS
  <2>5. Shift(x, z, z)
    BY <1>1, <1>6, <2>1, <2>2, <2>3, <2>4 DEF Shift
  <2>6. QED
    BY <1>6, <2>5 DEF CountedAt
<1>7. CASE ~ip_active(p)
  <2>1. ip' = ip /\ th' = Return(th, r)
    BY <1>3, <1>7 DEF ReceiveDone
  <2>2. th'[r] = Idle /\ \A u \in Threads \ {r} : th'[u] = th[u]
    BY <2>1, ThreadTypes, ReturnShape
  <2>3. \A x \in Ports \ {p} : CountedAt(x)
    BY <1>5, <1>6, <2>1, <2>2, ThreadTypes
  <2>4. CountedAt(p)
    BY <1>7, <2>1 DEF CountedAt, ip_active
  <2>5. \A t \in Senders : th'[t] = th[t]
    BY <1>2, <2>2, ThreadTypes
  <2>6. Promised
    BY <2>1, <2>5, PromiseKept
  <2>7. QED
    BY <2>3, <2>4, <2>6 DEF Counted
<1>8. CASE ip_active(p)
  <2>1. PICK T : T = TurnFor(p)
    OBVIOUS
  <2>2. PICK b : b = IF T = {} THEN ip[p].blocked ELSE Tail(ip[p].blocked)
    OBVIOUS
  <2>3. PICK c : c = ip[p].msgcount
    OBVIOUS
  <2>4. PICK gone : gone = thread_go(th, T, "success")
    OBVIOUS
  <2>5. c \in Int /\ ip[p].qlimit \in Nat /\ ip[p].blocked \in Seq(Senders)
    BY <2>3, PortTypes
  <2>6. PICK c2 \in Int : c2 = c - 1
    BY <2>5
  <2>7. ip' = Recount(p, c2, b) /\ th' = Return(gone, r)
    BY <1>3, <1>8, <2>1, <2>2, <2>3, <2>4, <2>6, ReceiveDoneEffect DEF Recount
  <2>8. /\ T \subseteq Members(ip[p].blocked) /\ T \subseteq Senders /\ b \in Seq(Senders)
        /\ IsFiniteSet(T) /\ Cardinality(T) = IF T = {} THEN 0 ELSE 1
    <3>1. CASE T = {}
      BY <2>2, <2>5, <3>1, FS_EmptySet
    <3>2. CASE T # {}
      <4>1. ip[p].blocked # <<>> /\ T = {Head(ip[p].blocked)}
        BY <2>1, <3>2 DEF TurnFor
      <4>2. /\ Tail(ip[p].blocked) \in Seq(Senders) /\ Head(ip[p].blocked) \in Senders
            /\ Head(ip[p].blocked) \in Members(ip[p].blocked)
        BY <2>5, <4>1, TailMembers
      <4>3. QED
        BY <2>2, <3>2, <4>1, <4>2, FS_Singleton
    <3>3. QED
      BY <3>1, <3>2
  <2>9. ip'[p].blocked = b /\ ip'[p].msgcount = c2
    BY <2>7, <2>8, CountsOnly
  <2>10. \A x \in Ports : /\ ip'[x].right = ip[x].right /\ ip'[x].pset = ip[x].pset
                          /\ ip'[x].qlimit = ip[x].qlimit
    BY <2>7, <2>8, CountsOnly
  <2>11. \A x \in Ports \ {p} : ip'[x] = ip[x]
    BY <2>7, <2>8, CountsOnly
  <2>12. /\ gone \in [Threads -> ThreadRecord]
         /\ \A u \in Threads :
              IF u \in T THEN Gone(th[u], gone[u], "success") /\ gone[u].kmsg = th[u].kmsg
                         ELSE gone[u] = th[u]
    BY <2>4, ThreadTypes, ThreadGo DEF States
  <2>13. th'[r] = Idle /\ \A u \in Threads \ {r} : th'[u] = gone[u]
    BY <2>7, <2>12, ReturnShape
  <2>14. \A u \in Senders :
           IF u \in T THEN Gone(th[u], th'[u], "success") /\ th'[u].kmsg = th[u].kmsg
                      ELSE th'[u] = th[u]
    BY <1>2, <2>12, <2>13, ThreadTypes
  <2>15. \A u \in Receivers \ {r} : th'[u] = th[u]
    BY <2>8, <2>12, <2>13, ThreadTypes
  <2>16. \A x \in Ports \ {p} : CountedAt(x)
    BY <1>5, <1>6, <2>11, <2>13, <2>15
  <2>17. CountedAt(p)
    <3>1. MqueueOf(p)' = MqueueOf(p)
      BY <2>10 DEF MqueueOf
    <3>2. Cardinality(InHand(p)) \in Nat
      BY FiniteThreads
    <3>3. Num(p, imq[MqueueOf(p)].messages) \in Nat
      BY PortTypes, QueueTypes, NumIsPositions
    <3>4. PICK z \in Int, e \in Int : z = 0 /\ e = 0 - 1
      OBVIOUS
    <3>5. Cardinality(InHand(p)') = Cardinality(InHand(p)) + e
      BY <1>5, <2>13, <2>15, <3>2, <3>4
    <3>6. ip'[p].msgcount = ip[p].msgcount + (z + e)
      BY <2>3, <2>5, <2>6, <2>9, <3>4
    <3>7. Shift(p, z, e)
      BY <1>1, <3>1, <3>3, <3>4, <3>5, <3>6 DEF Shift
    <3>8. QED
      BY <1>8, <2>10, <3>7 DEF CountedAt, ip_active
  <2>18. \A x \in Ports \ {p} : PromisedAt(x)
    <3>1. \A x \in Ports \ {p} : \A u \in Senders : IsTurn(th'[u], x) <=> IsTurn(th[u], x)
      BY <2>8, <2>14, TurnsGiven
    <3>2. QED
      BY <2>11, <3>1, PromiseKeptAt
  <2>19. PromisedAt(p)
    <3> SUFFICES ASSUME b # <<>>
                 PROVE  \/ ip'[p].msgcount >= ip'[p].qlimit
                        \/ ip[p].blocked # <<>> /\ Spare(p)' >= Spare(p)
      BY <2>9 DEF PromisedAt
    <3>1. CASE T = {}
      <4>1. ip[p].blocked # <<>> /\ ~(c - 1 < ip[p].qlimit)
        BY <2>1, <2>2, <2>3, <3>1 DEF TurnFor
      <4>2. c2 >= ip[p].qlimit
        BY <2>5, <2>6, <4>1
      <4>3. QED
        BY <2>9, <2>10, <4>2
    <3>2. CASE T # {}
      <4>1. ip[p].blocked # <<>>
        BY <2>1, <3>2 DEF TurnFor
      <4>2. Cardinality(Turns(p)') = Cardinality(Turns(p)) + Cardinality(T)
        BY <2>8, <2>14, TurnsGiven
      <4>3. PICK n, l : n = Cardinality(Turns(p)) /\ l = ip[p].qlimit
        OBVIOUS
      <4>4. n \in Nat /\ l \in Nat /\ Cardinality(Turns(p)') = n + 1
        BY <2>5, <2>8, <3>2, <4>2, <4>3, FiniteThreads
      <4>5. Spare(p)' = c2 + (n + 1) - l /\ Spare(p) = c + n - l
        BY <2>3, <2>9, <2>10, <4>3, <4>4 DEF Spare
      <4>6. c2 + (n + 1) - l >= c + n - l
        BY <2>5, <2>6, <4>4
      <4>7. QED
        BY <4>1, <4>5, <4>6
    <3>3. QED
      BY <3>1, <3>2
  <2>20. QED
    BY <2>16, <2>17, <2>18, <2>19 DEF Counted, Promised
<1>9. QED
  BY <1>7, <1>8

-----------------------------------------------------------------------------
(* Moves lose no message.                                                  *)

\* p goes to dest, and h of its messages to the receivers there.
LEMMA MoveNums ==
    ASSUME LinkInv, NEW p \in Ports, NEW dest \in Queues, MqueueOf(p) # dest, NEW h \in Int,
           \A x \in Ports : Num(x, Deliver(dest, Moved(p)).messages) =
             Num(x, imq[dest].messages) + IF x = p THEN Len(Moved(p)) - h ELSE 0
    PROVE  \A x \in Ports :
             Num(x, ipc_mqueue_move(p, dest)[IF x = p THEN dest ELSE MqueueOf(x)].messages) =
               Num(x, imq[MqueueOf(x)].messages) - IF x = p THEN h ELSE 0
<1>1. PICK q, d, new : q = MqueueOf(p) /\ d = Deliver(dest, Moved(p))
                       /\ new = ipc_mqueue_move(p, dest)
  OBVIOUS
<1>2. /\ q \in Queues /\ new[q].messages = SentElsewhere(p, imq[q].messages)
      /\ new[dest].messages = d.messages
      /\ \A x \in Queues \ {q, dest} : new[x] = imq[x]
  BY <1>1, MoveEffect
<1>3. \A y \in Queues : imq[y].messages \in Seq(Messages)
  BY QueueTypes
<1>4. Num(p, imq[dest].messages) = 0
  <2>1. \A m \in Members(imq[dest].messages) : m.port # p
    BY DEF LinkInv, MessagesPlaced
  <2>2. QED
    BY <1>3, <2>1, NumUniform
<1>5. Len(Moved(p)) = Num(p, imq[q].messages)
  BY <1>1 DEF Moved, Num
<1>6. ASSUME NEW x \in Ports
      PROVE  Num(x, new[IF x = p THEN dest ELSE MqueueOf(x)].messages) =
               Num(x, imq[MqueueOf(x)].messages) - IF x = p THEN h ELSE 0
  <2>1. MqueueOf(x) \in Queues
    BY PortTypes
  <2>2. Num(x, imq[MqueueOf(x)].messages) \in Nat
    BY <1>3, <2>1, NumIsPositions
  <2>3. CASE x = p
    <3>1. Num(p, d.messages) = Num(p, imq[dest].messages) + (Num(p, imq[q].messages) - h)
      BY <1>1, <1>5
    <3>2. Num(p, d.messages) = Num(p, imq[q].messages) - h
      BY <1>1, <1>4, <2>2, <2>3, <3>1
    <3>3. QED
      BY <1>1, <1>2, <2>3, <3>2
  <2>4. CASE x # p /\ MqueueOf(x) = q
    <3>1. Num(x, new[q].messages) = Num(x, imq[q].messages)
      BY <1>2, <1>3, <2>4, NumSplit
    <3>2. QED
      BY <2>2, <2>4, <3>1
  <2>5. CASE x # p /\ MqueueOf(x) = dest
    <3>1. Num(x, d.messages) = Num(x, imq[dest].messages) + 0
      BY <1>1, <2>5
    <3>2. QED
      BY <1>2, <2>2, <2>5, <3>1
  <2>6. CASE x # p /\ MqueueOf(x) \notin {q, dest}
    BY <1>2, <2>1, <2>2, <2>6
  <2>7. QED
    BY <2>3, <2>4, <2>5, <2>6
<1>7. QED
  BY <1>1, <1>6

\* p goes back to its own queue, where nobody waits.
LEMMA MoveBack ==
    ASSUME LinkInv, NEW p \in Ports, ip[p].pset # None
    PROVE  \A x \in Ports :
             Num(x, ipc_mqueue_move(p, p)[IF x = p THEN p ELSE MqueueOf(x)].messages) =
               Num(x, imq[MqueueOf(x)].messages)
<1>1. imq[p].threads = <<>> /\ MqueueOf(p) # p /\ p \in Queues /\ MqueueOf(p) \in Queues
  BY PortTypes, MqueueAssumption DEF LinkInv, PortsOK, MqueueOf
<1>2. imq[MqueueOf(p)].messages \in Seq(Messages) /\ imq[p].messages \in Seq(Messages)
  BY <1>1, QueueTypes
<1>3. Moved(p) \in Seq(Messages)
  BY <1>2, SentMembers DEF Moved
<1>4. Deliver(p, Moved(p)).messages = imq[p].messages \o Moved(p)
  BY <1>1, <1>3, DeliverMessages
<1>5. PICK h \in Int : h = 0
  OBVIOUS
<1>6. ASSUME NEW x \in Ports
      PROVE  Num(x, Deliver(p, Moved(p)).messages) =
               Num(x, imq[p].messages) + IF x = p THEN Len(Moved(p)) - h ELSE 0
  <2>1. Num(x, Deliver(p, Moved(p)).messages) = Num(x, imq[p].messages) + Num(x, Moved(p))
    BY <1>2, <1>3, <1>4, NumConcat
  <2>2. Num(x, Moved(p)) = IF x = p THEN Num(p, imq[MqueueOf(p)].messages) ELSE 0
    BY <1>2, NumSplit DEF Moved
  <2>3. Len(Moved(p)) = Num(p, imq[MqueueOf(p)].messages) /\ Len(Moved(p)) \in Nat
    BY <1>3, LenProperties DEF Moved, Num
  <2>4. QED
    BY <1>5, <2>1, <2>2, <2>3
<1>7. \A x \in Ports :
        Num(x, ipc_mqueue_move(p, p)[IF x = p THEN p ELSE MqueueOf(x)].messages) =
          Num(x, imq[MqueueOf(x)].messages) - IF x = p THEN h ELSE 0
  BY <1>1, <1>6, MoveNums
<1>8. \A x \in Ports : Num(x, imq[MqueueOf(x)].messages) \in Nat
  BY PortTypes, QueueTypes, NumIsPositions
<1>9. QED
  BY <1>5, <1>7, <1>8

LEMMA PsetRemoveCounts ==
    ASSUME LinkInv, NEW p \in Ports, PsetRemove(p)
    PROVE  Counted /\ Promised
<1>1. /\ ip[p].right = "held" /\ ip[p].pset # None
      /\ ip' = [ip EXCEPT ![p].pset = None] /\ imq' = ipc_mqueue_move(p, p) /\ th' = th
  BY DEF PsetRemove, ipc_pset_remove
<1>2. \A x \in Ports : /\ ip'[x].pset = IF x = p THEN None ELSE ip[x].pset
                       /\ ip'[x].right = ip[x].right /\ ip'[x].blocked = ip[x].blocked
                       /\ ip'[x].msgcount = ip[x].msgcount /\ ip'[x].qlimit = ip[x].qlimit
  BY <1>1 DEF LinkInv, Shapes, PortShape
<1>3. Promised
  BY <1>1, <1>2, PromiseKept
<1>4. ASSUME NEW x \in Ports PROVE CountedAt(x)
  <2>1. MqueueOf(x)' = IF x = p THEN p ELSE MqueueOf(x)
    BY <1>2 DEF MqueueOf
  <2>2. Num(x, imq'[MqueueOf(x)'].messages) = Num(x, imq[MqueueOf(x)].messages)
    BY <1>1, <2>1, MoveBack
  <2>3. QED
    BY <1>1, <1>2, <2>2, CountKeptAt
<1>5. QED
  BY <1>3, <1>4 DEF Counted

LEMMA PsetAddCounts ==
    ASSUME LinkInv, NEW p \in Ports, NEW nset \in Psets, PsetAdd(p, nset)
    PROVE  Counted /\ Promised
<1>1. PICK d : d = Deliver(nset, Moved(p))
  OBVIOUS
<1>2. PICK met : met = Receivers_go(d)
  OBVIOUS
<1>3. PICK W : W = Members(imq[p].threads)
  OBVIOUS
<1>4. PICK q : q = MqueueOf(p)
  OBVIOUS
<1>5. /\ ip[p].right = "held" /\ ip[p].pset # nset
      /\ ip' = [ip EXCEPT ![p].pset = nset, ![p].seqno = @ + Cardinality(d.handed)]
      /\ imq' = ipc_mqueue_move(p, nset)
      /\ th' = thread_go(met, W, "port_changed")
  BY <1>1, <1>2, <1>3 DEF PsetAdd, ipc_pset_add, Moved, ipc_mqueue_changed
<1>6. /\ q # nset /\ p \in Queues /\ nset \in Queues /\ p # nset /\ q \in Queues /\ nset # None
  BY <1>4, <1>5, PortTypes, MqueueAssumption DEF MqueueOf, Queues
<1>7. imq[q].messages \in Seq(Messages)
  BY <1>6, QueueTypes
<1>8. Moved(p) \in Seq(Messages) /\ \A m \in Members(Moved(p)) : m.port = p
  BY <1>4, <1>7, SentMembers DEF Moved
<1>9. PICK seqno \in Nat : seqno = ip[p].seqno + Cardinality(d.handed)
  <2>1. Cardinality(d.handed) \in Nat
    BY <1>1, <1>6, <1>8, HandedCount
  <2>2. QED
    BY <2>1, PortTypes
<1>10. ip' = Joined(p, nset, seqno)
  <2>1. ip \in [Ports -> PortShape]
    BY DEF LinkInv, Shapes
  <2>2. QED
    BY <1>5, <1>9, <2>1 DEF PortShape, Joined
<1>11. ip'[p].pset = nset /\ \A x \in Ports \ {p} : ip'[x] = ip[x]
  BY <1>10, JoinedShape
<1>12. \A x \in Ports : /\ ip'[x].right = ip[x].right /\ ip'[x].blocked = ip[x].blocked
                        /\ ip'[x].msgcount = ip[x].msgcount /\ ip'[x].qlimit = ip[x].qlimit
  BY <1>10, JoinedShape
<1>13. /\ met \in [Threads -> ThreadRecord] /\ MetBy(d) \subseteq WaitingAt(nset)
       /\ \A t \in Threads \ MetBy(d) : met[t] = th[t]
  BY <1>1, <1>2, <1>6, <1>8, DeliverReceivers
<1>14. \A u \in Threads :
         IF u \in W THEN Gone(met[u], th'[u], "port_changed") /\ th'[u].kmsg = met[u].kmsg
                    ELSE th'[u] = met[u]
  BY <1>5, <1>13, ThreadGo DEF States
<1>15. W \subseteq Receivers
  BY <1>3, <1>6, QueueTypes, NoMembers
<1>16. \A t \in Senders : th'[t] = th[t]
  BY <1>13, <1>14, <1>15, ThreadTypes DEF WaitingAt
<1>17. Promised
  BY <1>12, <1>16, PromiseKept
<1>18. \A r \in Receivers : th'[r].kmsg = Receivers_go(Deliver(nset, Moved(p)))[r].kmsg
  BY <1>1, <1>2, <1>14, ThreadTypes
<1>19. Cardinality(Deliver(nset, Moved(p)).handed) \in Nat
  BY <1>6, <1>8, <1>18, DeliverCounts
<1>20. PICK h \in Nat : h = Cardinality(d.handed)
  BY <1>1, <1>19
<1>21. \A x \in Ports :
         /\ Num(x, Deliver(nset, Moved(p)).messages) =
              Num(x, imq[nset].messages) + IF x = p THEN Len(Moved(p)) - h ELSE 0
         /\ Cardinality(InHand(x)') = Cardinality(InHand(x)) + IF x = p THEN h ELSE 0
  <2>1. \A x \in Ports :
          /\ Num(x, Deliver(nset, Moved(p)).messages) =
               Num(x, imq[nset].messages)
                 + IF x = p THEN Len(Moved(p)) - Cardinality(Deliver(nset, Moved(p)).handed) ELSE 0
          /\ Cardinality(InHand(x)') =
               Cardinality(InHand(x))
                 + IF x = p THEN Cardinality(Deliver(nset, Moved(p)).handed) ELSE 0
    BY <1>6, <1>8, <1>18, DeliverCounts
  <2>2. QED
    BY <1>1, <1>20, <2>1
<1>22. \A x \in Ports :
         Num(x, imq'[IF x = p THEN nset ELSE MqueueOf(x)].messages) =
           Num(x, imq[MqueueOf(x)].messages) - IF x = p THEN h ELSE 0
  <2>1. h \in Int
    BY <1>20
  <2>2. QED
    BY <1>4, <1>5, <1>6, <1>21, <2>1, MoveNums
<1>23. ASSUME NEW x \in Ports PROVE CountedAt(x)
  <2>1. PICK queued \in Int, inhand \in Int :
          /\ queued = IF x = p THEN 0 - h ELSE 0
          /\ inhand = IF x = p THEN h ELSE 0
    OBVIOUS
  <2>2. MqueueOf(x)' = IF x = p THEN nset ELSE MqueueOf(x)
    BY <1>6, <1>11 DEF MqueueOf
  <2>3. Num(x, imq[MqueueOf(x)].messages) \in Nat /\ ip[x].msgcount \in Int
    BY PortTypes, QueueTypes, NumIsPositions
  <2>4. Num(x, imq'[MqueueOf(x)'].messages) = Num(x, imq[MqueueOf(x)].messages) + queued
    BY <1>22, <2>1, <2>2, <2>3
  <2>5. Cardinality(InHand(x)') = Cardinality(InHand(x)) + inhand
    BY <1>21, <2>1
  <2>6. ip'[x].msgcount = ip[x].msgcount + (queued + inhand)
    BY <1>12, <2>1, <2>3
  <2>7. Shift(x, queued, inhand)
    BY <2>4, <2>5, <2>6 DEF Shift
  <2>8. QED
    BY <1>12, <2>7 DEF CountedAt
<1>24. QED
  BY <1>17, <1>23 DEF Counted

LEMMA ClearedCounts ==
    ASSUME LinkInv, NEW p \in Ports
    PROVE  \A x \in Ports :
             Num(x, ClearedQueues(p)[IF x = p THEN p ELSE MqueueOf(x)].messages) =
               Num(x, imq[MqueueOf(x)].messages)
<1>1. CASE ip[p].pset # None
  BY <1>1, MoveBack DEF ClearedQueues, ipc_pset_remove
<1>2. CASE ip[p].pset = None
  <2>1. PICK queues : queues = [imq EXCEPT ![p].threads = <<>>]
    OBVIOUS
  <2>2. \A x \in Queues : queues[x].messages = imq[x].messages
    BY <2>1, PortTypes DEF LinkInv, Shapes, QueueRecord
  <2>3. MqueueOf(p) = p /\ ClearedQueues(p) = queues
    BY <1>2, <2>1 DEF MqueueOf, ClearedQueues
  <2>4. QED
    BY <2>2, <2>3, PortTypes
<1>3. QED
  BY <1>1, <1>2

LEMMA CopyinReceiveCounts ==
    ASSUME LinkInv, NEW t \in Senders, NEW p \in Ports, NEW how \in SendWaits,
           CopyinReceive(t, p, how)
    PROVE  Counted /\ Promised
<1>1. PICK m : m = [port |-> p, n |-> sent + 1, big |-> FALSE, circular |-> TRUE]
  OBVIOUS
<1>2. PICK ths : ths = ClearedThreads(p)
  OBVIOUS
<1>3. PICK ports : ports = ClearedPort(p)
  OBVIOUS
<1>4. /\ th[t].pc = "idle" /\ ip[p].right = "held"
      /\ ip' = [ports EXCEPT ![p].right = "limbo"]
      /\ imq' = ClearedQueues(p)
      /\ th' = [ths EXCEPT ![t] = CopiedSender(m, how)]
  BY <1>1, <1>2, <1>3 DEF CopyinReceive, CopiedSender
<1>5. /\ ths \in [Threads -> ThreadRecord]
      /\ \A u \in Threads :
           IF u \in Members(imq[p].threads)
           THEN Gone(th[u], ths[u], "port_died") /\ ths[u].kmsg = th[u].kmsg
           ELSE ths[u] = th[u]
  BY <1>2, <1>4, Cleared
<1>6. th'[t] = CopiedSender(m, how) /\ \A u \in Threads \ {t} : th'[u] = ths[u]
  BY <1>4, <1>5, ThreadTypes
<1>7. Members(imq[p].threads) \subseteq Receivers
  BY PortTypes, QueueTypes, NoMembers
<1>8. \A u \in Senders \ {t} : th'[u] = th[u]
  BY <1>5, <1>6, <1>7, ThreadTypes
<1>9. \A r \in Receivers : th'[r].kmsg = th[r].kmsg
  BY <1>5, <1>6, ThreadTypes
<1>10. \A x \in Ports : /\ ip'[x].pset = IF x = p THEN None ELSE ip[x].pset
                        /\ ip'[x].right = IF x = p THEN "limbo" ELSE ip[x].right
                        /\ ip'[x].blocked = ip[x].blocked
                        /\ ip'[x].msgcount = ip[x].msgcount /\ ip'[x].qlimit = ip[x].qlimit
  <2>1. ports \in [Ports -> PortShape] /\ ports[p].pset = None
    BY <1>3, ClearedShape
  <2>2. \A x \in Ports : /\ ports[x].right = ip[x].right /\ ports[x].blocked = ip[x].blocked
                         /\ ports[x].msgcount = ip[x].msgcount /\ ports[x].qlimit = ip[x].qlimit
    BY <1>3, ClearedShape
  <2>3. \A x \in Ports \ {p} : ports[x] = ip[x]
    BY <1>3, ClearedShape
  <2>4. QED
    BY <1>4, <2>1, <2>2, <2>3 DEF PortShape
<1>11. \A u \in Senders, x \in Ports : IsTurn(th'[u], x) <=> IsTurn(th[u], x)
  <2>1. CopiedSender(m, how).pc = "copied"
    BY DEF CopiedSender, Idle
  <2>2. QED
    BY <1>4, <1>6, <1>8, <2>1 DEF IsTurn
<1>12. Promised
  BY <1>10, <1>11, PromiseKeptAt DEF Promised
<1>13. ASSUME NEW x \in Ports PROVE CountedAt(x)
  <2>1. MqueueOf(x)' = IF x = p THEN p ELSE MqueueOf(x)
    BY <1>10 DEF MqueueOf
  <2>2. Num(x, imq'[MqueueOf(x)'].messages) = Num(x, imq[MqueueOf(x)].messages)
    BY <1>4, <2>1, ClearedCounts
  <2>3. ip'[x].right # "dead" => ip[x].right # "dead"
    BY <1>4, <1>10
  <2>4. QED
    BY <1>9, <1>10, <2>2, <2>3, CountKeptAt
<1>14. QED
  BY <1>12, <1>13 DEF Counted

LEMMA PortDestroyCounts ==
    ASSUME LinkInv, NEW p \in Ports, PortDestroy(p)
    PROVE  Counted /\ Promised
<1>1. PICK ths, ports, queues, G :
        /\ ths = ClearedThreads(p) /\ ports = ClearedPort(p) /\ queues = ClearedQueues(p)
        /\ G = Members(ip[p].blocked)
  OBVIOUS
<1>2. /\ ip[p].right = "held"
      /\ ip' = DeadPort(ports, p) /\ imq' = EmptyQueue(queues, p)
      /\ th' = thread_go(ths, G, "success")
  BY <1>1 DEF PortDestroy, SendersGo
<1>3. p \in Queues /\ Members(imq[p].threads) \subseteq Receivers /\ G \subseteq Senders
  BY <1>1, PortTypes, QueueTypes, NoMembers
<1>4. queues \in [Queues -> QueueRecord]
  BY <1>1, <1>2, Cleared
<1>5. /\ ths \in [Threads -> ThreadRecord]
      /\ \A u \in Threads :
           IF u \in Members(imq[p].threads)
           THEN Gone(th[u], ths[u], "port_died") /\ ths[u].kmsg = th[u].kmsg
           ELSE ths[u] = th[u]
  BY <1>1, <1>2, Cleared
<1>6. \A u \in Threads :
        IF u \in G THEN Gone(ths[u], th'[u], "success") /\ th'[u].kmsg = ths[u].kmsg
                   ELSE th'[u] = ths[u]
  BY <1>2, <1>5, ThreadGo DEF States
<1>7. \A u \in Threads : th'[u].kmsg = th[u].kmsg
  BY <1>5, <1>6
<1>8. \A u \in Senders \ G : th'[u] = th[u]
  BY <1>3, <1>5, <1>6, ThreadTypes
<1>9. \A x \in Queues \ {p} : imq'[x] = queues[x]
  BY <1>2, <1>4 DEF EmptyQueue
<1>10. /\ ip'[p].right = "dead" /\ ip'[p].blocked = <<>> /\ ip'[p].msgcount = ip[p].msgcount
       /\ \A x \in Ports \ {p} : ip'[x] = ip[x]
  <2>1. ports \in [Ports -> PortShape] /\ ports[p].pset = None
    BY <1>1, ClearedShape
  <2>2. ports[p].msgcount = ip[p].msgcount
    BY <1>1, ClearedShape
  <2>3. \A x \in Ports \ {p} : ports[x] = ip[x]
    BY <1>1, ClearedShape
  <2>4. QED
    BY <1>2, <2>1, <2>2, <2>3 DEF DeadPort, PortShape
<1>11. Counted
  <2> SUFFICES ASSUME NEW x \in Ports PROVE CountedAt(x)
    BY DEF Counted
  <2>1. CASE x = p
    BY <1>10, <2>1 DEF CountedAt
  <2>2. CASE x # p
    <3>1. MqueueOf(x)' = MqueueOf(x) /\ MqueueOf(x) \in Queues /\ ip'[x] = ip[x]
      BY <1>10, <2>2, PortTypes DEF MqueueOf
    <3>2. MqueueOf(x) # p
      BY <2>2, PortTypes, MqueueAssumption DEF MqueueOf
    <3>3. imq'[MqueueOf(x)'] = queues[MqueueOf(x)]
      BY <1>9, <3>1, <3>2
    <3>4. Num(x, queues[MqueueOf(x)].messages) = Num(x, imq[MqueueOf(x)].messages)
      BY <1>1, <2>2, ClearedCounts
    <3>5. \A r \in Receivers : th'[r].kmsg = th[r].kmsg
      BY <1>7, ThreadTypes
    <3>6. QED
      BY <3>1, <3>3, <3>4, <3>5, CountKeptAt
  <2>3. QED
    BY <2>1, <2>2
<1>12. Promised
  <2> SUFFICES ASSUME NEW x \in Ports PROVE PromisedAt(x)
    BY DEF Promised
  <2>1. CASE x = p
    BY <1>10, <2>1 DEF PromisedAt
  <2>2. CASE x # p
    <3>1. ip'[x] = ip[x]
      BY <1>10, <2>2
    <3>2. ASSUME NEW u \in Senders PROVE IsTurn(th'[u], x) <=> IsTurn(th[u], x)
      <4>1. CASE u \in G
        <5>1. th[u].kmsg.port = p
          BY <1>1, <4>1 DEF LinkInv, SenderLinks, BlockedAt
        <5>2. th'[u].kmsg = th[u].kmsg
          BY <1>7, ThreadTypes
        <5>3. QED
          BY <2>2, <5>1, <5>2 DEF IsTurn
      <4>2. CASE u \notin G
        BY <1>8, <4>2
      <4>3. QED
        BY <4>1, <4>2
    <3>3. QED
      BY <3>1, <3>2, PromiseKeptAt
  <2>3. QED
    BY <2>1, <2>2
<1>13. QED
  BY <1>11, <1>12

-----------------------------------------------------------------------------
(* The receivers take what is queued into their hands.                     *)

QueueIn(ports, x) == IF ports[x].pset = None THEN x ELSE ports[x].pset

\* The loop finds the messages and counts there are.
FoundCounts(ports, queues) ==
    /\ ports \in [Ports -> PortShape] /\ queues \in [Queues -> QueueRecord]
    /\ \A x \in Ports :
         /\ ports[x].right = ip[x].right /\ ports[x].blocked = ip[x].blocked
         /\ ports[x].msgcount = ip[x].msgcount /\ ports[x].qlimit = ip[x].qlimit
         /\ Num(x, queues[QueueIn(ports, x)].messages) = Num(x, imq[MqueueOf(x)].messages)

\* Receiver r, which has no message, has none now either.
LEMMA NothingTaken ==
    ASSUME LinkInv, NEW r \in Receivers, NEW ports, NEW queues, FoundCounts(ports, queues),
           ip' = ports,
           \A x \in Queues : imq'[x].messages = queues[x].messages,
           th'[r].kmsg = th[r].kmsg, \A u \in Threads \ {r} : th'[u] = th[u]
    PROVE  Counted /\ Promised
<1>1. \A x \in Ports : /\ ip'[x].right = ip[x].right /\ ip'[x].blocked = ip[x].blocked
                       /\ ip'[x].msgcount = ip[x].msgcount /\ ip'[x].qlimit = ip[x].qlimit
  BY DEF FoundCounts
<1>2. (\A t \in Senders : th'[t] = th[t]) /\ (\A u \in Receivers : th'[u].kmsg = th[u].kmsg)
  BY ThreadTypes
<1>3. Promised
  BY <1>1, <1>2, PromiseKept
<1>4. ASSUME NEW x \in Ports PROVE CountedAt(x)
  <2>1. MqueueOf(x)' = QueueIn(ports, x)
    BY DEF MqueueOf, QueueIn
  <2>2. QueueIn(ports, x) \in Queues
    BY DEF FoundCounts, PortShape, QueueIn, Queues
  <2>3. Num(x, imq'[MqueueOf(x)'].messages) = Num(x, imq[MqueueOf(x)].messages)
    BY <2>1, <2>2 DEF FoundCounts
  <2>4. QED
    BY <1>1, <1>2, <2>3, CountKeptAt
<1>5. QED
  BY <1>3, <1>4 DEF Counted

\* Receiver r takes the first message of queue q.
LEMMA FirstTaken ==
    ASSUME LinkInv, NEW r \in Receivers, NEW ports, NEW queues, FoundCounts(ports, queues),
           Found(r, ports, queues), NEW q \in Queues, NEW m, queues[q].messages # <<>>,
           m = Head(queues[q].messages),
           th[r].kmsg = None, th'[r].kmsg = m, \A u \in Threads \ {r} : th'[u] = th[u],
           ip' = Numbered(ports, m.port),
           imq' = [queues EXCEPT ![q].messages = Tail(@)]
    PROVE  Counted /\ Promised
<1>1. PICK ms : ms = queues[q].messages
  OBVIOUS
<1>2. /\ ports \in [Ports -> PortShape] /\ queues \in [Queues -> QueueRecord]
      /\ \A y \in Queues : queues[y].messages \in Seq(Messages)
  BY DEF FoundCounts, QueueRecord
<1>3. /\ m \in Messages /\ m # None /\ m.port \in Ports /\ m \in Members(ms)
      /\ Tail(ms) \in Seq(Messages)
  BY <1>1, <1>2, TailMembers, MessageShape
<1>4. ip_active(m.port) /\ q = QueueIn(ports, m.port)
  BY <1>1, <1>3 DEF Found, QueueIn
<1>5. \A x \in Ports : /\ ip'[x].right = ip[x].right /\ ip'[x].blocked = ip[x].blocked
                       /\ ip'[x].msgcount = ip[x].msgcount /\ ip'[x].qlimit = ip[x].qlimit
                       /\ ip'[x].pset = ports[x].pset
  <2>1. \A x \in Ports : /\ ip'[x].right = ports[x].right /\ ip'[x].pset = ports[x].pset
                         /\ ip'[x].blocked = ports[x].blocked
                         /\ ip'[x].msgcount = ports[x].msgcount
                         /\ ip'[x].qlimit = ports[x].qlimit
    BY <1>2, <1>3, NumberedShape
  <2>2. QED
    BY <2>1 DEF FoundCounts
<1>6. \A t \in Senders : th'[t] = th[t]
  BY ThreadTypes
<1>7. Promised
  BY <1>5, <1>6, PromiseKept
<1>8. \A y \in Queues : imq'[y].messages = IF y = q THEN Tail(ms) ELSE queues[y].messages
  BY <1>1, <1>2 DEF QueueRecord
<1>9. ASSUME NEW x \in Ports PROVE CountedAt(x)
  <2>0. (IF x = m.port THEN 0 - 1 ELSE 0) \in Int /\ (IF x = m.port THEN 1 ELSE 0) \in Int
    OBVIOUS
  <2>1. PICK k \in Int, j \in Int :
          /\ k = IF x = m.port THEN 0 - 1 ELSE 0
          /\ j = IF x = m.port THEN 1 ELSE 0
    BY <2>0
  <2>2. PICK y : y = QueueIn(ports, x)
    OBVIOUS
  <2>3. y = MqueueOf(x)' /\ y \in Queues
    BY <1>2, <1>5, <2>2 DEF MqueueOf, QueueIn, PortShape, Queues
  <2>4. Num(x, queues[y].messages) = Num(x, imq[MqueueOf(x)].messages)
    BY <2>2 DEF FoundCounts
  <2>5. Num(x, imq'[y].messages) = Num(x, queues[y].messages) + k
    <3>1. CASE y = q
      <4>1. Num(x, ms) = Num(x, Tail(ms)) + IF m.port = x THEN 1 ELSE 0
        BY <1>1, <1>2, NumTail
      <4>2. Num(x, ms) \in Nat /\ Num(x, Tail(ms)) \in Nat
        BY <1>1, <1>2, <1>3, NumIsPositions
      <4>3. Num(x, imq'[y].messages) = Num(x, Tail(ms))
        BY <1>8, <3>1
      <4>4. Num(x, Tail(ms)) = Num(x, ms) + k
        BY <2>1, <4>1, <4>2
      <4>5. QED
        BY <1>1, <3>1, <4>3, <4>4
    <3>2. CASE y # q
      <4>1. x # m.port
        BY <1>4, <2>2, <3>2
      <4>2. Num(x, queues[y].messages) \in Nat
        BY <1>2, <2>3, NumIsPositions
      <4>3. QED
        BY <1>8, <2>1, <2>3, <3>2, <4>1, <4>2
    <3>3. QED
      BY <3>1, <3>2
  <2>6. IsFiniteSet(InHand(x)) /\ Cardinality(InHand(x)) \in Nat
    BY FiniteThreads
  <2>7. Cardinality(InHand(x)') = Cardinality(InHand(x)) + j
    <3>1. r \notin InHand(x)
      BY DEF InHand
    <3>2. CASE x = m.port
      <4>1. InHand(x)' = InHand(x) \cup {r}
        BY <1>3, <3>2, ThreadTypes DEF InHand
      <4>2. Cardinality(InHand(x) \cup {r}) = Cardinality(InHand(x)) + 1
        BY <2>6, <3>1, FS_AddElement
      <4>3. QED
        BY <2>1, <3>2, <4>1, <4>2
    <3>3. CASE x # m.port
      <4>1. InHand(x)' = InHand(x)
        BY <1>3, <3>3, ThreadTypes DEF InHand
      <4>2. QED
        BY <2>1, <2>6, <3>3, <4>1
    <3>4. QED
      BY <3>2, <3>3
  <2>8. ip'[x].msgcount = ip[x].msgcount + (k + j)
    BY <1>5, <2>1, PortTypes
  <2>9. Shift(x, k, j)
    BY <2>3, <2>4, <2>5, <2>7, <2>8 DEF Shift
  <2>10. QED
    BY <1>5, <2>9 DEF CountedAt
<1>10. QED
  BY <1>7, <1>9 DEF Counted

LEMMA ReceiveLoopCounts ==
    ASSUME LinkInv, NEW r \in Receivers, NEW ports, NEW queues, FoundCounts(ports, queues),
           Found(r, ports, queues), th[r].kmsg = None,
           NEW q \in Queues, NEW how, NEW buf, ReceiveLoop(r, q, how, buf, ports, queues)
    PROVE  Counted /\ Promised
<1>1. r \in Threads /\ queues \in [Queues -> QueueRecord]
  BY ThreadTypes DEF FoundCounts
<1>2. CASE th' = Return(th, r) /\ ip' = ports /\ imq' = queues
  <2>1. th'[r] = Idle /\ \A u \in Threads \ {r} : th'[u] = th[u]
    BY <1>1, <1>2, ThreadTypes, ReturnShape
  <2>2. th'[r].kmsg = th[r].kmsg
    BY <2>1, IdleShape
  <2>3. QED
    BY <1>2, <2>1, <2>2, NothingTaken
<1>3. ASSUME queues[q].messages # <<>>, NEW m, m = Head(queues[q].messages),
             th' = [th EXCEPT ![r] = ReceiverGot(q, how, buf, m)],
             ip' = Numbered(ports, m.port),
             imq' = [queues EXCEPT ![q].messages = Tail(@)]
      PROVE  Counted /\ Promised
  <2>1. ReceiverGot(q, how, buf, m).kmsg = m
    BY DEF ReceiverGot, Idle
  <2>2. th'[r].kmsg = m /\ \A u \in Threads \ {r} : th'[u] = th[u]
    BY <1>1, <1>3, <2>1, ThreadTypes
  <2>3. QED
    BY <1>3, <2>2, FirstTaken
<1>4. CASE /\ th' = [th EXCEPT ![r] = BlockedReceiver(q, how, buf)]
           /\ ip' = ports /\ imq' = [queues EXCEPT ![q].threads = Append(@, r)]
  <2>1. BlockedReceiver(q, how, buf).kmsg = None
    BY DEF BlockedReceiver, Idle
  <2>2. th'[r].kmsg = th[r].kmsg /\ \A u \in Threads \ {r} : th'[u] = th[u]
    BY <1>1, <1>4, <2>1, ThreadTypes
  <2>3. \A x \in Queues : imq'[x].messages = queues[x].messages
    BY <1>1, <1>4 DEF QueueRecord
  <2>4. QED
    BY <1>4, <2>2, <2>3, NothingTaken
<1>5. \/ th' = Return(th, r) /\ ip' = ports /\ imq' = queues
      \/ LET m == Head(queues[q].messages) IN
         /\ queues[q].messages # <<>>
         /\ th' = [th EXCEPT ![r] = ReceiverGot(q, how, buf, m)]
         /\ ip' = Numbered(ports, m.port)
         /\ imq' = [queues EXCEPT ![q].messages = Tail(@)]
      \/ /\ th' = [th EXCEPT ![r] = BlockedReceiver(q, how, buf)]
         /\ ip' = ports /\ imq' = [queues EXCEPT ![q].threads = Append(@, r)]
  BY DEF ReceiveLoop, ReceiverGot, BlockedReceiver, Numbered
<1>6. PICK m : m = Head(queues[q].messages)
  OBVIOUS
<1>7. QED
  BY <1>2, <1>3, <1>4, <1>5, <1>6

\* The ports are as they are, and the queues have the messages they have.
LEMMA FoundCountsHere ==
    ASSUME LinkInv, NEW queues, queues \in [Queues -> QueueRecord],
           \A x \in Queues : queues[x].messages = imq[x].messages
    PROVE  FoundCounts(ip, queues)
<1>1. ip \in [Ports -> PortShape]
  BY DEF LinkInv, Shapes
<1>2. \A x \in Ports : QueueIn(ip, x) = MqueueOf(x) /\ MqueueOf(x) \in Queues
  BY PortTypes DEF QueueIn, MqueueOf
<1>3. QED
  BY <1>1, <1>2 DEF FoundCounts

LEMMA FoundCountsTakenOut ==
    ASSUME LinkInv, NEW p \in Ports, ip[p].pset # None, NEW ports,
           ports = [ip EXCEPT ![p].pset = None], NEW r, Found(r, ports, ipc_pset_remove(p))
    PROVE  FoundCounts(ports, ipc_pset_remove(p))
<1>1. PICK queues : queues = ipc_pset_remove(p)
  OBVIOUS
<1>2. queues \in [Queues -> QueueRecord]
  BY <1>1 DEF Found
<1>3. /\ ports \in [Ports -> PortShape]
      /\ \A x \in Ports : /\ ports[x].pset = IF x = p THEN None ELSE ip[x].pset
                          /\ ports[x].right = ip[x].right /\ ports[x].blocked = ip[x].blocked
                          /\ ports[x].msgcount = ip[x].msgcount
                          /\ ports[x].qlimit = ip[x].qlimit
  BY DEF LinkInv, Shapes, PortShape
<1>4. \A x \in Ports : QueueIn(ports, x) = IF x = p THEN p ELSE MqueueOf(x)
  BY <1>3 DEF QueueIn, MqueueOf
<1>5. \A x \in Ports : Num(x, queues[IF x = p THEN p ELSE MqueueOf(x)].messages) =
                         Num(x, imq[MqueueOf(x)].messages)
  BY <1>1, MoveBack DEF ipc_pset_remove
<1>6. QED
  BY <1>1, <1>2, <1>3, <1>4, <1>5 DEF FoundCounts

LEMMA ReceiveCounts ==
    ASSUME LinkInv, NEW r \in Receivers, NEW q \in Queues, NEW how \in RcvWaits,
           NEW buf \in Buffers, Receive(r, q, how, buf)
    PROVE  Counted /\ Promised
<1>1. th[r].ith_state # "in_progress" /\ th[r].kmsg = None
  <2>1. ReceiverOK(th[r]) /\ th[r].pc = "idle"
    BY DEF LinkInv, ReceiversOK, Receive
  <2>2. QED
    BY <2>1 DEF ReceiverOK
<1>2. CASE ReceiveLoop(r, q, how, buf, ip, imq)
  <2>1. Found(r, ip, imq)
    BY <1>1, FoundIdle
  <2>2. FoundCounts(ip, imq)
    BY FoundCountsHere DEF LinkInv, Shapes
  <2>3. QED
    BY <1>1, <1>2, <2>1, <2>2, ReceiveLoopCounts
<1>3. CASE /\ q \in Ports /\ ip[q].right = "held" /\ ip[q].pset # None
           /\ ReceiveLoop(r, q, how, buf, [ip EXCEPT ![q].pset = None], ipc_pset_remove(q))
  <2>1. PICK ports, queues : ports = [ip EXCEPT ![q].pset = None] /\ queues = ipc_pset_remove(q)
    OBVIOUS
  <2>2. Found(r, ports, queues)
    BY <1>1, <1>3, <2>1, FoundTakenOut
  <2>3. FoundCounts(ports, queues)
    BY <1>3, <2>1, <2>2, FoundCountsTakenOut
  <2>4. ReceiveLoop(r, q, how, buf, ports, queues)
    BY <1>3, <2>1
  <2>5. QED
    BY <1>1, <2>2, <2>3, <2>4, ReceiveLoopCounts
<1>4. None \notin Psets
  BY MqueueAssumption
<1>5. QED
  BY <1>2, <1>3, <1>4 DEF Receive

LEMMA ReceiveResumeCounts ==
    ASSUME LinkInv, NEW r \in Threads, ReceiveResume(r)
    PROVE  Counted /\ Promised
<1>1. /\ r \in Receivers /\ th[r].pc = "blocked" /\ ReceiverOK(th[r]) /\ th[r] \in ThreadRecord
  BY ThreadTypes DEF ReceiveResume, LinkInv, ReceiversOK
<1>2. FoundCounts(ip, imq)
  BY FoundCountsHere DEF LinkInv, Shapes
<1>3. CASE th' = [th EXCEPT ![r].pc = "got"] /\ ip' = ip /\ imq' = imq
  <2>1. th'[r].kmsg = th[r].kmsg /\ \A u \in Threads \ {r} : th'[u] = th[u]
    BY <1>1, <1>3, ThreadTypes DEF ThreadRecord
  <2>2. QED
    BY <1>1, <1>2, <1>3, <2>1, NothingTaken
<1>4. ASSUME NEW queues, th[r].kmsg = None, FoundCounts(ip, queues), th' = Return(th, r),
             ip' = ip, imq' = queues
      PROVE  Counted /\ Promised
  <2>1. th'[r] = Idle /\ \A u \in Threads \ {r} : th'[u] = th[u]
    BY <1>4, ThreadTypes, ReturnShape
  <2>2. th'[r].kmsg = th[r].kmsg
    BY <1>4, <2>1, IdleShape
  <2>3. QED
    BY <1>1, <1>4, <2>1, <2>2, NothingTaken
<1>5. CASE /\ \/ th[r].ith_state \in {"port_died", "port_changed"}
              \/ th[r].ith_state = "too_large" /\ th[r].buf = "large"
           /\ th' = Return(th, r) /\ ip' = ip /\ imq' = imq
  <2>1. th[r].kmsg = None
    BY <1>1, <1>5 DEF ReceiverOK
  <2>2. QED
    BY <1>2, <1>4, <1>5, <2>1
<1>6. ASSUME th[r].ith_state = "in_progress",
             NEW queues, queues = [imq EXCEPT ![th[r].mq].threads = Unlinked(@, r)]
      PROVE  /\ th[r].kmsg = None /\ Found(r, ip, queues) /\ th[r].mq \in Queues
             /\ FoundCounts(ip, queues)
  <2>1. Found(r, ip, queues) /\ th[r].mq \in Queues
    BY <1>1, <1>6, FoundWithdrawn
  <2>2. queues \in [Queues -> QueueRecord]
    BY <2>1 DEF Found
  <2>3. \A x \in Queues : queues[x].messages = imq[x].messages
    BY <1>6, <2>1 DEF LinkInv, Shapes, QueueRecord
  <2>4. th[r].kmsg = None
    BY <1>1, <1>6 DEF ReceiverOK
  <2>5. QED
    BY <2>1, <2>2, <2>3, <2>4, FoundCountsHere
<1>7. PICK queues : queues = [imq EXCEPT ![th[r].mq].threads = Unlinked(@, r)]
  OBVIOUS
<1>8. CASE /\ th[r].ith_state = "in_progress"
           /\ th' = Return(th, r) /\ ip' = ip /\ imq' = queues
  BY <1>4, <1>6, <1>7, <1>8
<1>9. CASE /\ th[r].ith_state = "in_progress"
           /\ ReceiveLoop(r, th[r].mq, "poll", th[r].buf, ip, queues)
  <2>1. /\ th[r].kmsg = None /\ Found(r, ip, queues) /\ th[r].mq \in Queues
        /\ FoundCounts(ip, queues)
    BY <1>6, <1>7, <1>9
  <2>2. PICK q, how, buf : q = th[r].mq /\ how = "poll" /\ buf = th[r].buf
    OBVIOUS
  <2>3. q \in Queues /\ ReceiveLoop(r, q, how, buf, ip, queues)
    BY <1>9, <2>1, <2>2
  <2>4. QED
    BY <1>1, <2>1, <2>3, ReceiveLoopCounts
<1>10. QED
  BY <1>3, <1>5, <1>7, <1>8, <1>9 DEF ReceiveResume

-----------------------------------------------------------------------------
(* The counts, in every reachable state.                                   *)

LEMMA CountsInit == Init => CountInv /\ NoSenderBelowLimit
<1> SUFFICES ASSUME Init PROVE CountInv /\ NoSenderBelowLimit
  OBVIOUS
<1>1. \A p \in Ports : ip[p].blocked = <<>> /\ ip[p].msgcount = 0 /\ ip[p].pset = None
  BY DEF Init
<1>2. ASSUME NEW p \in Ports
      PROVE  ip[p].msgcount = Len(Queued(p)) + Cardinality(InHand(p))
  <2>1. imq[MqueueOf(p)].messages = <<>>
    BY <1>1 DEF Init, MqueueOf, Queues
  <2>2. <<>> \in Seq(Messages) /\ Members(<<>>) = {}
    BY NoMembers
  <2>3. Num(p, <<>>) = 0
    BY <2>2, NumUniform
  <2>4. InHand(p) = {}
    BY IdleShape DEF Init, InHand, Threads
  <2>5. Len(Queued(p)) = 0 /\ Cardinality(InHand(p)) = 0
    BY <2>1, <2>3, <2>4, FS_EmptySet DEF Queued, Num
  <2>6. QED
    BY <1>1, <2>5
<1>3. CountInv
  BY <1>1, <1>2 DEF CountInv, CountExact
<1>4. NoSenderBelowLimit
  BY <1>1 DEF NoSenderBelowLimit
<1>5. QED
  BY <1>3, <1>4

LEMMA StepCounts ==
    ASSUME LinkInv, [Next]_vars
    PROVE  Counted /\ Promised
<1>1. ASSUME NEW t \in Senders, NEW p \in Ports, NEW how \in SendWaits, NEW big \in Sizes,
             Send(t, p, how, big)
      PROVE  Counted /\ Promised
  BY <1>1, SendTries, TryCounts
<1>2. ASSUME NEW t \in Senders, NEW p \in Ports, NEW how \in SendWaits, CopyinReceive(t, p, how)
      PROVE  Counted /\ Promised
  BY <1>2, CopyinReceiveCounts
<1>3. ASSUME NEW r \in Receivers, NEW q \in Queues, NEW how \in RcvWaits, NEW buf \in Buffers,
             Receive(r, q, how, buf)
      PROVE  Counted /\ Promised
  BY <1>3, ReceiveCounts
<1>4. ASSUME NEW t \in Threads, SendCopied(t) PROVE Counted /\ Promised
  BY <1>4, SendCopiedTries, TryCounts
<1>5. ASSUME NEW t \in Threads, SendResume(t) PROVE Counted /\ Promised
  BY <1>5, SendResumeTries, TryCounts
<1>6. ASSUME NEW t \in Threads, ReceiveResume(t) PROVE Counted /\ Promised
  BY <1>6, ReceiveResumeCounts
<1>7. ASSUME NEW t \in Threads, ReceiveDone(t) PROVE Counted /\ Promised
  BY <1>7, ReceiveDoneCounts
<1>8. ASSUME NEW t \in Threads, Timeout(t) \/ Interrupt(t) PROVE Counted /\ Promised
  <2>1. PICK w : th' = [th EXCEPT ![t].wait = w] /\ ip' = ip /\ imq' = imq
    BY <1>8 DEF Timeout, Interrupt
  <2>2. QED
    BY <2>1, WaitEndsCounts
<1>9. ASSUME NEW p \in Ports, NEW qlimit \in QLimits, SetQlimit(p, qlimit)
      PROVE  Counted /\ Promised
  BY <1>9, SetQlimitCounts
<1>10. ASSUME NEW p \in Ports, NEW s \in Psets, PsetAdd(p, s) PROVE Counted /\ Promised
  BY <1>10, PsetAddCounts
<1>11. ASSUME NEW p \in Ports, PsetRemove(p) \/ PortDestroy(p) PROVE Counted /\ Promised
  BY <1>11, PsetRemoveCounts, PortDestroyCounts
<1>12. ASSUME NEW s \in Psets, PsetDestroy(s) PROVE Counted /\ Promised
  BY <1>12, PsetDestroyCounts
<1>13. CASE UNCHANGED vars
  <2>1. ip' = ip /\ imq' = imq /\ th' = th
    BY <1>13 DEF vars
  <2>2. Counted
    BY <2>1, CountKept
  <2>3. Promised
    BY <2>1, PromiseKept
  <2>4. QED
    BY <2>2, <2>3
<1>14. QED
  BY <1>1, <1>2, <1>3, <1>4, <1>5, <1>6, <1>7, <1>8, <1>9, <1>10, <1>11, <1>12, <1>13
     DEF Next, Step

LEMMA CountsStep ==
    LinkInv /\ CountInv /\ NoSenderBelowLimit /\ [Next]_vars => CountInv' /\ NoSenderBelowLimit'
<1> SUFFICES ASSUME LinkInv, CountInv, NoSenderBelowLimit, [Next]_vars
             PROVE  CountInv' /\ NoSenderBelowLimit'
  OBVIOUS
<1>1. LinkInv'
  BY LinkInvStep
<1>2. Counted /\ Promised
  BY StepCounts
<1>3. QED
  BY <1>1, <1>2, CountsStayExact, PromisesKept

(* ip_msgcount of a live port is the number of its messages that are       *)
(* queued, in its own queue or a set's, or in the hands of a receiver that *)
(* has not locked the port yet; the window between the queue lock and the  *)
(* port lock in ipc_mqueue_receive loses and duplicates no count.          *)
THEOREM CountsAreExact == Spec => []CountExact
<1>1. CountInv => CountExact
  BY DEF CountInv
<1>2. QED
  BY <1>1, CountsInit, CountsStep, LinkInvariance, PTL DEF Spec

(* While a sender sleeps in ip_blocked the messages counted and the turns  *)
(* given but not used make up the limit: a timeout, an abort, a change of  *)
(* the limit or a sender that slips in never loses a turn.                 *)
THEOREM TurnsAreKept == Spec => []NoSenderBelowLimit
<1>1. QED
  BY CountsInit, CountsStep, LinkInvariance, PTL DEF Spec

(* The variables keep the types of the C structures; ip_msgcount, which    *)
(* the receivers lower without a test, never goes below zero.              *)
THEOREM TypeCorrect == Spec => []TypeOK
<1>1. LinkInv /\ CountInv => TypeOK
  <2> SUFFICES ASSUME LinkInv, CountInv PROVE TypeOK
    OBVIOUS
  <2>1. ip \in [Ports -> PortRecord]
    <3>1. ip \in [Ports -> PortShape] /\ \A p \in Ports : ip[p].msgcount \in Nat
      BY DEF LinkInv, Shapes, CountInv
    <3>2. QED
      BY <3>1 DEF PortShape, PortRecord
  <2>2. ASSUME NEW t \in Threads, th[t].pc \in {"copied", "got"}
        PROVE  th[t].kmsg # None
    <3>1. (t \in Senders /\ SenderOK(th[t])) \/ (t \in Receivers /\ ReceiverOK(th[t]))
      BY DEF LinkInv, SendersOK, ReceiversOK, Threads
    <3>2. QED
      BY <2>2, <3>1 DEF SenderOK, ReceiverOK
  <2>3. QED
    BY <2>1, <2>2 DEF TypeOK, LinkInv, Shapes
<1>2. QED
  BY <1>1, CountsInit, CountsStep, LinkInvariance, PTL DEF Spec
=============================================================================
