-------------------------- MODULE Mqueue_refinement --------------------------
(***************************************************************************)
(* The message queues implement PortFifo: every step of Mqueue is a step   *)
(* of the FIFO channels, or leaves them alone.                             *)
(***************************************************************************)
EXTENDS Mqueue_proofs

-----------------------------------------------------------------------------
(* The messages of a port, in their order.                                 *)

\* The only way to count through a set upwards is Nth.
LEMMA Enumerated ==
    ASSUME NEW K \in SUBSET Nat, NEW n \in Nat, NEW f \in [1 .. n -> K],
           \A i, j \in 1 .. n : i < j => f[i] < f[j],
           \A k \in K : \E j \in 1 .. n : f[j] = k
    PROVE  /\ IsFiniteSet(K) /\ Cardinality(K) = n
           /\ \A j \in 1 .. n : f[j] = Nth(K, j)
<1>0. \A i \in 1 .. n : f[i] \in K /\ f[i] \in Nat /\ i \in Nat
  <2>1. \A k \in K : k \in Nat
    OBVIOUS
  <2>2. \A i \in 1 .. n : f[i] \in K /\ i \in Nat
    OBVIOUS
  <2>3. QED
    BY <2>1, <2>2
<1>1. \A i, j \in 1 .. n : f[i] = f[j] => i = j
  <2> SUFFICES ASSUME NEW i \in 1 .. n, NEW j \in 1 .. n, f[i] = f[j], i # j PROVE FALSE
    OBVIOUS
  <2>1. f[i] \in Nat /\ (i < j \/ j < i)
    BY <1>0
  <2>2. QED
    BY <2>1
<1>2. IsFiniteSet(1 .. n) /\ Cardinality(1 .. n) = n
  BY FS_Interval
<1>3. IsFiniteSet(K) /\ Cardinality(K) = n
  BY <1>1, <1>2, SameCardinality
<1>4. ASSUME NEW i \in 1 .. n PROVE Cardinality({k \in K : k <= f[i]}) = i
  <2> DEFINE L == {k \in K : k <= f[i]}
             g == [j \in 1 .. i |-> f[j]]
  <2>1. \A j \in 1 .. i : j \in 1 .. n /\ (j = i \/ j < i)
    OBVIOUS
  <2>2. ASSUME NEW j \in 1 .. i PROVE f[j] \in K /\ f[j] <= f[i]
    <3>1. j \in 1 .. n /\ i \in 1 .. n /\ (j = i \/ f[j] < f[i])
      BY <2>1
    <3>2. f[j] \in K /\ f[j] \in Nat /\ f[i] \in Nat
      BY <1>0, <3>1
    <3>3. QED
      BY <3>1, <3>2
  <2>3. g \in [1 .. i -> L] /\ \A a, b \in 1 .. i : g[a] = g[b] => a = b
    BY <1>1, <2>1, <2>2
  <2>4. ASSUME NEW k \in L PROVE \E j \in 1 .. i : g[j] = k
    <3>1. PICK j \in 1 .. n : f[j] = k
      OBVIOUS
    <3>2. ~(i < j)
      <4>1. f[i] \in Nat /\ f[j] \in Nat /\ f[j] <= f[i]
        BY <3>1
      <4>2. i < j => f[i] < f[j]
        OBVIOUS
      <4>3. QED
        BY <4>1, <4>2
    <3>3. j \in 1 .. i
      BY <3>2
    <3>4. QED
      BY <3>1, <3>3
  <2>5. IsFiniteSet(1 .. i) /\ Cardinality(1 .. i) = i
    BY FS_Interval
  <2> HIDE DEF L, g
  <2>6. Cardinality(L) = i
    BY <2>3, <2>4, <2>5, SameCardinality
  <2>7. QED
    BY <2>6 DEF L
<1>5. ASSUME NEW j \in 1 .. n PROVE f[j] = Nth(K, j)
  <2>1. f[j] \in K /\ Cardinality({k \in K : k <= f[j]}) = j
    BY <1>4
  <2>2. Nth(K, j) \in K /\ Cardinality({k \in K : k <= Nth(K, j)}) = j
    BY <2>1 DEF Nth
  <2>3. PICK i \in 1 .. n : f[i] = Nth(K, j)
    BY <2>2
  <2>4. i = j
    BY <1>4, <2>2, <2>3
  <2>5. QED
    BY <2>3, <2>4
<1>6. QED
  BY <1>3, <1>5

\* f goes through the messages of p among ms.
Goes(f, u, p, ms) ==
    /\ f \in [DOMAIN u -> At(p, ms)]
    /\ \A i, j \in DOMAIN u : i < j => f[i] < f[j]
    /\ \A k \in At(p, ms) : \E j \in DOMAIN u : f[j] = k
    /\ \A j \in DOMAIN u : u[j] = ms[f[j]]

LEMMA SentIs ==
    ASSUME NEW ms \in Seq(Messages), NEW p, NEW u \in Seq(Messages), NEW f, Goes(f, u, p, ms)
    PROVE  SentTo(p, ms) = u
<1>1. PICK n \in Nat : n = Len(u)
  BY LenProperties
<1>2. DOMAIN u = 1 .. n /\ u = [j \in 1 .. n |-> u[j]]
  BY <1>1, LenProperties
<1>3. PICK K : K = At(p, ms)
  OBVIOUS
<1>4. K \in SUBSET Nat
  BY <1>3, LenProperties DEF At
<1>5. /\ f \in [1 .. n -> K]
      /\ \A i, j \in 1 .. n : i < j => f[i] < f[j]
      /\ \A k \in K : \E j \in 1 .. n : f[j] = k
      /\ \A j \in 1 .. n : u[j] = ms[f[j]]
  BY <1>2, <1>3 DEF Goes
<1>6. Cardinality(K) = n /\ \A j \in 1 .. n : f[j] = Nth(K, j)
  BY <1>4, <1>5, Enumerated
<1>7. DOMAIN ms \ {i \in DOMAIN ms : ms[i].port # p} = K
  BY <1>3 DEF At
<1>8. SentTo(p, ms) = [j \in 1 .. Cardinality(K) |-> ms[Nth(K, j)]]
  BY <1>7 DEF SentTo, Without
<1>9. QED
  BY <1>2, <1>5, <1>6, <1>8

LEMMA SentGoes ==
    ASSUME NEW ms \in Seq(Messages), NEW p
    PROVE  SentTo(p, ms) \in Seq(Messages) /\ \E f : Goes(f, SentTo(p, ms), p, ms)
<1>1. PICK I \in SUBSET DOMAIN ms : I = {i \in DOMAIN ms : ms[i].port # p}
  OBVIOUS
<1>2. DOMAIN ms \ I = At(p, ms)
  BY <1>1 DEF At
<1>3. PICK u : u = Without(ms, I)
  OBVIOUS
<1>4. SentTo(p, ms) = u
  BY <1>1, <1>3 DEF SentTo
<1>5. u \in Seq(Messages)
  BY <1>4, SentMembers
<1>6. \E g \in [DOMAIN u -> DOMAIN ms \ I] :
        /\ \A j, k \in DOMAIN g : j < k => g[j] < g[k]
        /\ \A i \in DOMAIN ms \ I : \E j \in DOMAIN g : g[j] = i
        /\ \A j \in DOMAIN g : u[j] = ms[g[j]]
  <2>1. \E g \in [DOMAIN Without(ms, I) -> DOMAIN ms \ I] :
          /\ \A j, k \in DOMAIN g : j < k => g[j] < g[k]
          /\ \A i \in DOMAIN ms \ I : \E j \in DOMAIN g : g[j] = i
          /\ \A j \in DOMAIN g : Without(ms, I)[j] = ms[g[j]]
    BY WithoutProperties
  <2>2. QED
    BY <1>3, <2>1
<1>7. PICK g : Goes(g, u, p, ms)
  BY <1>2, <1>6 DEF Goes
<1>8. QED
  BY <1>4, <1>5, <1>7

\* The messages of p keep their order when those of another port leave.
LEMMA SentOther ==
    ASSUME NEW ms \in Seq(Messages), NEW p, NEW x, x # p
    PROVE  SentTo(x, SentElsewhere(p, ms)) = SentTo(x, ms)
<1>1. PICK I \in SUBSET DOMAIN ms : I = {i \in DOMAIN ms : ms[i].port = p}
  OBVIOUS
<1>2. PICK v : v = Without(ms, I)
  OBVIOUS
<1>3. SentElsewhere(p, ms) = v
  BY <1>1, <1>2 DEF SentElsewhere
<1>4. v \in Seq(Messages)
  BY <1>3, SentMembers
<1>5. \E g \in [DOMAIN v -> DOMAIN ms \ I] :
        /\ \A j, k \in DOMAIN g : j < k => g[j] < g[k]
        /\ \A i \in DOMAIN ms \ I : \E j \in DOMAIN g : g[j] = i
        /\ \A j \in DOMAIN g : v[j] = ms[g[j]]
  <2>1. \E g \in [DOMAIN Without(ms, I) -> DOMAIN ms \ I] :
          /\ \A j, k \in DOMAIN g : j < k => g[j] < g[k]
          /\ \A i \in DOMAIN ms \ I : \E j \in DOMAIN g : g[j] = i
          /\ \A j \in DOMAIN g : Without(ms, I)[j] = ms[g[j]]
    BY WithoutProperties
  <2>2. QED
    BY <1>2, <2>1
<1>6. PICK g \in [DOMAIN v -> DOMAIN ms \ I] :
        /\ \A j, k \in DOMAIN v : j < k => g[j] < g[k]
        /\ \A i \in DOMAIN ms \ I : \E j \in DOMAIN v : g[j] = i
        /\ \A j \in DOMAIN v : v[j] = ms[g[j]]
  BY <1>5
<1>7. PICK u : u = SentTo(x, v)
  OBVIOUS
<1>8. u \in Seq(Messages) /\ \E f : Goes(f, u, x, v)
  BY <1>4, <1>7, SentGoes
<1>9. PICK f : Goes(f, u, x, v)
  BY <1>8
<1>10. PICK e : e = [j \in DOMAIN u |-> g[f[j]]]
  OBVIOUS
<1>11. \A j \in DOMAIN u : /\ f[j] \in DOMAIN v /\ v[f[j]].port = x /\ e[j] = g[f[j]]
                           /\ e[j] \in DOMAIN ms /\ u[j] = ms[e[j]]
  BY <1>6, <1>9, <1>10 DEF Goes, At
<1>12. e \in [DOMAIN u -> At(x, ms)]
  BY <1>6, <1>9, <1>10, <1>11 DEF At, Goes
<1>13. \A i, j \in DOMAIN u : i < j => e[i] < e[j]
  BY <1>6, <1>9, <1>11 DEF Goes
<1>14. ASSUME NEW k \in At(x, ms) PROVE \E j \in DOMAIN u : e[j] = k
  <2>1. k \in DOMAIN ms /\ ms[k].port = x
    BY DEF At
  <2>2. k \in DOMAIN ms \ I
    BY <1>1, <2>1
  <2>3. PICK i \in DOMAIN v : g[i] = k
    BY <1>6, <2>2
  <2>4. i \in At(x, v)
    BY <1>6, <2>1, <2>3 DEF At
  <2>5. PICK j \in DOMAIN u : f[j] = i
    BY <1>9, <2>4 DEF Goes
  <2>6. QED
    BY <1>11, <2>3, <2>5
<1>15. Goes(e, u, x, ms)
  BY <1>11, <1>12, <1>13, <1>14 DEF Goes
<1>16. QED
  BY <1>3, <1>7, <1>8, <1>15, SentIs

LEMMA SentConcat ==
    ASSUME NEW s \in Seq(Messages), NEW t \in Seq(Messages), NEW p
    PROVE  SentTo(p, s \o t) = SentTo(p, s) \o SentTo(p, t)
<1>1. PICK a, b : a = SentTo(p, s) /\ b = SentTo(p, t)
  OBVIOUS
<1>2. /\ a \in Seq(Messages) /\ b \in Seq(Messages)
      /\ \E f : Goes(f, a, p, s)
      /\ \E g : Goes(g, b, p, t)
  BY <1>1, SentGoes
<1>3. PICK f : Goes(f, a, p, s)
  BY <1>2
<1>4. PICK g : Goes(g, b, p, t)
  BY <1>2
<1>5. PICK n \in Nat, k \in Nat, c \in Nat, d \in Nat :
        n = Len(s) /\ k = Len(t) /\ c = Len(a) /\ d = Len(b)
  BY <1>2, LenProperties
<1>6. DOMAIN s = 1 .. n /\ DOMAIN t = 1 .. k /\ DOMAIN a = 1 .. c /\ DOMAIN b = 1 .. d
  BY <1>2, <1>5, LenProperties
<1>7. PICK u, w : u = s \o t /\ w = a \o b
  OBVIOUS
<1>8. /\ u \in Seq(Messages) /\ DOMAIN u = 1 .. n + k
      /\ \A i \in 1 .. n : u[i] = s[i]
      /\ \A i \in 1 .. k : u[n + i] = t[i]
  BY <1>5, <1>6, <1>7, LenProperties, ConcatProperties
<1>9. /\ w \in Seq(Messages) /\ DOMAIN w = 1 .. c + d
      /\ \A i \in 1 .. c : w[i] = a[i]
      /\ \A i \in 1 .. d : w[c + i] = b[i]
  BY <1>2, <1>5, <1>6, <1>7, LenProperties, ConcatProperties
<1>10. /\ \A i \in 1 .. c : f[i] \in 1 .. n /\ s[f[i]].port = p /\ a[i] = s[f[i]]
       /\ \A i, j \in 1 .. c : i < j => f[i] < f[j]
       /\ \A i \in 1 .. n : s[i].port = p => \E j \in 1 .. c : f[j] = i
  BY <1>3, <1>6 DEF Goes, At
<1>11. /\ \A i \in 1 .. d : g[i] \in 1 .. k /\ t[g[i]].port = p /\ b[i] = t[g[i]]
       /\ \A i, j \in 1 .. d : i < j => g[i] < g[j]
       /\ \A i \in 1 .. k : t[i].port = p => \E j \in 1 .. d : g[j] = i
  BY <1>4, <1>6 DEF Goes, At
<1>12. PICK e : e = [j \in 1 .. c + d |-> IF j <= c THEN f[j] ELSE n + g[j - c]]
  OBVIOUS
<1>13. \A j \in 1 .. c + d : (j \in 1 .. c /\ j <= c) \/ (j - c \in 1 .. d /\ ~(j <= c) /\ j = c + (j - c))
  OBVIOUS
<1>14. \A j \in 1 .. c : j \in 1 .. c + d /\ e[j] = f[j]
  BY <1>12
<1>15. \A i \in 1 .. d : c + i \in 1 .. c + d /\ e[c + i] = n + g[i]
  <2> SUFFICES ASSUME NEW i \in 1 .. d PROVE c + i \in 1 .. c + d /\ e[c + i] = n + g[i]
    OBVIOUS
  <2>1. c + i \in 1 .. c + d /\ ~(c + i <= c) /\ (c + i) - c = i
    OBVIOUS
  <2>2. QED
    BY <1>12, <2>1
<1>16. ASSUME NEW j \in 1 .. c + d
       PROVE  e[j] \in 1 .. n + k /\ u[e[j]].port = p /\ w[j] = u[e[j]]
  <2>1. CASE j \in 1 .. c
    <3>1. e[j] = f[j] /\ f[j] \in 1 .. n
      BY <1>10, <1>14, <2>1
    <3>2. f[j] \in 1 .. n + k
      BY <3>1
    <3>3. QED
      BY <1>8, <1>9, <1>10, <2>1, <3>1, <3>2
  <2>2. CASE j - c \in 1 .. d /\ j = c + (j - c)
    <3>1. PICK i \in 1 .. d : j = c + i
      BY <2>2
    <3>2. e[j] = n + g[i] /\ g[i] \in 1 .. k
      BY <1>11, <1>15, <3>1
    <3>3. n + g[i] \in 1 .. n + k
      BY <3>2
    <3>4. u[n + g[i]] = t[g[i]] /\ w[c + i] = b[i] /\ b[i] = t[g[i]] /\ t[g[i]].port = p
      BY <1>8, <1>9, <1>11, <3>2
    <3>5. QED
      BY <3>1, <3>2, <3>3, <3>4
  <2>3. QED
    BY <1>13, <2>1, <2>2
<1>17. ASSUME NEW i \in 1 .. c + d, NEW j \in 1 .. c + d, i < j PROVE e[i] < e[j]
  <2>1. CASE j \in 1 .. c
    <3>1. i \in 1 .. c
      BY <1>17, <2>1
    <3>2. QED
      BY <1>10, <1>14, <1>17, <2>1, <3>1
  <2>2. CASE i \in 1 .. c /\ j - c \in 1 .. d /\ j = c + (j - c)
    <3>1. PICK y \in 1 .. d : j = c + y
      BY <2>2
    <3>2. e[i] \in 1 .. n /\ e[j] = n + g[y] /\ g[y] \in 1 .. k
      BY <1>10, <1>11, <1>14, <1>15, <2>2, <3>1
    <3>3. QED
      BY <3>2
  <2>3. CASE i - c \in 1 .. d /\ i = c + (i - c) /\ j - c \in 1 .. d /\ j = c + (j - c)
    <3>1. PICK x \in 1 .. d, y \in 1 .. d : i = c + x /\ j = c + y
      BY <2>3
    <3>2. x < y
      BY <1>17, <3>1
    <3>3. /\ e[i] = n + g[x] /\ e[j] = n + g[y] /\ g[x] < g[y]
          /\ g[x] \in 1 .. k /\ g[y] \in 1 .. k
      BY <1>11, <1>15, <3>1, <3>2
    <3>4. QED
      BY <3>3
  <2>4. QED
    BY <1>13, <2>1, <2>2, <2>3
<1>18. ASSUME NEW i \in 1 .. n + k, u[i].port = p PROVE \E j \in 1 .. c + d : e[j] = i
  <2>1. CASE i \in 1 .. n
    <3>1. PICK j \in 1 .. c : f[j] = i
      BY <1>8, <1>10, <1>18, <2>1
    <3>2. QED
      BY <1>14, <3>1
  <2>2. CASE i \notin 1 .. n
    <3>1. i - n \in 1 .. k /\ i = n + (i - n)
      BY <2>2
    <3>2. PICK y \in 1 .. k : i = n + y
      BY <3>1
    <3>3. PICK j \in 1 .. d : g[j] = y
      BY <1>8, <1>11, <1>18, <3>2
    <3>4. QED
      BY <1>15, <3>2, <3>3
  <2>3. QED
    BY <2>1, <2>2
<1>19. Goes(e, w, p, u)
  <2>1. e \in [DOMAIN w -> At(p, u)]
    BY <1>8, <1>9, <1>12, <1>16 DEF At
  <2>2. QED
    BY <1>8, <1>9, <1>16, <1>17, <1>18, <2>1 DEF Goes, At
<1>20. SentTo(p, u) = w
  BY <1>8, <1>9, <1>19, SentIs
<1>21. QED
  BY <1>1, <1>7, <1>20

LEMMA SentUniform ==
    ASSUME NEW ms \in Seq(Messages), NEW p
    PROVE  /\ (\A m \in Members(ms) : m.port = p) => SentTo(p, ms) = ms
           /\ (\A m \in Members(ms) : m.port # p) => SentTo(p, ms) = <<>>
<1>1. ASSUME \A m \in Members(ms) : m.port = p PROVE SentTo(p, ms) = ms
  <2>1. PICK f : f = [j \in DOMAIN ms |-> j]
    OBVIOUS
  <2>2. \A j \in DOMAIN ms : f[j] = j /\ ms[j].port = p
    BY <1>1, <2>1 DEF Members
  <2>3. Goes(f, ms, p, ms)
    BY <2>1, <2>2 DEF Goes, At
  <2>4. QED
    BY <2>3, SentIs
<1>2. ASSUME \A m \in Members(ms) : m.port # p PROVE SentTo(p, ms) = <<>>
  <2>1. SentTo(p, ms) \in Seq(Messages) /\ Members(SentTo(p, ms)) = {}
    BY <1>2, SentMembers
  <2>2. QED
    BY <2>1, NoMembers
<1>3. QED
  BY <1>1, <1>2

-----------------------------------------------------------------------------
(* What a step does with the messages.                                     *)

\* The receivers outside F keep the message they have, if they have one, and
\* so do the senders, except that s gives its message away or has a new one.
Hands(F, s) ==
    /\ \A r \in Receivers \ F : th'[r].kmsg = th[r].kmsg
    /\ \A t \in Senders \ {s} : th'[t].kmsg = th[t].kmsg
    /\ s \in Senders => \/ th'[s].kmsg \in {th[s].kmsg, None}
                        \/ Fresh(th'[s].kmsg)

\* The messages that come to p: none, or the one s sends.
Comes(p, new, s) ==
    \/ new = <<>>
    \/ \E m \in Messages :
         /\ new = <<m>> /\ m.port = p
         /\ s \in Senders /\ th'[s].kmsg = None
         /\ Fresh(m) \/ th[s].kmsg = m

\* No receive right of P is copied into a message.
NoneCopied(P) == \A x \in P : ip'[x].right = "limbo" => ip[x].right = "limbo"

\* new comes to p, and the h oldest messages go to the receivers f.
Passes(p, new, h, f, s) ==
    LET all == Queued(p) \o new IN
    /\ Comes(p, new, s)
    /\ h \in 0 .. Len(all)
    /\ Queued(p)' = SubSeq(all, h + 1, Len(all))
    /\ f \in [1 .. h -> Receivers]
    /\ \A i, j \in 1 .. h : f[i] = f[j] => i = j
    /\ \A j \in 1 .. h : th[f[j]].kmsg = None /\ th'[f[j]].kmsg = all[j]
    /\ Hands({f[j] : j \in 1 .. h}, s)
    /\ \A x \in Ports \ {p} : Queued(x)' = Queued(x)
    /\ ip_active(p)
    /\ \A x \in Ports : /\ ip'[x].seqno = ip[x].seqno + (IF x = p THEN h ELSE 0)
                        /\ ip_active(x)' <=> ip_active(x)
    /\ NoneCopied(Ports)
    /\ h > 0 => ip[p].right = "held"

\* The messages stay where they are.
Rests(s) ==
    /\ Hands({}, s)
    /\ \A x \in Ports : /\ Queued(x)' = Queued(x)
                        /\ ip'[x].seqno = ip[x].seqno
                        /\ ip_active(x)' <=> ip_active(x)
    /\ NoneCopied(Ports)

\* Receiver r has done with its message.
Accounts(r) ==
    /\ r \in Receivers /\ th[r].kmsg # None /\ th'[r].kmsg = None
    /\ \A u \in Threads \ {r} : th'[u].kmsg = th[u].kmsg
    /\ \A x \in Ports : /\ Queued(x)' = Queued(x)
                        /\ ip'[x].seqno = ip[x].seqno
                        /\ ip_active(x)' <=> ip_active(x)
    /\ NoneCopied(Ports)

\* p starts again with its sequence numbers, or dies.
Resets(p, s) ==
    /\ Hands({}, s)
    /\ ip_active(p) /\ ip'[p].seqno = 0
    /\ \/ Queued(p)' = Queued(p) /\ ip_active(p)'
       \/ Queued(p)' = <<>> /\ ~ip_active(p)'
    /\ \A x \in Ports \ {p} : /\ Queued(x)' = Queued(x)
                              /\ ip'[x].seqno = ip[x].seqno
                              /\ ip_active(x)' <=> ip_active(x)
    /\ NoneCopied(Ports \ {p})

Stepped ==
    \/ \E s : Rests(s)
    \/ \E p \in Ports : \E new, h, f, s : Passes(p, new, h, f, s)
    \/ \E r : Accounts(r)
    \/ \E p \in Ports : \E s : Resets(p, s)

\* Every message is in one place, and has a number that was given out.
Unique ==
    /\ \A t, u \in Threads : th[t].kmsg # None /\ th[t].kmsg = th[u].kmsg => t = u
    /\ \A t \in Threads, p \in Ports : th[t].kmsg \notin Members(Queued(p))
    /\ \A p \in Ports : Once(Queued(p))
    /\ \A t \in Threads : th[t].kmsg # None => th[t].kmsg.n <= sent
    /\ \A p \in Ports : \A m \in Members(Queued(p)) : m.n <= sent

\* A port whose receive right is in a message delivers nothing.
LimboZero == \A p \in Ports : ip[p].right = "limbo" => ip[p].seqno = 0

LEMMA QueuedTypes ==
    ASSUME LinkInv
    PROVE  /\ \A p \in Ports : Queued(p) \in Seq(Messages)
           /\ \A p \in Ports : \A m \in Members(Queued(p)) : m \in Messages /\ m.port = p
           /\ \A m \in Messages : m.n \in Nat /\ m # None
           /\ sent \in Nat
<1>1. ASSUME NEW p \in Ports
      PROVE  /\ Queued(p) \in Seq(Messages)
             /\ \A m \in Members(Queued(p)) : m \in Messages /\ m.port = p
  <2>1. imq[MqueueOf(p)].messages \in Seq(Messages)
    BY PortTypes, QueueTypes
  <2>2. /\ Queued(p) \in Seq(Messages)
        /\ Members(Queued(p)) = {m \in Members(imq[MqueueOf(p)].messages) : m.port = p}
    BY <2>1, SentMembers DEF Queued
  <2>3. \A m \in Members(Queued(p)) : m \in Messages
    BY <2>2, NoMembers
  <2>4. QED
    BY <2>2, <2>3
<1>2. \A m \in Messages : m.n \in Nat /\ m # None
  BY MqueueAssumption DEF Messages
<1>3. sent \in Nat
  BY DEF LinkInv, Shapes
<1>4. QED
  BY <1>1, <1>2, <1>3

\* Nothing moves, but messages may be given up, and s may have a new one.
LEMMA RestUnique ==
    ASSUME LinkInv, LinkInv', Unique, NEW s, sent' \in {sent, sent + 1},
           \A u \in Threads \ {s} : th'[u].kmsg \in {th[u].kmsg, None},
           s \in Threads => th'[s].kmsg \in {th[s].kmsg, None} \/ Fresh(th'[s].kmsg),
           \A x \in Ports : Queued(x)' \in {Queued(x), <<>>}
    PROVE  Unique'
<1>1. sent \in Nat /\ sent <= sent' /\ sent' \in Nat
  BY QueuedTypes
<1>2. \A t \in Threads : th[t].kmsg \in Messages \cup {None}
  BY ThreadTypes
<1>3. \A t \in Threads : th'[t].kmsg \in Messages \cup {None}
  BY DEF LinkInv, Shapes, ThreadRecord
<1>4. \A m \in Messages : m.n \in Nat
  BY QueuedTypes
<1>5. ASSUME NEW t \in Threads
      PROVE  \/ th'[t].kmsg = None
             \/ th'[t].kmsg = th[t].kmsg /\ th[t].kmsg.n <= sent
             \/ t = s /\ th'[t].kmsg.n > sent /\ th'[t].kmsg.n = sent'
  BY <1>1 DEF Fresh, Unique
<1>6. \A x \in Ports : Members(Queued(x)') \subseteq Members(Queued(x)) /\ Once(Queued(x)')
  <2>1. Members(<<>>) = {} /\ Once(<<>>)
    BY DEF Members, Once
  <2>2. QED
    BY <2>1 DEF Unique
<1>7. ASSUME NEW t \in Threads, NEW u \in Threads, th'[t].kmsg # None,
             th'[t].kmsg = th'[u].kmsg, t # u
      PROVE  FALSE
  <2>1. th'[t].kmsg.n \in Nat
    BY <1>3, <1>4, <1>7
  <2>2. th'[t].kmsg = th[t].kmsg \/ th'[u].kmsg = th[u].kmsg
    BY <1>5, <1>7
  <2>3. th'[t].kmsg = th[t].kmsg /\ th'[u].kmsg = th[u].kmsg
    BY <1>1, <1>5, <1>7, <2>1, <2>2
  <2>4. QED
    BY <1>7, <2>3 DEF Unique
<1>8. ASSUME NEW t \in Threads, NEW x \in Ports PROVE th'[t].kmsg \notin Members(Queued(x)')
  <2>1. th'[t].kmsg = None => th'[t].kmsg \notin Members(Queued(x))
    BY QueuedTypes
  <2>2. th'[t].kmsg = th[t].kmsg => th'[t].kmsg \notin Members(Queued(x))
    BY DEF Unique
  <2>3. ASSUME th'[t].kmsg \in Members(Queued(x)), th'[t].kmsg.n > sent PROVE FALSE
    <3>1. th'[t].kmsg.n <= sent /\ th'[t].kmsg.n \in Nat
      BY <1>4, <2>3, QueuedTypes DEF Unique
    <3>2. QED
      BY <1>1, <2>3, <3>1
  <2>4. QED
    BY <1>5, <1>6, <2>1, <2>2, <2>3
<1>9. ASSUME NEW t \in Threads, th'[t].kmsg # None PROVE th'[t].kmsg.n <= sent'
  <2>1. th'[t].kmsg.n \in Nat
    BY <1>3, <1>4, <1>9
  <2>2. QED
    BY <1>1, <1>5, <1>9, <2>1
<1>10. ASSUME NEW x \in Ports, NEW m \in Members(Queued(x)') PROVE m.n <= sent'
  <2>1. m.n <= sent /\ m.n \in Nat
    BY <1>4, <1>6, QueuedTypes DEF Unique
  <2>2. QED
    BY <1>1, <2>1
<1>11. QED
  BY <1>6, <1>7, <1>8, <1>9, <1>10 DEF Unique

\* The h oldest of the messages of p and new go to the receivers f.
LEMMA PassUnique ==
    ASSUME LinkInv, LinkInv', Unique, sent' \in {sent, sent + 1},
           NEW p \in Ports, NEW new, NEW h, NEW f, NEW s, Passes(p, new, h, f, s)
    PROVE  Unique'
<1>1. PICK all : all = Queued(p) \o new
  OBVIOUS
<1>2. PICK F : F = {f[j] : j \in 1 .. h}
  OBVIOUS
<1>3. /\ Comes(p, new, s)
      /\ h \in 0 .. Len(all)
      /\ Queued(p)' = SubSeq(all, h + 1, Len(all))
      /\ f \in [1 .. h -> Receivers]
      /\ \A i, j \in 1 .. h : f[i] = f[j] => i = j
      /\ \A j \in 1 .. h : th[f[j]].kmsg = None /\ th'[f[j]].kmsg = all[j]
      /\ Hands(F, s)
      /\ \A x \in Ports \ {p} : Queued(x)' = Queued(x)
  BY <1>1, <1>2 DEF Passes
<1>4. sent \in Nat /\ sent <= sent' /\ sent' \in Nat
  BY QueuedTypes
<1>5. /\ \A t \in Threads : th[t].kmsg \in Messages \cup {None}
      /\ \A t \in Threads : th'[t].kmsg \in Messages \cup {None}
      /\ \A m \in Messages : m.n \in Nat /\ m # None
  BY ThreadTypes, QueuedTypes DEF LinkInv, Shapes, ThreadRecord
<1>6. /\ Queued(p) \in Seq(Messages) /\ Once(Queued(p))
      /\ \A m \in Members(Queued(p)) : m \in Messages /\ m.n <= sent
      /\ \A m \in Members(Queued(p)), t \in Threads : th[t].kmsg # m
  BY QueuedTypes DEF Unique
\* A message that comes was in no queue, and leaves its sender.
<1>7. /\ new \in Seq(Messages) /\ Once(new)
      /\ Members(new) \cap Members(Queued(p)) = {}
      /\ \A m \in Members(new) :
           /\ m \in Messages /\ m.port = p /\ m.n <= sent'
           /\ s \in Senders /\ th'[s].kmsg = None
           /\ \A u \in Threads \ {s} : th[u].kmsg # m
  <2>1. CASE new = <<>>
    BY <2>1, NoMembers DEF Members, Once
  <2>2. CASE new # <<>>
    <3>1. PICK m \in Messages :
            /\ new = <<m>> /\ m.port = p
            /\ s \in Senders /\ th'[s].kmsg = None
            /\ Fresh(m) \/ th[s].kmsg = m
      BY <1>3, <2>2 DEF Comes
    <3>2. new \in Seq(Messages) /\ Once(new) /\ Members(new) = {m}
      BY <3>1 DEF Members, Once
    <3>3. s \in Threads /\ m.n \in Nat /\ m # None
      BY <1>5, <3>1, ThreadTypes
    <3>4. CASE Fresh(m)
      <4>1. m.n = sent' /\ ~(m.n <= sent)
        BY <1>4, <3>3, <3>4 DEF Fresh
      <4>2. \A u \in Threads : th[u].kmsg # m
        BY <3>3, <4>1 DEF Unique
      <4>3. m \notin Members(Queued(p))
        BY <1>6, <4>1
      <4>4. m.n <= sent'
        BY <1>4, <4>1
      <4>5. QED
        BY <3>1, <3>2, <4>2, <4>3, <4>4
    <3>5. CASE th[s].kmsg = m
      <4>1. m.n <= sent
        BY <3>3, <3>5 DEF Unique
      <4>2. m.n <= sent'
        BY <1>4, <3>3, <4>1
      <4>3. \A u \in Threads \ {s} : th[u].kmsg # m
        BY <3>3, <3>5 DEF Unique
      <4>4. m \notin Members(Queued(p))
        BY <1>6, <3>3, <3>5
      <4>5. QED
        BY <3>1, <3>2, <4>2, <4>3, <4>4
    <3>6. QED
      BY <3>1, <3>4, <3>5
  <2>3. QED
    BY <2>1, <2>2
<1>8. all \in Seq(Messages) /\ Members(all) = Members(Queued(p)) \cup Members(new)
  BY <1>1, <1>6, <1>7, ConcatMembers
<1>9. Once(all)
  <2>1. \A i \in DOMAIN Queued(p), j \in DOMAIN new : Queued(p)[i] # new[j]
    BY <1>7 DEF Members
  <2>2. QED
    BY <1>1, <1>6, <1>7, <2>1, OnceConcat
<1>10. DOMAIN all = 1 .. Len(all) /\ Len(all) \in Nat
  BY <1>8, LenProperties
<1>11. \A j \in 1 .. h : j \in DOMAIN all /\ all[j] \in Members(all)
  <2>1. \A j \in 1 .. h : j \in 1 .. Len(all)
    BY <1>3, <1>10
  <2>2. QED
    BY <1>10, <2>1 DEF Members
<1>12. PICK rest : rest = SubSeq(all, h + 1, Len(all))
  OBVIOUS
<1>13. Once(rest) /\ \A j \in 1 .. h : all[j] \notin Members(rest)
  BY <1>3, <1>8, <1>9, <1>12, SuffixMembers
<1>14. Members(rest) \subseteq Members(all)
  <2>1. Members(rest) = {all[i] : i \in h + 1 .. Len(all)}
    BY <1>3, <1>8, <1>12, SuffixMembers
  <2>2. \A i \in h + 1 .. Len(all) : i \in DOMAIN all
    BY <1>3, <1>10
  <2>3. QED
    BY <2>1, <2>2 DEF Members
<1>15. \A m \in Members(all) : m \in Messages /\ m.n <= sent'
  <2>1. ASSUME NEW m \in Members(Queued(p)) PROVE m.n <= sent'
    <3>1. m.n \in Nat /\ m.n <= sent
      BY <1>5, <1>6
    <3>2. QED
      BY <1>4, <3>1
  <2>2. QED
    BY <1>6, <1>7, <1>8, <2>1
\* Who is no receiver of the step keeps what it has, which is not in all.
<1>16. ASSUME NEW t \in Threads, t \notin F, th'[t].kmsg # None
       PROVE  /\ th'[t].kmsg \notin Members(all) /\ th'[t].kmsg.n <= sent'
              /\ \/ th'[t].kmsg = th[t].kmsg
                 \/ t = s /\ ~(th'[t].kmsg.n <= sent)
  <2>1. th'[t].kmsg \in Messages /\ th'[t].kmsg.n \in Nat
    BY <1>5, <1>16
  <2>2. th'[t].kmsg = th[t].kmsg \/ (t = s /\ s \in Senders /\ Fresh(th'[s].kmsg))
    BY <1>3, <1>16 DEF Hands, Threads
  <2>3. CASE th'[t].kmsg = th[t].kmsg
    <3>1. th[t].kmsg.n <= sent
      BY <1>16, <2>3 DEF Unique
    <3>2. th'[t].kmsg.n <= sent'
      BY <1>4, <2>1, <2>3, <3>1
    <3>3. th'[t].kmsg \notin Members(Queued(p))
      BY <1>6, <2>3
    <3>4. th'[t].kmsg \notin Members(new)
      BY <1>7, <1>16, <2>3
    <3>5. QED
      BY <1>8, <2>3, <3>2, <3>3, <3>4
  <2>4. CASE t = s /\ s \in Senders /\ Fresh(th'[s].kmsg)
    <3>1. th'[t].kmsg.n = sent' /\ ~(th'[t].kmsg.n <= sent)
      BY <1>4, <2>1, <2>4 DEF Fresh
    <3>2. th'[t].kmsg.n <= sent'
      BY <1>4, <3>1
    <3>3. th'[t].kmsg \notin Members(Queued(p))
      BY <1>6, <3>1
    <3>4. th'[t].kmsg \notin Members(new)
      BY <1>7, <1>16, <2>4
    <3>5. QED
      BY <1>8, <2>4, <3>1, <3>2, <3>3, <3>4
  <2>5. QED
    BY <2>2, <2>3, <2>4
<1>17. ASSUME NEW t \in F PROVE \E j \in 1 .. h : t = f[j] /\ th'[t].kmsg = all[j]
  BY <1>2, <1>3
<1>18. ASSUME NEW t \in Threads, NEW u \in Threads, th'[t].kmsg # None,
              th'[t].kmsg = th'[u].kmsg
       PROVE  t = u
  <2>1. CASE t \in F /\ u \in F
    <3>1. PICK i \in 1 .. h : t = f[i] /\ th'[t].kmsg = all[i]
      BY <1>17, <2>1
    <3>2. PICK j \in 1 .. h : u = f[j] /\ th'[u].kmsg = all[j]
      BY <1>17, <2>1
    <3>3. i = j
      BY <1>9, <1>11, <1>18, <3>1, <3>2 DEF Once
    <3>4. QED
      BY <3>1, <3>2, <3>3
  <2>2. CASE t \in F /\ u \notin F
    BY <1>11, <1>16, <1>17, <1>18, <2>2
  <2>3. CASE t \notin F /\ u \in F
    BY <1>11, <1>16, <1>17, <1>18, <2>3
  <2>4. CASE t \notin F /\ u \notin F
    <3>1. /\ th'[t].kmsg = th[t].kmsg \/ (t = s /\ ~(th'[t].kmsg.n <= sent))
          /\ th'[u].kmsg = th[u].kmsg \/ (u = s /\ ~(th'[u].kmsg.n <= sent))
      BY <1>16, <1>18, <2>4
    <3>2. CASE t = s /\ u = s
      BY <3>2
    <3>3. CASE th'[t].kmsg = th[t].kmsg /\ th'[u].kmsg = th[u].kmsg
      BY <1>18, <3>3 DEF Unique
    <3>4. CASE th'[t].kmsg = th[t].kmsg /\ ~(th'[u].kmsg.n <= sent)
      BY <1>18, <3>4 DEF Unique
    <3>5. CASE th'[u].kmsg = th[u].kmsg /\ ~(th'[t].kmsg.n <= sent)
      BY <1>18, <3>5 DEF Unique
    <3>6. QED
      BY <3>1, <3>2, <3>3, <3>4, <3>5
  <2>5. QED
    BY <2>1, <2>2, <2>3, <2>4
<1>19. ASSUME NEW t \in Threads, NEW x \in Ports PROVE th'[t].kmsg \notin Members(Queued(x)')
  <2>1. th'[t].kmsg # None \/ None \notin Members(Queued(x)')
    <3>1. \A m \in Members(Queued(x)) : m # None
      BY <1>5, QueuedTypes
    <3>2. \A m \in Members(rest) : m # None
      BY <1>5, <1>14, <1>15
    <3>3. QED
      BY <1>3, <1>12, <3>1, <3>2
  <2>2. CASE x = p /\ th'[t].kmsg # None
    BY <1>3, <1>12, <1>13, <1>14, <1>16, <1>17, <2>2
  <2>3. CASE x # p /\ th'[t].kmsg # None
    <3>1. Queued(x)' = Queued(x)
      BY <1>3, <2>3
    <3>2. \A m \in Members(Queued(x)) : m.port = x /\ m.n <= sent
      BY QueuedTypes DEF Unique
    <3>3. CASE t \in F
      <4>1. PICK j \in 1 .. h : th'[t].kmsg = all[j]
        BY <1>17, <3>3
      <4>2. all[j].port = p
        BY <1>7, <1>8, <1>11, QueuedTypes
      <4>3. QED
        BY <2>3, <3>1, <3>2, <4>1, <4>2
    <3>4. CASE t \notin F
      BY <1>16, <2>3, <3>1, <3>2, <3>4 DEF Unique
    <3>5. QED
      BY <3>3, <3>4
  <2>4. QED
    BY <2>1, <2>2, <2>3
<1>20. ASSUME NEW t \in Threads, th'[t].kmsg # None PROVE th'[t].kmsg.n <= sent'
  BY <1>11, <1>15, <1>16, <1>17, <1>20
<1>21. ASSUME NEW x \in Ports
       PROVE  Once(Queued(x)') /\ \A m \in Members(Queued(x)') : m.n <= sent'
  <2>1. CASE x = p
    BY <1>3, <1>12, <1>13, <1>14, <1>15, <2>1
  <2>2. CASE x # p
    <3>1. Queued(x)' = Queued(x)
      BY <1>3, <2>2
    <3>2. ASSUME NEW m \in Members(Queued(x)) PROVE m.n <= sent'
      <4>1. m.n \in Nat /\ m.n <= sent
        BY <1>5, QueuedTypes DEF Unique
      <4>2. QED
        BY <1>4, <4>1
    <3>3. QED
      BY <3>1, <3>2 DEF Unique
  <2>3. QED
    BY <2>1, <2>2
<1>22. QED
  BY <1>18, <1>19, <1>20, <1>21 DEF Unique

LEMMA StepUnique ==
    ASSUME LinkInv, LinkInv', Unique, sent' \in {sent, sent + 1}, Stepped
    PROVE  Unique'
<1>1. ASSUME NEW s, Hands({}, s)
      PROVE  /\ \A u \in Threads \ {s} : th'[u].kmsg \in {th[u].kmsg, None}
             /\ s \in Senders => th'[s].kmsg \in {th[s].kmsg, None} \/ Fresh(th'[s].kmsg)
             /\ s \in Receivers => th'[s].kmsg = th[s].kmsg
  BY <1>1 DEF Hands, Threads
<1>2. ASSUME NEW s, Rests(s) PROVE Unique'
  BY <1>1, <1>2, RestUnique DEF Rests, Threads
<1>3. ASSUME NEW p \in Ports, NEW s, Resets(p, s) PROVE Unique'
  <2>1. \A x \in Ports : Queued(x)' \in {Queued(x), <<>>}
    BY <1>3 DEF Resets
  <2>2. Hands({}, s)
    BY <1>3 DEF Resets
  <2>3. QED
    BY <1>1, <2>1, <2>2, RestUnique DEF Threads
<1>4. ASSUME NEW r, Accounts(r) PROVE Unique'
  BY <1>4, RestUnique DEF Accounts
<1>5. QED
  BY <1>2, <1>3, <1>4, PassUnique DEF Stepped

LEMMA StepLimbo ==
    ASSUME LinkInv, LimboZero, Stepped
    PROVE  LimboZero'
<1> SUFFICES ASSUME NEW x \in Ports, ip'[x].right = "limbo" PROVE ip'[x].seqno = 0
  BY DEF LimboZero
<1>1. ASSUME NEW s, Rests(s) PROVE ip'[x].seqno = 0
  BY <1>1 DEF Rests, NoneCopied, LimboZero
<1>2. ASSUME NEW r, Accounts(r) PROVE ip'[x].seqno = 0
  BY <1>2 DEF Accounts, NoneCopied, LimboZero
<1>3. ASSUME NEW p \in Ports, NEW s, Resets(p, s) PROVE ip'[x].seqno = 0
  BY <1>3 DEF Resets, NoneCopied, LimboZero
<1>4. ASSUME NEW p \in Ports, NEW new, NEW h, NEW f, NEW s, Passes(p, new, h, f, s)
      PROVE  ip'[x].seqno = 0
  <2>1. ip[x].right = "limbo" /\ ip[x].seqno = 0
    BY <1>4 DEF Passes, NoneCopied, LimboZero
  <2>2. x = p => h = 0
    <3>1. PICK n : n = Len(Queued(p) \o new)
      OBVIOUS
    <3>2. h \in 0 .. n /\ (h > 0 => ip[p].right = "held")
      BY <1>4, <3>1 DEF Passes
    <3>3. QED
      BY <2>1, <3>2
  <2>3. QED
    BY <1>4, <2>1, <2>2 DEF Passes
<1>5. QED
  BY <1>1, <1>2, <1>3, <1>4 DEF Stepped

-----------------------------------------------------------------------------
(* The steps of PortFifo.                                                  *)

Chan == [p \in Ports |-> Queued(p)]
Hand == [p \in Ports |-> {th[r].kmsg : r \in InHand(p)}]
Seqno == [p \in Ports |-> ip[p].seqno]
Alive == {p \in Ports : ip_active(p)}

\* The refinement mapping.
LEMMA Mapping ==
    /\ Fifo!Init <=> /\ Chan = [p \in Ports |-> <<>>]
                     /\ Hand = [p \in Ports |-> {}]
                     /\ Seqno = [p \in Ports |-> 0]
                     /\ Alive = Ports
    /\ Fifo!vars = <<Chan, Hand, Seqno, Alive>>
BY DEF Fifo!Init, Fifo!vars, Chan, Hand, Seqno, Alive

LEMMA TransferMapped ==
    ASSUME NEW p
    PROVE  Fifo!Transfer(p) <=>
             /\ p \in Alive
             /\ \E new \in {<<>>} \cup {<<m>> : m \in Members(Chan'[p]) \cup Hand'[p]} :
                  LET all == Chan[p] \o new IN
                  \E k \in 0 .. Len(all) :
                    /\ Chan' = [Chan EXCEPT ![p] = SubSeq(all, k + 1, Len(all))]
                    /\ Hand' = [Hand EXCEPT ![p] = @ \cup Members(SubSeq(all, 1, k))]
                    /\ Seqno' = [Seqno EXCEPT ![p] = @ + k]
                    /\ \A i \in 1 .. Len(new) :
                         /\ new[i] \in Messages /\ new[i].port = p
                         /\ new[i] \notin Members(Chan[p]) \cup Hand[p]
             /\ Alive' = Alive
BY DEF Fifo!Transfer, Fifo!Members, Members, Chan, Hand, Seqno, Alive

LEMMA AccountMapped ==
    ASSUME NEW p
    PROVE  Fifo!Account(p) <=>
             /\ \E m \in Hand[p] : Hand' = [Hand EXCEPT ![p] = @ \ {m}]
             /\ Chan' = Chan /\ Seqno' = Seqno /\ Alive' = Alive
BY DEF Fifo!Account, Chan, Hand, Seqno, Alive

LEMMA ResetMapped ==
    ASSUME NEW p
    PROVE  Fifo!Reset(p) <=>
             /\ p \in Alive
             /\ Seqno' = [Seqno EXCEPT ![p] = 0]
             /\ \/ Chan' = Chan /\ Alive' = Alive
                \/ Alive' = Alive \ {p} /\ Chan' = [Chan EXCEPT ![p] = <<>>]
             /\ Hand' = Hand
BY DEF Fifo!Reset, Chan, Hand, Seqno, Alive

\* The hands of the receivers, when all keep what they have.
LEMMA HandsKept ==
    ASSUME \A r \in Receivers : th'[r].kmsg = th[r].kmsg
    PROVE  Hand' = Hand
<1>1. \A p \in Ports : InHand(p)' = InHand(p) /\ InHand(p) \subseteq Receivers
  BY DEF InHand
<1>2. ASSUME NEW p \in Ports
      PROVE  {th'[r].kmsg : r \in InHand(p)'} = {th[r].kmsg : r \in InHand(p)}
  BY <1>1
<1>3. QED
  BY <1>2 DEF Hand

LEMMA RestsStep ==
    ASSUME NEW s, Rests(s)
    PROVE  UNCHANGED Fifo!vars
<1>1. Hand' = Hand
  BY HandsKept DEF Rests, Hands
<1>2. Chan' = Chan /\ Seqno' = Seqno /\ Alive' = Alive
  BY DEF Rests, Chan, Seqno, Alive
<1>3. QED
  BY <1>1, <1>2 DEF Fifo!vars, Chan, Hand, Seqno, Alive

LEMMA ResetsStep ==
    ASSUME LinkInv, NEW p \in Ports, NEW s, Resets(p, s)
    PROVE  Fifo!Reset(p)
<1>1. Hand' = Hand
  BY HandsKept DEF Resets, Hands
<1>2. p \in Alive
  BY DEF Resets, Alive
<1>3. Seqno' = [Seqno EXCEPT ![p] = 0]
  BY DEF Resets, Seqno
<1>4. CASE Queued(p)' = Queued(p) /\ ip_active(p)'
  <2>1. Chan' = Chan /\ Alive' = Alive
    BY <1>4 DEF Resets, Chan, Alive
  <2>2. QED
    BY <1>1, <1>2, <1>3, <2>1, ResetMapped
<1>5. CASE Queued(p)' = <<>> /\ ~ip_active(p)'
  <2>1. Chan' = [Chan EXCEPT ![p] = <<>>]
    BY <1>5 DEF Resets, Chan
  <2>2. Alive' = Alive \ {p}
    BY <1>5 DEF Resets, Alive
  <2>3. QED
    BY <1>1, <1>2, <1>3, <2>1, <2>2, ResetMapped
<1>6. QED
  BY <1>4, <1>5 DEF Resets

LEMMA AccountsStep ==
    ASSUME LinkInv, Unique, NEW r, Accounts(r)
    PROVE  \E p \in Ports : Fifo!Account(p)
<1>1. PICK m : m = th[r].kmsg
  OBVIOUS
<1>2. r \in Receivers /\ r \in Threads /\ m \in Messages /\ m # None
  BY <1>1, ThreadTypes DEF Accounts
<1>3. PICK p \in Ports : p = m.port
  BY <1>2, MessageShape
<1>4. th'[r].kmsg = None /\ \A u \in Receivers \ {r} : th'[u].kmsg = th[u].kmsg
  BY ThreadTypes DEF Accounts
<1>5. Chan' = Chan /\ Seqno' = Seqno /\ Alive' = Alive
  BY DEF Accounts, Chan, Seqno, Alive
<1>6. r \in InHand(p)
  BY <1>1, <1>2, <1>3 DEF InHand
<1>7. m \in Hand[p]
  BY <1>1, <1>6 DEF Hand
<1>8. \A u \in Receivers \ {r} : th[u].kmsg # m
  BY <1>1, <1>2, ThreadTypes DEF Unique
<1>9. InHand(p)' = InHand(p) \ {r} /\ \A x \in Ports \ {p} : InHand(x)' = InHand(x) \ {r}
  BY <1>4 DEF InHand
<1>10. \A x \in Ports \ {p} : r \notin InHand(x)
  BY <1>1, <1>3 DEF InHand
<1>11. \A x \in Ports : \A u \in InHand(x) : u \in Receivers
  BY DEF InHand
<1>12. {th'[u].kmsg : u \in InHand(p)'} = {th[u].kmsg : u \in InHand(p)} \ {m}
  <2>1. \A u \in InHand(p) \ {r} : th'[u].kmsg = th[u].kmsg /\ th[u].kmsg # m
    BY <1>4, <1>8, <1>11
  <2>2. QED
    BY <1>1, <1>9, <2>1
<1>13. ASSUME NEW x \in Ports \ {p}
       PROVE  {th'[u].kmsg : u \in InHand(x)'} = {th[u].kmsg : u \in InHand(x)}
  BY <1>4, <1>9, <1>10, <1>11
<1>14. Hand' = [Hand EXCEPT ![p] = @ \ {m}]
  BY <1>12, <1>13 DEF Hand
<1>15. QED
  BY <1>5, <1>7, <1>14, AccountMapped

LEMMA PassesStep ==
    ASSUME LinkInv, Unique, NEW p \in Ports, NEW new, NEW h, NEW f, NEW s,
           Passes(p, new, h, f, s)
    PROVE  Fifo!Transfer(p)
<1>1. PICK all : all = Queued(p) \o new
  OBVIOUS
<1>2. PICK F : F = {f[j] : j \in 1 .. h}
  OBVIOUS
<1>3. /\ Comes(p, new, s)
      /\ h \in 0 .. Len(all)
      /\ Queued(p)' = SubSeq(all, h + 1, Len(all))
      /\ f \in [1 .. h -> Receivers]
      /\ \A j \in 1 .. h : th[f[j]].kmsg = None /\ th'[f[j]].kmsg = all[j]
      /\ Hands(F, s)
  BY <1>1, <1>2 DEF Passes
<1>4. p \in Alive /\ Alive' = Alive
  BY DEF Passes, Alive
<1>5. Chan' = [Chan EXCEPT ![p] = SubSeq(all, h + 1, Len(all))]
  BY <1>3 DEF Chan, Passes
<1>6. Seqno' = [Seqno EXCEPT ![p] = @ + h]
  <2>1. \A x \in Ports : ip[x].seqno \in Nat
    BY DEF LinkInv, Shapes, PortShape
  <2>2. \A x \in Ports : ip'[x].seqno = IF x = p THEN ip[x].seqno + h ELSE ip[x].seqno
    BY <2>1 DEF Passes
  <2>3. QED
    BY <2>2 DEF Seqno
\* The message that comes is new to the port.
<1>7. /\ new \in Seq(Messages)
      /\ \A i \in 1 .. Len(new) :
           /\ new[i] \in Messages /\ new[i].port = p
           /\ new[i] \notin Members(Queued(p)) \cup Hand[p]
      /\ new = <<>> \/ (Len(new) = 1 /\ new = <<new[1]>>)
  <2>1. CASE new = <<>>
    BY <2>1
  <2>2. CASE new # <<>>
    <3>1. PICK m \in Messages :
            /\ new = <<m>> /\ m.port = p
            /\ s \in Senders
            /\ Fresh(m) \/ th[s].kmsg = m
      BY <1>3, <2>2 DEF Comes
    <3>2. m.n \in Nat /\ m # None /\ sent \in Nat
      BY QueuedTypes
    <3>3. Fresh(m) => ~(m.n <= sent)
      BY <3>2 DEF Fresh
    <3>4. m \notin Members(Queued(p))
      BY <1>3, <2>2, <3>1, <3>3, ThreadTypes DEF Unique, Comes
    <3>5. \A r \in Receivers : th[r].kmsg # m
      BY <1>3, <2>2, <3>1, <3>2, <3>3, ThreadTypes DEF Unique, Comes
    <3>6. m \notin Hand[p]
      BY <3>5 DEF Hand, InHand
    <3>7. new \in Seq(Messages) /\ Len(new) = 1 /\ new[1] = m
      BY <3>1
    <3>8. \A i \in 1 .. Len(new) : i = 1
      BY <3>7
    <3>9. QED
      BY <3>1, <3>4, <3>6, <3>7, <3>8
  <2>3. QED
    BY <2>1, <2>2
<1>8. /\ all \in Seq(Messages) /\ Queued(p) \in Seq(Messages)
      /\ Len(all) \in Nat /\ DOMAIN all = 1 .. Len(all)
      /\ \A m \in Members(all) : m \in Messages /\ m.port = p
  <2>1. Queued(p) \in Seq(Messages)
    BY QueuedTypes
  <2>2. all \in Seq(Messages) /\ Members(all) = Members(Queued(p)) \cup Members(new)
    BY <1>1, <1>7, <2>1, ConcatMembers
  <2>3. DOMAIN new = 1 .. Len(new)
    BY <1>7, LenProperties
  <2>4. \A m \in Members(new) : m \in Messages /\ m.port = p
    BY <1>7, <2>3 DEF Members
  <2>5. QED
    BY <2>1, <2>2, <2>4, LenProperties, QueuedTypes
<1>9. \A j \in 1 .. h : j \in DOMAIN all
  BY <1>3, <1>8
<1>10. Members(SubSeq(all, 1, h)) = {all[j] : j \in 1 .. h}
  BY <1>3, <1>8, PrefixMembers
\* The hands of the receivers.
<1>11. F \subseteq Receivers /\ \A r \in Receivers \ F : th'[r].kmsg = th[r].kmsg
  BY <1>2, <1>3 DEF Hands
<1>12. ASSUME NEW r \in F
       PROVE  th[r].kmsg = None /\ th'[r].kmsg # None /\ th'[r].kmsg.port = p
  <2>1. PICK j \in 1 .. h : r = f[j]
    BY <1>2
  <2>2. all[j] \in Members(all)
    BY <1>9, <2>1 DEF Members
  <2>3. QED
    BY <1>3, <1>8, <2>1, <2>2, MessageShape
<1>13. /\ InHand(p)' = InHand(p) \cup F /\ InHand(p) \cap F = {}
       /\ \A x \in Ports \ {p} : InHand(x)' = InHand(x) /\ InHand(x) \cap F = {}
       /\ \A x \in Ports : InHand(x) \subseteq Receivers
  BY <1>11, <1>12 DEF InHand
<1>14. {th'[r].kmsg : r \in F} = {all[j] : j \in 1 .. h}
  <2>1. ASSUME NEW r \in F PROVE th'[r].kmsg \in {all[j] : j \in 1 .. h}
    BY <1>2, <1>3
  <2>2. ASSUME NEW j \in 1 .. h PROVE \E r \in F : th'[r].kmsg = all[j]
    BY <1>2, <1>3
  <2>3. QED
    BY <2>1, <2>2
<1>15. {th'[r].kmsg : r \in InHand(p)'} = {th[r].kmsg : r \in InHand(p)} \cup {all[j] : j \in 1 .. h}
  <2>1. \A r \in InHand(p) : th'[r].kmsg = th[r].kmsg
    BY <1>11, <1>13
  <2>2. {th'[r].kmsg : r \in InHand(p)'} =
          {th[r].kmsg : r \in InHand(p)} \cup {th'[r].kmsg : r \in F}
    BY <1>13, <2>1
  <2>3. QED
    BY <1>14, <2>2
<1>16. ASSUME NEW x \in Ports \ {p}
       PROVE  {th'[r].kmsg : r \in InHand(x)'} = {th[r].kmsg : r \in InHand(x)}
  <2>1. \A r \in InHand(x) : th'[r].kmsg = th[r].kmsg
    BY <1>11, <1>13
  <2>2. QED
    BY <1>13, <2>1
<1>17. Hand' = [Hand EXCEPT ![p] = @ \cup Members(SubSeq(all, 1, h))]
  BY <1>10, <1>15, <1>16 DEF Hand
\* The message that came waits, or is in a hand.
<1>18. new \in {<<>>} \cup {<<m>> : m \in Members(Chan'[p]) \cup Hand'[p]}
  <2>1. CASE new = <<>>
    BY <2>1
  <2>2. CASE new # <<>>
    <3>1. PICK n \in Nat : n = Len(Queued(p))
      BY <1>8, LenProperties
    <3>2. PICK m : m = new[1]
      OBVIOUS
    <3>3. new = <<m>> /\ Len(new) = 1
      BY <1>7, <2>2, <3>2
    <3>4. Len(all) = n + 1 /\ all[n + 1] = m
      BY <1>1, <1>7, <1>8, <3>1, <3>2, <3>3, ConcatProperties
    <3>5. CASE h = n + 1
      <4>1. m \in {all[j] : j \in 1 .. h}
        BY <3>1, <3>4, <3>5
      <4>2. m \in Hand'[p]
        BY <1>15, <4>1 DEF Hand
      <4>3. QED
        BY <3>3, <4>2
    <3>6. CASE h # n + 1
      <4>1. n + 1 \in h + 1 .. Len(all)
        BY <1>3, <3>1, <3>4, <3>6
      <4>2. Members(SubSeq(all, h + 1, Len(all))) = {all[i] : i \in h + 1 .. Len(all)}
        BY <1>3, <1>8, SuffixMembers
      <4>3. m \in Members(SubSeq(all, h + 1, Len(all)))
        BY <3>4, <4>1, <4>2
      <4>4. m \in Members(Chan'[p])
        BY <1>3, <4>3 DEF Chan
      <4>5. QED
        BY <3>3, <4>4
    <3>7. QED
      BY <3>5, <3>6
  <2>3. QED
    BY <2>1, <2>2
<1>19. Chan[p] = Queued(p)
  BY DEF Chan
<1>20. QED
  BY <1>1, <1>3, <1>4, <1>5, <1>6, <1>7, <1>17, <1>18, <1>19, TransferMapped

LEMMA StepFifo ==
    ASSUME LinkInv, Unique, Stepped
    PROVE  [Fifo!Next]_(Fifo!vars)
BY RestsStep, PassesStep, AccountsStep, ResetsStep DEF Stepped, Fifo!Next

-----------------------------------------------------------------------------
(* The senders.                                                            *)

\* The queues have the messages they had.
LEMMA QueuedKept ==
    ASSUME LinkInv, NEW x \in Ports, ip'[x].pset = ip[x].pset,
           imq'[MqueueOf(x)].messages = imq[MqueueOf(x)].messages
    PROVE  Queued(x)' = Queued(x)
<1>1. MqueueOf(x)' = MqueueOf(x)
  BY DEF MqueueOf
<1>2. QED
  BY <1>1 DEF Queued, SentTo, Without

\* Sender t is done with its message, or sleeps with it.
LEMMA SenderRests ==
    ASSUME LinkInv, NEW t \in Senders, imq' = imq,
           \A u \in Threads \ {t} : th'[u] = th[u],
           \/ th'[t].kmsg \in {th[t].kmsg, None}
           \/ Fresh(th'[t].kmsg),
           \A x \in Ports : /\ ip'[x].seqno = ip[x].seqno /\ ip'[x].pset = ip[x].pset
                            /\ ip_active(x)' <=> ip_active(x)
                            /\ ip'[x].right = "limbo" => ip[x].right = "limbo"
    PROVE  Stepped
<1>1. Hands({}, t)
  BY ThreadTypes DEF Hands
<1>2. \A x \in Ports : Queued(x)' = Queued(x)
  BY QueuedKept
<1>3. Rests(t)
  BY <1>1, <1>2 DEF Rests, NoneCopied
<1>4. QED
  BY <1>3 DEF Stepped

LEMMA RefusedSteps ==
    ASSUME LinkInv, NEW t, NEW m, NEW blocked, Sending(t, m, blocked), ip_active(m.port),
           Refuse(t, m, blocked)
    PROVE  Stepped
<1>1. /\ imq' = imq /\ th'[t] = Idle
      /\ \A u \in Threads \ {t} : th'[u] = th[u]
      /\ \A x \in Ports \ {m.port} : ip'[x] = ip[x]
      /\ ip'[m.port].pset = ip[m.port].pset
  BY RefusedEffect
<1>2. t \in Senders /\ m.port \in Ports
  BY SendingAlone DEF Sending
<1>3. ip \in [Ports -> PortShape]
  BY DEF LinkInv, Shapes
<1>4. /\ ip'[m.port].seqno = ip[m.port].seqno
      /\ ip'[m.port].right \in {"held", ip[m.port].right}
  BY <1>2, <1>3 DEF Refuse, PortShape
<1>5. th'[t].kmsg = None
  BY <1>1, IdleShape
<1>6. \A x \in Ports : /\ ip'[x].seqno = ip[x].seqno /\ ip'[x].pset = ip[x].pset
                       /\ ip_active(x)' <=> ip_active(x)
                       /\ ip'[x].right = "limbo" => ip[x].right = "limbo"
  BY <1>1, <1>4 DEF ip_active
<1>7. QED
  BY <1>1, <1>2, <1>5, <1>6, SenderRests

LEMMA DeadSteps ==
    ASSUME LinkInv, NEW t, NEW m, NEW blocked, Sending(t, m, blocked),
           th' = Return(th, t), ip' = ip, imq' = imq
    PROVE  Stepped
<1>1. t \in Senders /\ t \in Threads
  BY ThreadTypes DEF Sending
<1>2. th'[t] = Idle /\ \A u \in Threads \ {t} : th'[u] = th[u]
  BY <1>1, ThreadTypes, ReturnShape
<1>3. th'[t].kmsg = None
  BY <1>2, IdleShape
<1>4. \A x \in Ports : ip_active(x)' <=> ip_active(x)
  BY DEF ip_active
<1>5. QED
  BY <1>1, <1>2, <1>3, <1>4, SenderRests

LEMMA BlocksSteps ==
    ASSUME LinkInv, NEW t, NEW m, NEW blocked, Sending(t, m, blocked), NEW how, imq' = imq,
           ip' = [ip EXCEPT ![m.port].blocked = Append(blocked, t)],
           th' = [th EXCEPT ![t] = BlockedSender(m, how)]
    PROVE  Stepped
<1>1. t \in Senders /\ m.port \in Ports /\ t \in Threads
  BY SendingAlone, ThreadTypes DEF Sending
<1>2. ip \in [Ports -> PortShape]
  BY DEF LinkInv, Shapes
<1>3. th'[t] = BlockedSender(m, how) /\ \A u \in Threads \ {t} : th'[u] = th[u]
  BY <1>1, ThreadTypes
<1>4. th'[t].kmsg = m
  <2>1. BlockedSender(m, how).kmsg = m
    BY DEF BlockedSender, Idle
  <2>2. QED
    BY <1>3, <2>1
<1>5. \A x \in Ports : /\ ip'[x].seqno = ip[x].seqno /\ ip'[x].pset = ip[x].pset
                       /\ ip'[x].right = ip[x].right
  BY <1>1, <1>2 DEF PortShape
<1>6. \A x \in Ports : ip_active(x)' <=> ip_active(x)
  BY <1>5 DEF ip_active
<1>7. th'[t].kmsg = th[t].kmsg \/ Fresh(th'[t].kmsg)
  BY <1>4 DEF Sending
<1>8. QED
  BY <1>1, <1>3, <1>5, <1>6, <1>7, SenderRests

LEMMA CircularSteps ==
    ASSUME LinkInv, LimboZero, NEW t, NEW m, NEW blocked, Sending(t, m, blocked), m.circular,
           ip' = DeadPort(ip, m.port), imq' = EmptyQueue(imq, m.port),
           th' = Return(SendersGo(th, m.port), t)
    PROVE  Stepped
<1>1. PICK p : p = m.port
  OBVIOUS
<1>2. t \in Senders /\ p \in Ports /\ t \in Threads /\ ip[p].right = "limbo"
  BY <1>1, SendingAlone, ThreadTypes DEF Sending
<1>3. ip \in [Ports -> PortShape] /\ imq \in [Queues -> QueueRecord]
  BY DEF LinkInv, Shapes
<1>4. /\ ip'[p].right = "dead" /\ ip'[p].seqno = ip[p].seqno /\ ip'[p].pset = ip[p].pset
      /\ \A x \in Ports \ {p} : ip'[x] = ip[x]
  BY <1>1, <1>2, <1>3 DEF DeadPort, PortShape
<1>5. ip[p].pset = None /\ p \in Queues
  BY <1>2, PortTypes DEF LinkInv, PortsOK
<1>6. (\A x \in Queues \ {p} : imq'[x] = imq[x]) /\ imq'[p].messages = <<>>
  BY <1>1, <1>3, <1>5 DEF EmptyQueue, QueueRecord
<1>7. PICK gone : gone = SendersGo(th, p)
  OBVIOUS
<1>8. /\ gone \in [Threads -> ThreadRecord]
      /\ \A u \in Threads : gone[u].kmsg = th[u].kmsg
  <2>1. /\ gone \in [Threads -> ThreadRecord]
        /\ \A u \in Threads :
             IF u \in Members(ip[p].blocked)
             THEN Gone(th[u], gone[u], "success") /\ gone[u].kmsg = th[u].kmsg
             ELSE gone[u] = th[u]
    BY <1>7, ThreadTypes, ThreadGo DEF SendersGo, States
  <2>2. QED
    BY <2>1
<1>9. th'[t] = Idle /\ \A u \in Threads \ {t} : th'[u] = gone[u]
  BY <1>1, <1>2, <1>7, <1>8, ReturnShape
<1>10. th'[t].kmsg = None
  BY <1>9, IdleShape
<1>11. Hands({}, t)
  BY <1>2, <1>8, <1>9, <1>10, ThreadTypes DEF Hands
<1>12. Queued(p)' = <<>>
  <2>1. MqueueOf(p)' = p
    BY <1>4, <1>5 DEF MqueueOf
  <2>2. SentTo(p, <<>>) = <<>>
    <3>1. <<>> \in Seq(Messages) /\ Members(<<>>) = {}
      BY NoMembers
    <3>2. QED
      BY <3>1, SentUniform
  <2>3. Queued(p)' = SentTo(p, imq'[p].messages)
    BY <2>1 DEF Queued, SentTo
  <2>4. QED
    BY <1>6, <2>2, <2>3
<1>13. ASSUME NEW x \in Ports \ {p} PROVE Queued(x)' = Queued(x)
  <2>1. MqueueOf(x) # p /\ MqueueOf(x) \in Queues
    BY <1>2, PortTypes, MqueueAssumption DEF MqueueOf
  <2>2. QED
    BY <1>4, <1>6, <2>1, QueuedKept
<1>14. Resets(p, t)
  <2>1. ip_active(p) /\ ~ip_active(p)' /\ ip'[p].seqno = 0
    BY <1>2, <1>4 DEF ip_active, LimboZero
  <2>2. \A x \in Ports \ {p} : ip_active(x)' <=> ip_active(x)
    BY <1>4 DEF ip_active
  <2>3. QED
    BY <1>4, <1>11, <1>12, <1>13, <2>1, <2>2 DEF Resets, NoneCopied
<1>15. QED
  BY <1>2, <1>14 DEF Stepped

-----------------------------------------------------------------------------
(* Deliveries.                                                             *)

\* The receivers of the messages, in the order of the messages.
LEMMA DeliverHands ==
    ASSUME NEW q \in Queues, imq[q] \in QueueRecord, Once(imq[q].threads),
           NEW ms \in Seq(Messages)
    PROVE  \E f \in [1 .. Len(Chosen(q, ms)) -> Members(imq[q].threads)] :
             /\ \A i, j \in 1 .. Len(Chosen(q, ms)) : f[i] = f[j] => i = j
             /\ Deliver(q, ms).handed = {<<f[j], ms[j]>> : j \in 1 .. Len(Chosen(q, ms))}
<1> DEFINE threads == imq[q].threads
           g == Chosen(q, ms)
           h == Len(g)
           n == Len(threads)
           k == Len(ms)
           D == Refusals(threads, ms)
           f == [j \in 1 .. h |-> threads[g[j]]]
<1>1. threads \in Seq(Receivers) /\ Once(threads)
  BY DEF QueueRecord
<1>2. Deliver(q, ms).handed = {<<threads[g[j]], ms[j]>> : j \in 1 .. h}
  BY Zenon DEF Deliver, Chosen
<1> HIDE DEF threads
<1>3. n \in Nat /\ k \in Nat /\ DOMAIN threads = 1 .. n
  BY <1>1, LenProperties
<1>4. Chain(n, k, D, g)
  <2>1. \E x : x \in Handovers(threads, ms)
    BY <1>1, <1>3, ChainExists, HandoverChain
  <2>2. g \in Handovers(threads, ms)
    BY <2>1 DEF Chosen, threads
  <2>3. QED
    BY <1>1, <2>2, HandoverChain
<1> HIDE DEF g
<1>5. /\ h \in 0 .. k /\ g \in [1 .. h -> 1 .. n]
      /\ \A i, j \in 1 .. h : i < j => g[i] < g[j]
  <2> HIDE DEF n, k, D
  <2>1. h \in 0 .. k /\ g \in [1 .. h -> 1 .. n]
    BY <1>3, <1>4, ChainProperties
  <2>2. \A i, j \in 1 .. h : i < j => g[i] < g[j]
    BY <1>3, <1>4, ChainProperties
  <2>3. QED
    BY <2>1, <2>2
<1> HIDE DEF h
<1>6. \A i, j \in 1 .. h : g[i] = g[j] => i = j
  <2> SUFFICES ASSUME NEW i \in 1 .. h, NEW j \in 1 .. h, g[i] = g[j] PROVE i = j
    OBVIOUS
  <2>1. g[i] \in Nat /\ i \in Nat /\ j \in Nat
    BY <1>3, <1>5
  <2>2. ~(i < j) /\ ~(j < i)
    BY <1>5, <2>1
  <2>3. QED
    BY <2>1, <2>2
<1>7. \A i, j \in 1 .. h : threads[g[i]] = threads[g[j]] => i = j
  BY <1>1, <1>3, <1>5, <1>6 DEF Once
<1>8. f \in [1 .. h -> Members(threads)]
  BY <1>3, <1>5 DEF Members
<1>9. \A j \in 1 .. h : f[j] = threads[g[j]]
  OBVIOUS
<1> HIDE DEF f
<1>10. /\ \A i, j \in 1 .. h : f[i] = f[j] => i = j
       /\ Deliver(q, ms).handed = {<<f[j], ms[j]>> : j \in 1 .. h}
  BY <1>2, <1>7, <1>9
<1>11. QED
  BY <1>8, <1>10 DEF h, g, threads

\* h of the messages ms go to the receivers f; the others are queued at q.
Delivered(q, ms, p, h, f) ==
    /\ h \in 0 .. Len(ms) /\ h = Cardinality(Deliver(q, ms).handed)
    /\ f \in [1 .. h -> Receivers]
    /\ \A i, j \in 1 .. h : f[i] = f[j] => i = j
    /\ \A j \in 1 .. h : th[f[j]].kmsg = None /\ th'[f[j]].kmsg = ms[j]
    /\ \A r \in Receivers \ {f[j] : j \in 1 .. h} : th'[r].kmsg = th[r].kmsg
    /\ \A x \in Ports :
         SentTo(x, Deliver(q, ms).messages) =
           SentTo(x, imq[q].messages) \o (IF x = p THEN SubSeq(ms, h + 1, Len(ms)) ELSE <<>>)
    /\ h > 0 => imq[q].threads # <<>>

LEMMA DeliverSent ==
    ASSUME LinkInv, NEW q \in Queues, NEW ms \in Seq(Messages), NEW p \in Ports,
           \A m \in Members(ms) : m.port = p,
           \A r \in Receivers : th'[r].kmsg = Receivers_go(Deliver(q, ms))[r].kmsg
    PROVE  \E h, f : Delivered(q, ms, p, h, f)
<1>1. PICK d : d = Deliver(q, ms)
  OBVIOUS
<1>2. PICK go : go = Receivers_go(d)
  OBVIOUS
<1>3. imq[q] \in QueueRecord /\ Once(imq[q].threads) /\ Members(imq[q].threads) = WaitingAt(q)
  BY QueueTypes DEF LinkInv, ReceiverLinks
<1>4. PICK h : h = Len(Chosen(q, ms))
  OBVIOUS
<1>5. h \in 0 .. Len(ms) /\ d.messages = imq[q].messages \o SubSeq(ms, h + 1, Len(ms))
  BY <1>1, <1>3, <1>4, DeliverProperties
<1>6. Cardinality(d.handed) = h
  BY <1>1, <1>3, <1>4, DeliverProperties
<1>7. Taken(d) \cup d.declined \subseteq Members(imq[q].threads)
  BY <1>1, <1>3, DeliverProperties
<1>8. \A x, y \in d.handed : y[1] = x[1] => y = x
  BY <1>1, <1>3, DeliverProperties
<1>9. PICK f \in [1 .. h -> Members(imq[q].threads)] :
        /\ \A i, j \in 1 .. h : f[i] = f[j] => i = j
        /\ d.handed = {<<f[j], ms[j]>> : j \in 1 .. h}
  <2>1. \E f \in [1 .. Len(Chosen(q, ms)) -> Members(imq[q].threads)] :
          /\ \A i, j \in 1 .. Len(Chosen(q, ms)) : f[i] = f[j] => i = j
          /\ Deliver(q, ms).handed = {<<f[j], ms[j]>> : j \in 1 .. Len(Chosen(q, ms))}
    BY <1>3, DeliverHands
  <2>2. QED
    BY <1>1, <1>4, <2>1
<1>10. \A t \in Threads :
        /\ t \in Taken(d) => <<t, go[t].kmsg>> \in d.handed
        /\ t \in d.declined => go[t].kmsg = th[t].kmsg
        /\ t \notin Taken(d) \cup d.declined => go[t] = th[t]
  <2> DEFINE e == Deliver(q, ms)
             new == Receivers_go(e)
  <2>1. \A t \in Threads :
          /\ t \in Taken(e) => <<t, new[t].kmsg>> \in e.handed
          /\ t \in e.declined => new[t].kmsg = th[t].kmsg
          /\ t \notin Taken(e) \cup e.declined => new[t] = th[t]
    BY ReceiversGo
  <2>2. QED
    BY <1>1, <1>2, <2>1
<1>11. \A r \in Receivers : th'[r].kmsg = go[r].kmsg
  BY <1>1, <1>2
<1>12. Members(imq[q].threads) \subseteq Receivers
  BY <1>3 DEF WaitingAt
<1>13. f \in [1 .. h -> Receivers]
  BY <1>9, <1>12
<1>14. ASSUME NEW j \in 1 .. h PROVE th[f[j]].kmsg = None /\ th'[f[j]].kmsg = ms[j]
  <2>1. PICK r : r = f[j]
    OBVIOUS
  <2>2. r \in Receivers /\ r \in Threads /\ th[r].ith_state = "in_progress"
    BY <1>3, <1>9, <2>1, ThreadTypes DEF WaitingAt
  <2>3. th[r].kmsg = None
    <3>1. ReceiverOK(th[r])
      BY <2>2 DEF LinkInv, ReceiversOK
    <3>2. QED
      BY <2>2, <3>1 DEF ReceiverOK
  <2>4. PICK y : y = <<r, ms[j]>>
    OBVIOUS
  <2>5. y \in d.handed /\ y[1] = r /\ y[2] = ms[j]
    BY <1>9, <2>1, <2>4
  <2>6. r \in Taken(d)
    BY <2>5 DEF Taken
  <2>7. PICK z : z = <<r, go[r].kmsg>>
    OBVIOUS
  <2>8. z \in d.handed /\ z[1] = r /\ z[2] = go[r].kmsg
    BY <1>10, <2>2, <2>6, <2>7
  <2>9. y = z
    BY <1>8, <2>5, <2>8
  <2>10. QED
    BY <1>11, <2>1, <2>2, <2>3, <2>5, <2>8, <2>9
<1>15. ASSUME NEW r \in Receivers \ {f[j] : j \in 1 .. h} PROVE th'[r].kmsg = th[r].kmsg
  <2>1. r \notin Taken(d)
    <3>1. ASSUME NEW y \in d.handed PROVE y[1] # r
      <4>1. PICK j \in 1 .. h : y = <<f[j], ms[j]>>
        BY <1>9
      <4>2. QED
        BY <4>1
    <3>2. QED
      BY <3>1 DEF Taken
  <2>2. QED
    BY <1>10, <1>11, <2>1, ThreadTypes
<1>16. ASSUME NEW x \in Ports
       PROVE  SentTo(x, d.messages) =
                SentTo(x, imq[q].messages)
                  \o (IF x = p THEN SubSeq(ms, h + 1, Len(ms)) ELSE <<>>)
  <2>1. PICK rest : rest = SubSeq(ms, h + 1, Len(ms))
    OBVIOUS
  <2>2. rest \in Seq(Messages) /\ Members(rest) = {ms[i] : i \in h + 1 .. Len(ms)}
    BY <1>5, <2>1, SuffixMembers
  <2>3. Members(rest) \subseteq Members(ms)
    <3>1. DOMAIN ms = 1 .. Len(ms) /\ Len(ms) \in Nat
      BY LenProperties
    <3>2. \A i \in h + 1 .. Len(ms) : i \in DOMAIN ms
      BY <1>5, <3>1
    <3>3. QED
      BY <2>2, <3>2 DEF Members
  <2>4. SentTo(x, rest) = IF x = p THEN rest ELSE <<>>
    BY <2>2, <2>3, SentUniform
  <2>5. imq[q].messages \in Seq(Messages)
    BY QueueTypes
  <2>6. SentTo(x, d.messages) = SentTo(x, imq[q].messages) \o SentTo(x, rest)
    <3>1. PICK all : all = imq[q].messages
      OBVIOUS
    <3>2. SentTo(x, all \o rest) = SentTo(x, all) \o SentTo(x, rest)
      BY <2>2, <2>5, <3>1, SentConcat
    <3>3. d.messages = all \o rest
      BY <1>5, <2>1, <3>1
    <3>4. QED
      BY <3>1, <3>2, <3>3
  <2>7. QED
    BY <2>1, <2>4, <2>6
<1>17. ASSUME h > 0 PROVE imq[q].threads # <<>>
  <2>1. 1 \in 1 .. h
    BY <1>5, <1>17
  <2>2. f[1] \in Members(imq[q].threads)
    BY <1>9, <2>1
  <2>3. QED
    BY <2>2, NoMembers
<1>18. Delivered(q, ms, p, h, f)
  BY <1>1, <1>5, <1>6, <1>9, <1>13, <1>14, <1>15, <1>16, <1>17 DEF Delivered
<1>19. QED
  BY <1>18

-----------------------------------------------------------------------------
(* A message is accepted.                                                  *)

LEMMA NothingSent ==
    ASSUME NEW x
    PROVE  SentTo(x, <<>>) = <<>>
<1>1. <<>> \in Seq(Messages) /\ Members(<<>>) = {}
  BY NoMembers
<1>2. QED
  BY <1>1, SentUniform

LEMMA QueuedNext ==
    ASSUME NEW x, NEW y, MqueueOf(x)' = y
    PROVE  Queued(x)' = SentTo(x, imq'[y].messages)
BY DEF Queued, SentTo

LEMMA AcceptedSeqno ==
    ASSUME LinkInv, NEW p \in Ports, NEW seqno, NEW blocked, NEW new,
           new = Accepted(p, seqno, blocked)
    PROVE  new[p].seqno = seqno
<1>1. PICK c : c = ip[p].msgcount + 1
  OBVIOUS
<1>2. ip \in [Ports -> PortShape] /\ ip[p] \in PortShape
  BY DEF LinkInv, Shapes
<1>3. PICK port : port = [ip[p] EXCEPT !.msgcount = c, !.seqno = seqno, !.blocked = blocked]
  OBVIOUS
<1>4. new = [ip EXCEPT ![p] = port]
  BY <1>1, <1>2, <1>3 DEF PortShape, Accepted
<1>5. port.seqno = seqno
  BY <1>2, <1>3 DEF PortShape
<1>6. QED
  BY <1>2, <1>4, <1>5

\* The first h messages behind none go.
LEMMA FirstOnes ==
    ASSUME NEW a \in Seq(Messages), NEW ms \in Seq(Messages), NEW h \in 0 .. Len(ms),
           h > 0 => a = <<>>, NEW all, all = a \o ms
    PROVE  /\ h \in 0 .. Len(all)
           /\ SubSeq(all, h + 1, Len(all)) = a \o SubSeq(ms, h + 1, Len(ms))
           /\ \A j \in 1 .. h : all[j] = ms[j]
<1>1. all \in Seq(Messages) /\ Len(all) \in Nat /\ Len(ms) \in Nat
  BY LenProperties, ConcatProperties
<1>2. CASE h = 0
  <2>1. SubSeq(all, 1, Len(all)) = all /\ SubSeq(ms, 1, Len(ms)) = ms
    BY <1>1
  <2>2. h + 1 = 1 /\ \A j \in 1 .. h : FALSE
    BY <1>2
  <2>3. QED
    BY <1>1, <1>2, <2>1, <2>2
<1>3. CASE h # 0
  <2>1. a = <<>>
    BY <1>1, <1>3
  <2>2. all = ms
    BY <2>1
  <2>3. SubSeq(ms, h + 1, Len(ms)) \in Seq(Messages)
    BY SuffixMembers
  <2>4. a \o SubSeq(ms, h + 1, Len(ms)) = SubSeq(ms, h + 1, Len(ms))
    BY <2>1, <2>3
  <2>5. QED
    BY <2>2, <2>4
<1>4. QED
  BY <1>2, <1>3

LEMMA DeliveredSteps ==
    ASSUME LinkInv, NEW t, NEW m, NEW blocked, Sending(t, m, blocked),
           ip_active(m.port), ~m.circular, Accept(t, m, blocked)
    PROVE  Stepped
<1>1. PICK p : p = m.port
  OBVIOUS
<1>2. PICK q : q = MqueueOf(p)
  OBVIOUS
<1>3. PICK ms : ms = <<m>>
  OBVIOUS
<1>4. PICK d : d = Deliver(q, ms)
  OBVIOUS
<1>5. PICK go : go = Receivers_go(d)
  OBVIOUS
<1>6. /\ t \in Senders /\ t \in Threads /\ t \notin Receivers /\ p \in Ports /\ m \in Messages
      /\ Fresh(m) \/ th[t].kmsg = m
  BY <1>1, SendingAlone, ThreadTypes DEF Sending
<1>7. /\ q \in Queues /\ ms \in Seq(Messages) /\ Members(ms) = {m} /\ Len(ms) = 1
      /\ q = IF ip[p].pset = None THEN p ELSE ip[p].pset
  BY <1>2, <1>3, <1>6, PortTypes DEF Members, MqueueOf
<1>8. /\ ip' = Accepted(p, ip[p].seqno + Cardinality(d.handed), blocked)
      /\ imq' = [imq EXCEPT ![q] = [messages |-> d.messages, threads |-> d.threads]]
      /\ th' = Return(go, t)
  BY <1>1, <1>2, <1>3, <1>4, <1>5, <1>6, PortTypes DEF Accept, Accepted, PortShape
<1>9. /\ go \in [Threads -> ThreadRecord] /\ MetBy(d) \subseteq WaitingAt(q)
      /\ \A u \in Threads \ MetBy(d) : go[u] = th[u]
  BY <1>4, <1>5, <1>7, DeliverReceivers
<1>10. /\ ip'[p].right = ip[p].right /\ ip'[p].pset = ip[p].pset
       /\ \A x \in Ports \ {p} : ip'[x] = ip[x]
  BY <1>6, <1>8, AcceptedShape
<1>11. imq'[q].messages = d.messages /\ \A x \in Queues \ {q} : imq'[x] = imq[x]
  BY <1>7, <1>8, QueueTypes
<1>12. th'[t] = Idle /\ \A u \in Threads \ {t} : th'[u] = go[u]
  BY <1>6, <1>8, <1>9, ReturnShape
<1>13. \A u \in Senders \ {t} : th'[u] = th[u]
  BY <1>9, <1>12, ThreadTypes DEF WaitingAt
<1>14. \A r \in Receivers : th'[r].kmsg = Receivers_go(Deliver(q, ms))[r].kmsg
  BY <1>4, <1>5, <1>6, <1>12, ThreadTypes
<1>15. \A x \in Members(ms) : x.port = p
  BY <1>1, <1>7
<1>16. \E h, f : Delivered(q, ms, p, h, f)
  BY <1>6, <1>7, <1>14, <1>15, DeliverSent
<1>17. PICK h, f : Delivered(q, ms, p, h, f)
  BY <1>16
<1>18. /\ h \in 0 .. Len(ms) /\ h = Cardinality(d.handed)
       /\ f \in [1 .. h -> Receivers]
       /\ \A i, j \in 1 .. h : f[i] = f[j] => i = j
       /\ \A j \in 1 .. h : th[f[j]].kmsg = None /\ th'[f[j]].kmsg = ms[j]
       /\ \A r \in Receivers \ {f[j] : j \in 1 .. h} : th'[r].kmsg = th[r].kmsg
       /\ \A x \in Ports :
            SentTo(x, d.messages) =
              SentTo(x, imq[q].messages)
                \o (IF x = p THEN SubSeq(ms, h + 1, Len(ms)) ELSE <<>>)
       /\ h > 0 => imq[q].threads # <<>>
  BY <1>4, <1>17 DEF Delivered
<1>19. h \in Nat
  BY <1>7, <1>18
<1>20. PICK a, all : a = Queued(p) /\ all = a \o ms
  OBVIOUS
<1>21. a \in Seq(Messages) /\ a = SentTo(p, imq[q].messages)
  BY <1>2, <1>6, <1>20, QueuedTypes DEF Queued
<1>22. ASSUME h > 0 PROVE a = <<>> /\ ip[p].right = "held"
  <2>1. imq[q].threads # <<>>
    BY <1>18, <1>22
  <2>2. imq[q].messages = <<>>
    BY <1>7, <2>1 DEF LinkInv, NoReceiverBesideMessage
  <2>3. a = <<>>
    BY <1>21, <2>2, NothingSent
  <2>4. ip[p].right = "held"
    BY <1>6, <1>7, <2>1 DEF LinkInv, PortsOK
  <2>5. QED
    BY <2>3, <2>4
<1>23. /\ h \in 0 .. Len(all)
       /\ SubSeq(all, h + 1, Len(all)) = a \o SubSeq(ms, h + 1, Len(ms))
       /\ \A j \in 1 .. h : all[j] = ms[j]
  <2>1. ms \in Seq(Messages) /\ a \in Seq(Messages) /\ h \in 0 .. Len(ms) /\ all = a \o ms
    BY <1>7, <1>18, <1>20, <1>21
  <2>2. h > 0 => a = <<>>
    BY <1>22
  <2>3. h \in 0 .. Len(all)
    BY <2>1, <2>2, FirstOnes
  <2>4. SubSeq(all, h + 1, Len(all)) = a \o SubSeq(ms, h + 1, Len(ms))
    BY <2>1, <2>2, FirstOnes
  <2>5. \A j \in 1 .. h : all[j] = ms[j]
    BY <2>1, <2>2, FirstOnes
  <2>6. QED
    BY <2>3, <2>4, <2>5
<1>24. ASSUME NEW x \in Ports PROVE MqueueOf(x)' = MqueueOf(x) /\ MqueueOf(x) \in Queues
  BY <1>10, PortTypes DEF MqueueOf
<1>25. Queued(p)' = SubSeq(all, h + 1, Len(all))
  <2>1. Queued(p)' = SentTo(p, imq'[q].messages)
    BY <1>2, <1>6, <1>24, QueuedNext
  <2>2. QED
    BY <1>6, <1>11, <1>18, <1>21, <1>23, <2>1
<1>26. ASSUME NEW x \in Ports \ {p} PROVE Queued(x)' = Queued(x)
  <2>1. PICK y : y = MqueueOf(x)
    OBVIOUS
  <2>2. y \in Queues /\ Queued(x)' = SentTo(x, imq'[y].messages)
    BY <1>24, <2>1, QueuedNext
  <2>3. Queued(x) = SentTo(x, imq[y].messages) /\ Queued(x) \in Seq(Messages)
    BY <2>1, QueuedTypes DEF Queued
  <2>4. CASE y = q
    <3>1. SentTo(x, d.messages) = SentTo(x, imq[q].messages) \o <<>>
      BY <1>18
    <3>2. QED
      BY <1>11, <2>2, <2>3, <2>4, <3>1
  <2>5. CASE y # q
    BY <1>11, <2>2, <2>3, <2>5
  <2>6. QED
    BY <2>4, <2>5
<1>27. th'[t].kmsg = None
  BY <1>12, IdleShape
<1>28. Comes(p, ms, t)
  BY <1>1, <1>3, <1>6, <1>27 DEF Comes
<1>29. Hands({f[j] : j \in 1 .. h}, t)
  BY <1>13, <1>18, <1>27 DEF Hands
<1>30. ASSUME NEW x \in Ports
       PROVE  /\ ip'[x].seqno = ip[x].seqno + (IF x = p THEN h ELSE 0)
              /\ ip'[x].right = ip[x].right
  <2>1. ip'[p].seqno = ip[p].seqno + h
    BY <1>6, <1>8, <1>18, AcceptedSeqno
  <2>2. ip[x].seqno \in Nat
    BY PortTypes
  <2>3. QED
    BY <1>10, <2>1, <2>2
<1>31. ip_active(p) /\ \A x \in Ports : ip_active(x)' <=> ip_active(x)
  BY <1>1, <1>30 DEF ip_active
<1>32. NoneCopied(Ports)
  BY <1>30 DEF NoneCopied
<1>33. \A j \in 1 .. h : th[f[j]].kmsg = None /\ th'[f[j]].kmsg = all[j]
  BY <1>18, <1>23
<1>34. all = Queued(p) \o ms
  BY <1>20
<1>35. Passes(p, ms, h, f, t)
  <2>1. /\ Comes(p, ms, t)
        /\ h \in 0 .. Len(Queued(p) \o ms)
        /\ Queued(p)' = SubSeq(Queued(p) \o ms, h + 1, Len(Queued(p) \o ms))
        /\ \A j \in 1 .. h : th[f[j]].kmsg = None /\ th'[f[j]].kmsg = (Queued(p) \o ms)[j]
    BY <1>23, <1>25, <1>28, <1>33, <1>34
  <2>2. QED
    BY <1>18, <1>22, <1>26, <1>29, <1>30, <1>31, <1>32, <2>1 DEF Passes
<1>36. QED
  BY <1>6, <1>35 DEF Stepped

LEMMA TrySteps ==
    ASSUME LinkInv, LimboZero, NEW t, Tries(t)
    PROVE  Stepped
<1>1. PICK m, how, blocked :
        /\ Sending(t, m, blocked) /\ how \in SendHows
        /\ \/ SendLoop(t, m, how, blocked)
           \/ /\ ip_active(m.port) /\ th[t].ith_state = "in_progress"
              /\ Refuse(t, m, blocked)
  BY DEF Tries
<1>2. CASE ip_active(m.port) /\ Refuse(t, m, blocked)
  BY <1>1, <1>2, RefusedSteps
<1>3. CASE th' = Return(th, t) /\ ip' = ip /\ imq' = imq
  BY <1>1, <1>3, DeadSteps
<1>4. CASE ip_active(m.port) /\ Accept(t, m, blocked)
  <2>1. CASE ~m.circular
    BY <1>1, <1>4, <2>1, DeliveredSteps
  <2>2. CASE m.circular
    <3>1. /\ ip' = DeadPort(ip, m.port) /\ imq' = EmptyQueue(imq, m.port)
          /\ th' = Return(SendersGo(th, m.port), t)
      BY <1>4, <2>2 DEF Accept
    <3>2. QED
      BY <1>1, <2>2, <3>1, CircularSteps
  <2>3. QED
    BY <2>1, <2>2
<1>5. CASE /\ ip' = [ip EXCEPT ![m.port].blocked = Append(blocked, t)]
           /\ th' = [th EXCEPT ![t] = BlockedSender(m, how)]
           /\ imq' = imq
  BY <1>1, <1>5, BlocksSteps
<1>6. QED
  BY <1>1, <1>2, <1>3, <1>4, <1>5 DEF SendLoop, BlockedSender

-----------------------------------------------------------------------------
(* Ends of waits, and turns given.                                         *)

LEMMA KeptRests ==
    ASSUME LinkInv,
           \A u \in Threads : th'[u].kmsg = th[u].kmsg,
           \A x \in Queues : imq'[x].messages = imq[x].messages,
           \A x \in Ports : /\ ip'[x].seqno = ip[x].seqno /\ ip'[x].pset = ip[x].pset
                            /\ ip'[x].right = ip[x].right
    PROVE  Stepped
<1>1. Hands({}, None)
  <2>1. None \notin Senders
    BY MqueueAssumption
  <2>2. QED
    BY <2>1, ThreadTypes DEF Hands
<1>2. \A x \in Ports : Queued(x)' = Queued(x)
  BY PortTypes, QueuedKept
<1>3. \A x \in Ports : ip_active(x)' <=> ip_active(x)
  BY DEF ip_active
<1>4. Rests(None)
  BY <1>1, <1>2, <1>3 DEF Rests, NoneCopied
<1>5. QED
  BY <1>4 DEF Stepped

LEMMA WaitEndsSteps ==
    ASSUME LinkInv, NEW t \in Threads, NEW w, th' = [th EXCEPT ![t].wait = w], ip' = ip,
           imq' = imq
    PROVE  Stepped
<1>1. \A u \in Threads : th'[u].kmsg = th[u].kmsg
  BY ThreadTypes DEF ThreadRecord
<1>2. QED
  BY <1>1, KeptRests

LEMMA PsetDestroySteps ==
    ASSUME LinkInv, NEW s \in Psets, PsetDestroy(s)
    PROVE  Stepped
<1>1. /\ ip' = ip /\ imq' = [imq EXCEPT ![s].threads = <<>>]
      /\ th' = thread_go(th, Members(imq[s].threads), "port_died")
  BY DEF PsetDestroy, ipc_mqueue_changed
<1>2. \A x \in Queues : imq'[x].messages = imq[x].messages
  <2>1. imq \in [Queues -> QueueRecord] /\ s \in Queues
    BY DEF LinkInv, Shapes, Queues
  <2>2. QED
    BY <1>1, <2>1 DEF QueueRecord
<1>3. \A u \in Threads :
        IF u \in Members(imq[s].threads)
        THEN Gone(th[u], th'[u], "port_died") /\ th'[u].kmsg = th[u].kmsg
        ELSE th'[u] = th[u]
  BY <1>1, ThreadTypes, ThreadGo DEF States
<1>4. QED
  BY <1>1, <1>2, <1>3, KeptRests

LEMMA SetQlimitSteps ==
    ASSUME LinkInv, NEW p \in Ports, NEW qlimit \in QLimits, SetQlimit(p, qlimit)
    PROVE  Stepped
<1>1. PICK T, b : /\ ip' = Requeue(p, qlimit, b) /\ imq' = imq
                  /\ th' = thread_go(th, T, "success")
  <2>1. ip \in [Ports -> PortShape]
    BY DEF LinkInv, Shapes
  <2>2. QED
    BY <2>1, SetQlimitEffect DEF SetQlimit
<1>2. \A x \in Ports : /\ ip'[x].seqno = ip[x].seqno /\ ip'[x].pset = ip[x].pset
                       /\ ip'[x].right = ip[x].right
  BY <1>1 DEF LinkInv, Shapes, PortShape, Requeue
<1>3. \A u \in Threads : th'[u].kmsg = th[u].kmsg
  <2>1. \A u \in Threads :
          IF u \in T THEN Gone(th[u], th'[u], "success") /\ th'[u].kmsg = th[u].kmsg
                     ELSE th'[u] = th[u]
    BY <1>1, ThreadTypes, ThreadGo DEF States
  <2>2. QED
    BY <2>1
<1>4. QED
  BY <1>1, <1>2, <1>3, KeptRests

LEMMA ReceiveDoneSteps ==
    ASSUME LinkInv, NEW r \in Threads, ReceiveDone(r)
    PROVE  Stepped
<1>1. r \in Receivers /\ th[r].pc = "got" /\ imq' = imq
  BY DEF ReceiveDone
<1>2. th[r].kmsg \in Messages /\ th[r].kmsg.port \in Ports /\ th[r].kmsg # None
  BY <1>1, GotHas, ThreadTypes, MessageShape DEF GotFacts
<1>3. PICK p \in Ports : p = th[r].kmsg.port
  BY <1>2
<1>4. ip \in [Ports -> PortShape]
  BY DEF LinkInv, Shapes
<1>5. \E T : th' = Return(thread_go(th, T, "success"), r) \/ th' = Return(th, r)
  BY DEF ReceiveDone
<1>6. PICK gone : /\ th' = Return(gone, r) /\ gone \in [Threads -> ThreadRecord]
                  /\ \A u \in Threads : gone[u].kmsg = th[u].kmsg
  <2>1. PICK T : th' = Return(thread_go(th, T, "success"), r) \/ th' = Return(th, r)
    BY <1>5
  <2>2. PICK g : g = thread_go(th, T, "success")
    OBVIOUS
  <2>3. /\ g \in [Threads -> ThreadRecord]
        /\ \A u \in Threads :
             IF u \in T THEN Gone(th[u], g[u], "success") /\ g[u].kmsg = th[u].kmsg
                        ELSE g[u] = th[u]
    BY <2>2, ThreadTypes, ThreadGo DEF States
  <2>4. CASE th' = Return(g, r)
    BY <2>3, <2>4
  <2>5. CASE th' = Return(th, r)
    BY <2>5, ThreadTypes
  <2>6. QED
    BY <2>1, <2>2, <2>4, <2>5
<1>7. th'[r] = Idle /\ \A u \in Threads \ {r} : th'[u] = gone[u]
  BY <1>6, ReturnShape
<1>8. th'[r].kmsg = None /\ \A u \in Threads \ {r} : th'[u].kmsg = th[u].kmsg
  BY <1>6, <1>7, IdleShape
<1>9. \E c, b : ip' = Recount(p, c, b)
  <2>1. CASE ip' = ip
    <3>1. ip = Recount(p, ip[p].msgcount, ip[p].blocked)
      BY <1>4 DEF Recount, PortShape
    <3>2. QED
      BY <2>1, <3>1
  <2>2. CASE ip' = [ip EXCEPT ![p].msgcount = ip[p].msgcount - 1, ![p].blocked = Tail(@)]
    BY <1>4, <2>2 DEF Recount, PortShape
  <2>3. CASE ip' = [ip EXCEPT ![p].msgcount = ip[p].msgcount - 1]
    <3>1. ip' = Recount(p, ip[p].msgcount - 1, ip[p].blocked)
      BY <1>4, <2>3 DEF Recount, PortShape
    <3>2. QED
      BY <3>1
  <2>4. QED
    BY <1>3, <2>1, <2>2, <2>3 DEF ReceiveDone
<1>10. \A x \in Ports : /\ ip'[x].seqno = ip[x].seqno /\ ip'[x].pset = ip[x].pset
                        /\ ip'[x].right = ip[x].right
  BY <1>4, <1>9 DEF Recount, PortShape
<1>11. \A x \in Ports : ip_active(x)' <=> ip_active(x)
  BY <1>10 DEF ip_active
<1>12. \A x \in Ports : Queued(x)' = Queued(x)
  BY <1>1, <1>10, QueuedKept
<1>13. Accounts(r)
  BY <1>1, <1>2, <1>8, <1>10, <1>11, <1>12 DEF Accounts, NoneCopied
<1>14. QED
  BY <1>13 DEF Stepped

-----------------------------------------------------------------------------
(* Moves keep the order of the messages.                                   *)

\* p goes to dest, and rest is left of its messages there.
Leaves(p, dest, rest) ==
    \A x \in Ports : SentTo(x, Deliver(dest, Moved(p)).messages) =
      SentTo(x, imq[dest].messages) \o (IF x = p THEN rest ELSE <<>>)
Arrives(p, dest, rest) ==
    \A x \in Ports :
      SentTo(x, ipc_mqueue_move(p, dest)[IF x = p THEN dest ELSE MqueueOf(x)].messages) =
        IF x = p THEN rest ELSE Queued(x)

LEMMA MoveSent ==
    ASSUME LinkInv, NEW p \in Ports, NEW dest \in Queues, MqueueOf(p) # dest,
           NEW rest \in Seq(Messages), Leaves(p, dest, rest)
    PROVE  Arrives(p, dest, rest)
<1>1. PICK q, d, new : q = MqueueOf(p) /\ d = Deliver(dest, Moved(p))
                       /\ new = ipc_mqueue_move(p, dest)
  OBVIOUS
<1>2. /\ q \in Queues /\ new[q].messages = SentElsewhere(p, imq[q].messages)
      /\ new[dest].messages = d.messages
      /\ \A x \in Queues \ {q, dest} : new[x] = imq[x]
  BY <1>1, MoveEffect
<1>3. \A y \in Queues : imq[y].messages \in Seq(Messages)
  BY QueueTypes
<1>4. SentTo(p, imq[dest].messages) = <<>>
  <2>1. \A m \in Members(imq[dest].messages) : m.port # p
    BY DEF LinkInv, MessagesPlaced
  <2>2. QED
    BY <1>3, <2>1, SentUniform
<1>5. ASSUME NEW x \in Ports
      PROVE  SentTo(x, new[IF x = p THEN dest ELSE MqueueOf(x)].messages) =
               IF x = p THEN rest ELSE Queued(x)
  <2>1. PICK y : y = MqueueOf(x)
    OBVIOUS
  <2>2. y \in Queues /\ Queued(x) = SentTo(x, imq[y].messages) /\ Queued(x) \in Seq(Messages)
    BY <2>1, PortTypes, QueuedTypes DEF Queued
  <2>3. CASE x = p
    <3>1. SentTo(p, d.messages) = <<>> \o rest
      BY <1>1, <1>4 DEF Leaves
    <3>2. QED
      BY <1>2, <2>3, <3>1
  <2>4. CASE x # p /\ y = q
    <3>1. SentTo(x, SentElsewhere(p, imq[q].messages)) = SentTo(x, imq[q].messages)
      BY <1>2, <1>3, <2>4, SentOther
    <3>2. QED
      BY <1>2, <2>1, <2>2, <2>4, <3>1
  <2>5. CASE x # p /\ y = dest
    <3>1. SentTo(x, d.messages) = SentTo(x, imq[dest].messages) \o <<>>
      BY <1>1, <2>5 DEF Leaves
    <3>2. QED
      BY <1>2, <2>1, <2>2, <2>5, <3>1
  <2>6. CASE x # p /\ y \notin {q, dest}
    BY <1>2, <2>1, <2>2, <2>6
  <2>7. QED
    BY <2>3, <2>4, <2>5, <2>6
<1>6. QED
  BY <1>1, <1>5 DEF Arrives

\* p goes back to its own queue, where nobody waits.
LEMMA MoveBackSent ==
    ASSUME LinkInv, NEW p \in Ports, ip[p].pset # None
    PROVE  \A x \in Ports :
             SentTo(x, ipc_mqueue_move(p, p)[IF x = p THEN p ELSE MqueueOf(x)].messages) =
               Queued(x)
<1>1. imq[p].threads = <<>> /\ MqueueOf(p) # p /\ p \in Queues /\ MqueueOf(p) \in Queues
  BY PortTypes, MqueueAssumption DEF LinkInv, PortsOK, MqueueOf
<1>2. PICK a, ms : a = imq[p].messages /\ ms = Moved(p)
  OBVIOUS
<1>3. a \in Seq(Messages)
  BY <1>1, <1>2, QueueTypes
<1>4. ms \in Seq(Messages) /\ (\A m \in Members(ms) : m.port = p) /\ ms = Queued(p)
  BY <1>2, QueuedTypes DEF Moved, Queued
<1>5. Deliver(p, Moved(p)).messages = a \o ms
  BY <1>1, <1>2, <1>4, DeliverMessages
<1>6. ASSUME NEW x \in Ports
      PROVE  SentTo(x, Deliver(p, Moved(p)).messages) =
               SentTo(x, imq[p].messages) \o (IF x = p THEN ms ELSE <<>>)
  <2>1. SentTo(x, a \o ms) = SentTo(x, a) \o SentTo(x, ms)
    BY <1>3, <1>4, SentConcat
  <2>2. SentTo(x, ms) = IF x = p THEN ms ELSE <<>>
    BY <1>4, SentUniform
  <2>3. QED
    BY <1>2, <1>5, <2>1, <2>2
<1>7. Leaves(p, p, ms)
  BY <1>6 DEF Leaves
<1>8. Arrives(p, p, ms)
  BY <1>1, <1>4, <1>7, MoveSent
<1>9. QED
  BY <1>4, <1>8 DEF Arrives

LEMMA PsetRemoveSteps ==
    ASSUME LinkInv, NEW p \in Ports, PsetRemove(p)
    PROVE  Stepped
<1>1. /\ ip[p].pset # None /\ ip' = [ip EXCEPT ![p].pset = None]
      /\ imq' = ipc_mqueue_move(p, p) /\ th' = th
  BY DEF PsetRemove, ipc_pset_remove
<1>2. \A x \in Ports : /\ ip'[x].pset = IF x = p THEN None ELSE ip[x].pset
                       /\ ip'[x].right = ip[x].right /\ ip'[x].seqno = ip[x].seqno
  BY <1>1 DEF LinkInv, Shapes, PortShape
<1>3. ASSUME NEW x \in Ports PROVE Queued(x)' = Queued(x)
  <2>1. PICK y : y = IF x = p THEN p ELSE MqueueOf(x)
    OBVIOUS
  <2>2. MqueueOf(x)' = y
    BY <1>2, <2>1 DEF MqueueOf
  <2>3. Queued(x)' = SentTo(x, imq'[y].messages)
    BY <2>2, QueuedNext
  <2>4. SentTo(x, ipc_mqueue_move(p, p)[IF x = p THEN p ELSE MqueueOf(x)].messages) = Queued(x)
    BY <1>1, MoveBackSent
  <2>5. QED
    BY <1>1, <2>1, <2>3, <2>4
<1>4. Hands({}, None)
  <2>1. None \notin Senders
    BY MqueueAssumption
  <2>2. QED
    BY <1>1, <2>1 DEF Hands
<1>5. \A x \in Ports : ip_active(x)' <=> ip_active(x)
  BY <1>2 DEF ip_active
<1>6. Rests(None)
  BY <1>2, <1>3, <1>4, <1>5 DEF Rests, NoneCopied
<1>7. QED
  BY <1>6 DEF Stepped

LEMMA PsetAddSteps ==
    ASSUME LinkInv, NEW p \in Ports, NEW nset \in Psets, PsetAdd(p, nset)
    PROVE  Stepped
<1>1. PICK ms : ms = Moved(p)
  OBVIOUS
<1>2. PICK d : d = Deliver(nset, ms)
  OBVIOUS
<1>3. PICK met : met = Receivers_go(d)
  OBVIOUS
<1>4. PICK W : W = Members(imq[p].threads)
  OBVIOUS
<1>5. /\ ip[p].right = "held" /\ ip[p].pset # nset
      /\ ip' = [ip EXCEPT ![p].pset = nset, ![p].seqno = @ + Cardinality(d.handed)]
      /\ imq' = ipc_mqueue_move(p, nset)
      /\ th' = thread_go(met, W, "port_changed")
  BY <1>1, <1>2, <1>3, <1>4 DEF PsetAdd, ipc_pset_add, Moved, ipc_mqueue_changed
<1>6. /\ MqueueOf(p) # nset /\ p \in Queues /\ nset \in Queues /\ p # nset /\ nset # None
  BY <1>5, PortTypes, MqueueAssumption DEF MqueueOf, Queues
<1>7. ms \in Seq(Messages) /\ (\A m \in Members(ms) : m.port = p) /\ ms = Queued(p)
  BY <1>1, QueuedTypes DEF Moved, Queued
<1>8. PICK k \in Nat : k = Cardinality(d.handed)
  BY <1>2, <1>6, <1>7, HandedCount
<1>9. PICK seqno \in Nat : seqno = ip[p].seqno + k
  BY PortTypes
<1>10. ip \in [Ports -> PortShape]
  BY DEF LinkInv, Shapes
<1>11. ip' = Joined(p, nset, seqno)
  BY <1>5, <1>8, <1>9, <1>10 DEF PortShape, Joined
<1>12. /\ ip'[p].pset = nset /\ ip'[p].seqno = seqno /\ ip'[p].right = ip[p].right
       /\ \A x \in Ports \ {p} : ip'[x] = ip[x]
  BY <1>10, <1>11 DEF PortShape, Joined
<1>13. /\ met \in [Threads -> ThreadRecord] /\ MetBy(d) \subseteq WaitingAt(nset)
       /\ \A t \in Threads \ MetBy(d) : met[t] = th[t]
  BY <1>2, <1>3, <1>6, <1>7, DeliverReceivers
<1>14. \A u \in Threads :
         IF u \in W THEN Gone(met[u], th'[u], "port_changed") /\ th'[u].kmsg = met[u].kmsg
                    ELSE th'[u] = met[u]
  BY <1>5, <1>13, ThreadGo DEF States
<1>15. W \subseteq Receivers
  BY <1>4, <1>6, QueueTypes, NoMembers
<1>16. \A t \in Senders : th'[t] = th[t]
  BY <1>13, <1>14, <1>15, ThreadTypes DEF WaitingAt
<1>17. \A r \in Receivers : th'[r].kmsg = Receivers_go(Deliver(nset, ms))[r].kmsg
  BY <1>2, <1>3, <1>14, ThreadTypes
<1>18. \E h, f : Delivered(nset, ms, p, h, f)
  BY <1>6, <1>7, <1>17, DeliverSent
<1>19. PICK h, f : Delivered(nset, ms, p, h, f)
  BY <1>18
<1>20. /\ h \in 0 .. Len(ms) /\ h = k
       /\ f \in [1 .. h -> Receivers]
       /\ \A i, j \in 1 .. h : f[i] = f[j] => i = j
       /\ \A j \in 1 .. h : th[f[j]].kmsg = None /\ th'[f[j]].kmsg = ms[j]
       /\ \A r \in Receivers \ {f[j] : j \in 1 .. h} : th'[r].kmsg = th[r].kmsg
       /\ \A x \in Ports :
            SentTo(x, d.messages) =
              SentTo(x, imq[nset].messages)
                \o (IF x = p THEN SubSeq(ms, h + 1, Len(ms)) ELSE <<>>)
  BY <1>2, <1>8, <1>19 DEF Delivered
<1>21. PICK rest : rest = SubSeq(ms, h + 1, Len(ms))
  OBVIOUS
<1>22. rest \in Seq(Messages)
  BY <1>7, <1>20, <1>21, SuffixMembers
<1>23. Leaves(p, nset, rest)
  BY <1>1, <1>2, <1>20, <1>21 DEF Leaves
<1>24. \A x \in Ports :
         SentTo(x, ipc_mqueue_move(p, nset)[IF x = p THEN nset ELSE MqueueOf(x)].messages) =
           IF x = p THEN rest ELSE Queued(x)
  <2>1. Arrives(p, nset, rest)
    BY <1>6, <1>22, <1>23, MoveSent
  <2>2. QED
    BY <2>1 DEF Arrives
<1>25. ASSUME NEW x \in Ports PROVE Queued(x)' = IF x = p THEN rest ELSE Queued(x)
  <2>1. PICK y : y = IF x = p THEN nset ELSE MqueueOf(x)
    OBVIOUS
  <2>2. MqueueOf(x)' = y
    BY <1>6, <1>12, <2>1 DEF MqueueOf
  <2>3. Queued(x)' = SentTo(x, imq'[y].messages)
    BY <2>2, QueuedNext
  <2>4. SentTo(x, imq'[y].messages) = IF x = p THEN rest ELSE Queued(x)
    BY <1>5, <1>24, <2>1
  <2>5. QED
    BY <2>3, <2>4
<1>26. ASSUME NEW x \in Ports
       PROVE  /\ ip'[x].seqno = ip[x].seqno + (IF x = p THEN h ELSE 0)
              /\ ip'[x].right = ip[x].right
  <2>1. ip[x].seqno \in Nat
    BY PortTypes
  <2>2. QED
    BY <1>9, <1>12, <1>20, <2>1
<1>27. ip_active(p) /\ \A x \in Ports : ip_active(x)' <=> ip_active(x)
  BY <1>5, <1>26 DEF ip_active
<1>28. None \notin Senders
  BY MqueueAssumption
<1>29. Hands({f[j] : j \in 1 .. h}, None)
  BY <1>16, <1>20, <1>28 DEF Hands
<1>30. NoneCopied(Ports)
  BY <1>26 DEF NoneCopied
<1>31. Queued(p) \o <<>> = ms
  BY <1>7
<1>32. Passes(p, <<>>, h, f, None)
  <2>1. /\ Comes(p, <<>>, None)
        /\ h \in 0 .. Len(Queued(p) \o <<>>)
        /\ Queued(p)' = SubSeq(Queued(p) \o <<>>, h + 1, Len(Queued(p) \o <<>>))
        /\ \A j \in 1 .. h : th[f[j]].kmsg = None /\ th'[f[j]].kmsg = (Queued(p) \o <<>>)[j]
    BY <1>20, <1>21, <1>25, <1>31 DEF Comes
  <2>2. \A x \in Ports \ {p} : Queued(x)' = Queued(x)
    BY <1>25
  <2>3. QED
    BY <1>5, <1>20, <1>26, <1>27, <1>29, <1>30, <2>1, <2>2 DEF Passes
<1>33. QED
  BY <1>32 DEF Stepped

LEMMA ClearedSent ==
    ASSUME LinkInv, NEW p \in Ports
    PROVE  \A x \in Ports :
             SentTo(x, ClearedQueues(p)[IF x = p THEN p ELSE MqueueOf(x)].messages) = Queued(x)
<1>1. CASE ip[p].pset # None
  BY <1>1, MoveBackSent DEF ClearedQueues, ipc_pset_remove
<1>2. CASE ip[p].pset = None
  <2>1. PICK queues : queues = [imq EXCEPT ![p].threads = <<>>]
    OBVIOUS
  <2>2. \A x \in Queues : queues[x].messages = imq[x].messages
    BY <2>1, PortTypes DEF LinkInv, Shapes, QueueRecord
  <2>3. MqueueOf(p) = p /\ ClearedQueues(p) = queues
    BY <1>2, <2>1 DEF MqueueOf, ClearedQueues
  <2>4. QED
    BY <2>2, <2>3, PortTypes DEF Queued
<1>3. QED
  BY <1>1, <1>2

LEMMA CopyinReceiveSteps ==
    ASSUME LinkInv, NEW t \in Senders, NEW p \in Ports, NEW how \in SendWaits,
           CopyinReceive(t, p, how)
    PROVE  Stepped
<1>1. PICK m : m = [port |-> p, n |-> sent + 1, big |-> FALSE, circular |-> TRUE]
  OBVIOUS
<1>2. PICK ths : ths = ClearedThreads(p)
  OBVIOUS
<1>3. /\ th[t].pc = "idle" /\ ip[p].right = "held"
      /\ ip' = [ClearedPort(p) EXCEPT ![p].right = "limbo"]
      /\ imq' = ClearedQueues(p)
      /\ th' = [ths EXCEPT ![t] = CopiedSender(m, how)]
      /\ sent' = sent + 1
  BY <1>1, <1>2 DEF CopyinReceive, CopiedSender
<1>4. /\ ths \in [Threads -> ThreadRecord]
      /\ \A u \in Threads :
           IF u \in Members(imq[p].threads)
           THEN Gone(th[u], ths[u], "port_died") /\ ths[u].kmsg = th[u].kmsg
           ELSE ths[u] = th[u]
  BY <1>2, <1>3, Cleared
<1>5. th'[t] = CopiedSender(m, how) /\ \A u \in Threads \ {t} : th'[u] = ths[u]
  BY <1>3, <1>4, ThreadTypes
<1>6. \A u \in Threads \ {t} : th'[u].kmsg = th[u].kmsg
  BY <1>4, <1>5
<1>7. Fresh(th'[t].kmsg)
  <2>1. CopiedSender(m, how).kmsg = m
    BY DEF CopiedSender, Idle
  <2>2. m.n = sent + 1
    BY <1>1
  <2>3. QED
    BY <1>3, <1>5, <2>1, <2>2 DEF Fresh
<1>8. \A x \in Ports : /\ ip'[x].pset = IF x = p THEN None ELSE ip[x].pset
                       /\ ip'[x].right = IF x = p THEN "limbo" ELSE ip[x].right
                       /\ ip'[x].seqno = IF x = p THEN 0 ELSE ip[x].seqno
  BY <1>3 DEF LinkInv, Shapes, PortShape, ClearedPort
<1>9. ASSUME NEW x \in Ports PROVE Queued(x)' = Queued(x)
  <2>1. PICK y : y = IF x = p THEN p ELSE MqueueOf(x)
    OBVIOUS
  <2>2. MqueueOf(x)' = y
    BY <1>8, <2>1 DEF MqueueOf
  <2>3. Queued(x)' = SentTo(x, imq'[y].messages)
    BY <2>2, QueuedNext
  <2>4. SentTo(x, ClearedQueues(p)[IF x = p THEN p ELSE MqueueOf(x)].messages) = Queued(x)
    BY ClearedSent
  <2>5. QED
    BY <1>3, <2>1, <2>3, <2>4
<1>10. Hands({}, t)
  BY <1>6, <1>7, ThreadTypes DEF Hands
<1>11. /\ ip_active(p) /\ ip_active(p)' /\ ip'[p].seqno = 0
       /\ \A x \in Ports \ {p} : ip_active(x)' <=> ip_active(x)
  BY <1>3, <1>8 DEF ip_active
<1>12. Resets(p, t)
  BY <1>8, <1>9, <1>10, <1>11 DEF Resets, NoneCopied
<1>13. QED
  BY <1>12 DEF Stepped

LEMMA PortDestroySteps ==
    ASSUME LinkInv, NEW p \in Ports, PortDestroy(p)
    PROVE  Stepped
<1>1. PICK ths, ports, queues, G :
        /\ ths = ClearedThreads(p) /\ ports = ClearedPort(p) /\ queues = ClearedQueues(p)
        /\ G = Members(ip[p].blocked)
  OBVIOUS
<1>2. /\ ip[p].right = "held"
      /\ ip' = DeadPort(ports, p) /\ imq' = EmptyQueue(queues, p)
      /\ th' = thread_go(ths, G, "success")
  BY <1>1 DEF PortDestroy, SendersGo
<1>3. p \in Queues
  BY PortTypes
<1>4. queues \in [Queues -> QueueRecord]
  BY <1>1, <1>2, Cleared
<1>5. /\ ths \in [Threads -> ThreadRecord]
      /\ \A u \in Threads :
           IF u \in Members(imq[p].threads)
           THEN Gone(th[u], ths[u], "port_died") /\ ths[u].kmsg = th[u].kmsg
           ELSE ths[u] = th[u]
  BY <1>1, <1>2, Cleared
<1>6. \A u \in Threads :
        IF u \in G THEN Gone(ths[u], th'[u], "success") /\ th'[u].kmsg = ths[u].kmsg
                   ELSE th'[u] = ths[u]
  BY <1>2, <1>5, ThreadGo DEF States
<1>7. \A u \in Threads : th'[u].kmsg = th[u].kmsg
  BY <1>5, <1>6
<1>8. imq'[p].messages = <<>> /\ \A x \in Queues \ {p} : imq'[x] = queues[x]
  BY <1>2, <1>3, <1>4 DEF EmptyQueue, QueueRecord
<1>9. /\ ip'[p].right = "dead" /\ ip'[p].pset = None /\ ip'[p].seqno = 0
      /\ \A x \in Ports \ {p} : ip'[x] = ip[x]
  <2>1. /\ ports \in [Ports -> PortShape] /\ ports[p].pset = None /\ ports[p].seqno = 0
        /\ \A x \in Ports \ {p} : ports[x] = ip[x]
    BY <1>1 DEF LinkInv, Shapes, PortShape, ClearedPort
  <2>2. QED
    BY <1>2, <2>1 DEF DeadPort, PortShape
<1>10. Queued(p)' = <<>>
  <2>1. MqueueOf(p)' = p
    BY <1>9 DEF MqueueOf
  <2>2. QED
    BY <1>8, <2>1, QueuedNext, NothingSent
<1>11. ASSUME NEW x \in Ports \ {p} PROVE Queued(x)' = Queued(x)
  <2>1. PICK y : y = MqueueOf(x)
    OBVIOUS
  <2>2. MqueueOf(x)' = y /\ y \in Queues /\ y # p
    BY <1>9, <2>1, PortTypes, MqueueAssumption DEF MqueueOf
  <2>3. Queued(x)' = SentTo(x, imq'[y].messages)
    BY <2>2, QueuedNext
  <2>4. SentTo(x, ClearedQueues(p)[IF x = p THEN p ELSE MqueueOf(x)].messages) = Queued(x)
    BY ClearedSent
  <2>5. QED
    BY <1>1, <1>8, <2>1, <2>2, <2>3, <2>4
<1>12. Hands({}, None)
  <2>1. None \notin Senders
    BY MqueueAssumption
  <2>2. QED
    BY <1>7, <2>1, ThreadTypes DEF Hands
<1>13. /\ ip_active(p) /\ ~ip_active(p)'
       /\ \A x \in Ports \ {p} : ip_active(x)' <=> ip_active(x)
  BY <1>2, <1>9 DEF ip_active
<1>14. Resets(p, None)
  BY <1>9, <1>10, <1>11, <1>12, <1>13 DEF Resets, NoneCopied
<1>15. QED
  BY <1>14 DEF Stepped

-----------------------------------------------------------------------------
(* The receivers take what is queued, the oldest first.                    *)

\* The loop finds the messages there are, in their order.
FoundSent(ports, queues) ==
    /\ ports \in [Ports -> PortShape] /\ queues \in [Queues -> QueueRecord]
    /\ \A x \in Ports :
         /\ ports[x].right = ip[x].right /\ ports[x].seqno = ip[x].seqno
         /\ SentTo(x, queues[QueueIn(ports, x)].messages) = Queued(x)

LEMMA NothingTakenRests ==
    ASSUME LinkInv, NEW r \in Receivers, NEW ports, NEW queues, FoundSent(ports, queues),
           ip' = ports,
           \A x \in Queues : imq'[x].messages = queues[x].messages,
           th'[r].kmsg = th[r].kmsg, \A u \in Threads \ {r} : th'[u] = th[u]
    PROVE  Stepped
<1>1. \A x \in Ports : ip'[x].right = ip[x].right /\ ip'[x].seqno = ip[x].seqno
  BY DEF FoundSent
<1>2. ASSUME NEW x \in Ports PROVE Queued(x)' = Queued(x)
  <2>1. PICK y : y = QueueIn(ports, x)
    OBVIOUS
  <2>2. MqueueOf(x)' = y /\ y \in Queues
    BY <2>1 DEF MqueueOf, QueueIn, FoundSent, PortShape, Queues
  <2>3. Queued(x)' = SentTo(x, imq'[y].messages)
    BY <2>2, QueuedNext
  <2>4. QED
    BY <2>1, <2>2, <2>3 DEF FoundSent
<1>3. Hands({}, None)
  <2>1. None \notin Senders
    BY MqueueAssumption
  <2>2. QED
    BY <2>1, ThreadTypes DEF Hands
<1>4. \A x \in Ports : ip_active(x)' <=> ip_active(x)
  BY <1>1 DEF ip_active
<1>5. Rests(None)
  BY <1>1, <1>2, <1>3, <1>4 DEF Rests, NoneCopied
<1>6. QED
  BY <1>5 DEF Stepped

\* The messages of x without the first of all.
LEMMA SentTail ==
    ASSUME NEW ms \in Seq(Messages), ms # <<>>, NEW x
    PROVE  SentTo(x, ms) = (IF Head(ms).port = x THEN <<Head(ms)>> ELSE <<>>)
                             \o SentTo(x, Tail(ms))
<1>1. PICK one, rest : one = <<Head(ms)>> /\ rest = Tail(ms)
  OBVIOUS
<1>2. one \in Seq(Messages) /\ rest \in Seq(Messages) /\ ms = one \o rest
  BY <1>1
<1>3. \A m \in Members(one) : m = Head(ms)
  BY <1>1, <1>2 DEF Members
<1>4. SentTo(x, one) = IF Head(ms).port = x THEN one ELSE <<>>
  BY <1>2, <1>3, SentUniform
<1>5. SentTo(x, one \o rest) = SentTo(x, one) \o SentTo(x, rest)
  BY <1>2, SentConcat
<1>6. QED
  BY <1>1, <1>2, <1>4, <1>5

\* Only the holder of the receive right receives from a port.
HeldIn(ports, q) == q \in Ports => ports[q].right = "held"

LEMMA FirstTakenSteps ==
    ASSUME LinkInv, NEW r \in Receivers, NEW ports, NEW queues, FoundSent(ports, queues),
           Found(r, ports, queues), NEW q \in Queues, NEW m, queues[q].messages # <<>>,
           m = Head(queues[q].messages), HeldIn(ports, q),
           th[r].kmsg = None, th'[r].kmsg = m, \A u \in Threads \ {r} : th'[u] = th[u],
           ip' = Numbered(ports, m.port),
           imq' = [queues EXCEPT ![q].messages = Tail(@)]
    PROVE  Stepped
<1>1. PICK ms : ms = queues[q].messages
  OBVIOUS
<1>2. /\ ports \in [Ports -> PortShape] /\ queues \in [Queues -> QueueRecord]
      /\ \A y \in Queues : queues[y].messages \in Seq(Messages)
  BY DEF FoundSent, QueueRecord
<1>3. /\ m \in Messages /\ m # None /\ m.port \in Ports /\ m \in Members(ms)
      /\ Tail(ms) \in Seq(Messages) /\ ms \in Seq(Messages) /\ ms # <<>> /\ m = Head(ms)
  BY <1>1, <1>2, TailMembers, MessageShape
<1>4. PICK p \in Ports : p = m.port
  BY <1>3
<1>5. ip_active(p) /\ q = QueueIn(ports, p)
  BY <1>1, <1>3, <1>4 DEF Found, QueueIn
<1>6. \A x \in Ports : /\ ip'[x].right = ip[x].right /\ ip'[x].pset = ports[x].pset
                       /\ ip'[x].seqno = ip[x].seqno + (IF x = p THEN 1 ELSE 0)
  <2>1. ip' = [ports EXCEPT ![p].seqno = @ + 1]
    BY <1>4 DEF Numbered
  <2>2. \A x \in Ports : /\ ip'[x].right = ports[x].right /\ ip'[x].pset = ports[x].pset
                         /\ ip'[x].seqno = IF x = p THEN ports[x].seqno + 1 ELSE ports[x].seqno
    BY <1>2, <2>1 DEF PortShape
  <2>3. \A x \in Ports : ip[x].seqno \in Nat
    BY PortTypes
  <2>4. QED
    BY <2>2, <2>3 DEF FoundSent
<1>7. \A y \in Queues : imq'[y].messages = IF y = q THEN Tail(ms) ELSE queues[y].messages
  BY <1>1, <1>2 DEF QueueRecord
<1>8. ASSUME NEW x \in Ports
      PROVE  Queued(x) = (IF x = p THEN <<m>> ELSE <<>>) \o Queued(x)'
  <2>1. PICK y : y = QueueIn(ports, x)
    OBVIOUS
  <2>2. MqueueOf(x)' = y /\ y \in Queues
    BY <1>2, <1>6, <2>1 DEF MqueueOf, QueueIn, PortShape, Queues
  <2>3. Queued(x)' = SentTo(x, imq'[y].messages)
    BY <2>2, QueuedNext
  <2>4. Queued(x) = SentTo(x, queues[y].messages) /\ Queued(x) \in Seq(Messages)
    BY <2>1, QueuedTypes DEF FoundSent
  <2>5. CASE y = q
    <3>1. SentTo(x, ms) = (IF Head(ms).port = x THEN <<Head(ms)>> ELSE <<>>)
                             \o SentTo(x, Tail(ms))
      BY <1>3, SentTail
    <3>2. SentTo(x, ms) = (IF x = p THEN <<m>> ELSE <<>>) \o SentTo(x, Tail(ms))
      BY <1>3, <1>4, <3>1
    <3>3. QED
      BY <1>1, <1>7, <2>3, <2>4, <2>5, <3>2
  <2>6. CASE y # q
    <3>1. x # p
      BY <1>5, <2>1, <2>6
    <3>2. Queued(x)' = Queued(x)
      BY <1>7, <2>2, <2>3, <2>4, <2>6
    <3>3. QED
      BY <2>4, <3>1, <3>2
  <2>7. QED
    BY <2>5, <2>6
<1>9. ASSUME NEW x \in Ports PROVE Queued(x)' \in Seq(Messages)
  <2>1. PICK y : y = QueueIn(ports, x)
    OBVIOUS
  <2>2. MqueueOf(x)' = y /\ y \in Queues
    BY <1>2, <1>6, <2>1 DEF MqueueOf, QueueIn, PortShape, Queues
  <2>3. Queued(x)' = SentTo(x, imq'[y].messages)
    BY <2>2, QueuedNext
  <2>4. PICK left : left = imq'[y].messages
    OBVIOUS
  <2>5. left \in Seq(Messages)
    BY <1>2, <1>3, <1>7, <2>2, <2>4
  <2>6. SentTo(x, left) \in Seq(Messages)
    BY <2>5, SentMembers
  <2>7. QED
    BY <2>3, <2>4, <2>6
<1>10. ASSUME NEW x \in Ports \ {p} PROVE Queued(x)' = Queued(x)
  <2>1. PICK v : v = Queued(x)'
    OBVIOUS
  <2>2. v \in Seq(Messages) /\ Queued(x) = <<>> \o v
    BY <1>8, <1>9, <2>1
  <2>3. QED
    BY <2>1, <2>2
<1>11. PICK all, rest : all = Queued(p) \o <<>> /\ rest = Queued(p)'
  OBVIOUS
<1>12. /\ all = Queued(p) /\ all = <<m>> \o rest /\ rest \in Seq(Messages)
       /\ all \in Seq(Messages)
  BY <1>8, <1>9, <1>11, QueuedTypes
<1>13. /\ 1 \in 0 .. Len(all) /\ all[1] = m /\ rest = SubSeq(all, 2, Len(all))
  BY <1>3, <1>12
<1>14. PICK f : f = [j \in 1 .. 1 |-> r]
  OBVIOUS
<1>15. /\ f \in [1 .. 1 -> Receivers] /\ \A i, j \in 1 .. 1 : i = j
       /\ \A j \in 1 .. 1 : f[j] = r /\ j = 1
  BY <1>14
<1>16. {f[j] : j \in 1 .. 1} = {r}
  BY <1>15
<1>17. Hands({r}, None)
  <2>1. None \notin Senders
    BY MqueueAssumption
  <2>2. QED
    BY <2>1, ThreadTypes DEF Hands
<1>18. \A x \in Ports : ip_active(x)' <=> ip_active(x)
  BY <1>6 DEF ip_active
<1>19. NoneCopied(Ports)
  BY <1>6 DEF NoneCopied
<1>20. ip[p].right = "held"
  <2>1. CASE ports[p].pset = None
    BY <1>5, <2>1 DEF QueueIn, FoundSent, HeldIn
  <2>2. CASE ports[p].pset # None
    <3>1. ports[p].right # "held" => ports[p].pset = None
      BY DEF Found
    <3>2. QED
      BY <2>2, <3>1 DEF FoundSent
  <2>3. QED
    BY <2>1, <2>2
<1>21. PICK h \in Nat : h = 1
  OBVIOUS
<1>22. Passes(p, <<>>, h, f, None)
  <2>1. /\ Comes(p, <<>>, None)
        /\ h \in 0 .. Len(Queued(p) \o <<>>)
        /\ Queued(p)' = SubSeq(Queued(p) \o <<>>, h + 1, Len(Queued(p) \o <<>>))
    BY <1>11, <1>13, <1>21 DEF Comes
  <2>2. \A j \in 1 .. h : th[f[j]].kmsg = None /\ th'[f[j]].kmsg = (Queued(p) \o <<>>)[j]
    BY <1>11, <1>13, <1>15, <1>21
  <2>3. /\ f \in [1 .. h -> Receivers]
        /\ \A i, j \in 1 .. h : f[i] = f[j] => i = j
        /\ Hands({f[j] : j \in 1 .. h}, None)
    BY <1>15, <1>16, <1>17, <1>21
  <2>4. \A x \in Ports : ip'[x].seqno = ip[x].seqno + (IF x = p THEN h ELSE 0)
    BY <1>6, <1>21
  <2>5. QED
    BY <1>5, <1>10, <1>18, <1>19, <1>20, <2>1, <2>2, <2>3, <2>4 DEF Passes
<1>23. QED
  BY <1>22 DEF Stepped

LEMMA ReceiveLoopSteps ==
    ASSUME LinkInv, NEW r \in Receivers, NEW ports, NEW queues, FoundSent(ports, queues),
           Found(r, ports, queues), th[r].kmsg = None,
           NEW q \in Queues, NEW how, NEW buf, ReceiveLoop(r, q, how, buf, ports, queues),
           q \in Ports /\ queues[q].messages # <<>> => ports[q].right = "held"
    PROVE  Stepped
<1>1. r \in Threads /\ queues \in [Queues -> QueueRecord]
  BY ThreadTypes DEF FoundSent
<1>2. CASE th' = Return(th, r) /\ ip' = ports /\ imq' = queues
  <2>1. th'[r] = Idle /\ \A u \in Threads \ {r} : th'[u] = th[u]
    BY <1>1, <1>2, ThreadTypes, ReturnShape
  <2>2. th'[r].kmsg = th[r].kmsg
    BY <2>1, IdleShape
  <2>3. QED
    BY <1>2, <2>1, <2>2, NothingTakenRests
<1>3. ASSUME queues[q].messages # <<>>, NEW m, m = Head(queues[q].messages),
             th' = [th EXCEPT ![r] = ReceiverGot(q, how, buf, m)],
             ip' = Numbered(ports, m.port),
             imq' = [queues EXCEPT ![q].messages = Tail(@)]
      PROVE  Stepped
  <2>1. ReceiverGot(q, how, buf, m).kmsg = m
    BY DEF ReceiverGot, Idle
  <2>2. th'[r].kmsg = m /\ \A u \in Threads \ {r} : th'[u] = th[u]
    BY <1>1, <1>3, <2>1, ThreadTypes
  <2>3. HeldIn(ports, q)
    BY <1>3 DEF HeldIn
  <2>4. QED
    BY <1>3, <2>2, <2>3, FirstTakenSteps
<1>4. CASE /\ th' = [th EXCEPT ![r] = BlockedReceiver(q, how, buf)]
           /\ ip' = ports /\ imq' = [queues EXCEPT ![q].threads = Append(@, r)]
  <2>1. BlockedReceiver(q, how, buf).kmsg = None
    BY DEF BlockedReceiver, Idle
  <2>2. th'[r].kmsg = th[r].kmsg /\ \A u \in Threads \ {r} : th'[u] = th[u]
    BY <1>1, <1>4, <2>1, ThreadTypes
  <2>3. \A x \in Queues : imq'[x].messages = queues[x].messages
    BY <1>1, <1>4 DEF QueueRecord
  <2>4. QED
    BY <1>4, <2>2, <2>3, NothingTakenRests
<1>5. \/ th' = Return(th, r) /\ ip' = ports /\ imq' = queues
      \/ LET m == Head(queues[q].messages) IN
         /\ queues[q].messages # <<>>
         /\ th' = [th EXCEPT ![r] = ReceiverGot(q, how, buf, m)]
         /\ ip' = Numbered(ports, m.port)
         /\ imq' = [queues EXCEPT ![q].messages = Tail(@)]
      \/ /\ th' = [th EXCEPT ![r] = BlockedReceiver(q, how, buf)]
         /\ ip' = ports /\ imq' = [queues EXCEPT ![q].threads = Append(@, r)]
  BY DEF ReceiveLoop, ReceiverGot, BlockedReceiver, Numbered
<1>6. PICK m : m = Head(queues[q].messages)
  OBVIOUS
<1>7. QED
  BY <1>2, <1>3, <1>4, <1>5, <1>6

\* The ports are as they are, and the queues have the messages they have.
LEMMA FoundSentHere ==
    ASSUME LinkInv, NEW queues, queues \in [Queues -> QueueRecord],
           \A x \in Queues : queues[x].messages = imq[x].messages
    PROVE  FoundSent(ip, queues)
<1>1. ip \in [Ports -> PortShape]
  BY DEF LinkInv, Shapes
<1>2. \A x \in Ports : QueueIn(ip, x) = MqueueOf(x) /\ MqueueOf(x) \in Queues
  BY PortTypes DEF QueueIn, MqueueOf
<1>3. QED
  BY <1>1, <1>2 DEF FoundSent, Queued

LEMMA FoundSentTakenOut ==
    ASSUME LinkInv, NEW p \in Ports, ip[p].pset # None, NEW ports,
           ports = [ip EXCEPT ![p].pset = None], NEW r, Found(r, ports, ipc_pset_remove(p))
    PROVE  FoundSent(ports, ipc_pset_remove(p))
<1>1. PICK queues : queues = ipc_pset_remove(p)
  OBVIOUS
<1>2. queues \in [Queues -> QueueRecord]
  BY <1>1 DEF Found
<1>3. /\ ports \in [Ports -> PortShape]
      /\ \A x \in Ports : /\ ports[x].pset = IF x = p THEN None ELSE ip[x].pset
                          /\ ports[x].right = ip[x].right /\ ports[x].seqno = ip[x].seqno
  BY DEF LinkInv, Shapes, PortShape
<1>4. \A x \in Ports : QueueIn(ports, x) = IF x = p THEN p ELSE MqueueOf(x)
  BY <1>3 DEF QueueIn, MqueueOf
<1>5. \A x \in Ports : SentTo(x, queues[IF x = p THEN p ELSE MqueueOf(x)].messages) = Queued(x)
  BY <1>1, MoveBackSent DEF ipc_pset_remove
<1>6. QED
  BY <1>1, <1>2, <1>3, <1>4, <1>5 DEF FoundSent

LEMMA ReceiveSteps ==
    ASSUME LinkInv, NEW r \in Receivers, NEW q \in Queues, NEW how \in RcvWaits,
           NEW buf \in Buffers, Receive(r, q, how, buf)
    PROVE  Stepped
<1>1. th[r].ith_state # "in_progress" /\ th[r].kmsg = None
  <2>1. ReceiverOK(th[r]) /\ th[r].pc = "idle"
    BY DEF LinkInv, ReceiversOK, Receive
  <2>2. QED
    BY <2>1 DEF ReceiverOK
<1>2. CASE /\ ReceiveLoop(r, q, how, buf, ip, imq)
           /\ q \in Ports => ip[q].right = "held"
  <2>1. Found(r, ip, imq)
    BY <1>1, FoundIdle
  <2>2. FoundSent(ip, imq)
    BY FoundSentHere DEF LinkInv, Shapes
  <2>3. QED
    BY <1>1, <1>2, <2>1, <2>2, ReceiveLoopSteps
<1>3. CASE /\ q \in Ports /\ ip[q].right = "held" /\ ip[q].pset # None
           /\ ReceiveLoop(r, q, how, buf, [ip EXCEPT ![q].pset = None], ipc_pset_remove(q))
  <2>1. PICK ports, queues : ports = [ip EXCEPT ![q].pset = None] /\ queues = ipc_pset_remove(q)
    OBVIOUS
  <2>2. Found(r, ports, queues)
    BY <1>1, <1>3, <2>1, FoundTakenOut
  <2>3. FoundSent(ports, queues)
    BY <1>3, <2>1, <2>2, FoundSentTakenOut
  <2>4. ReceiveLoop(r, q, how, buf, ports, queues)
    BY <1>3, <2>1
  <2>5. ports[q].right = "held"
    BY <1>3, <2>3 DEF FoundSent
  <2>6. QED
    BY <1>1, <2>2, <2>3, <2>4, <2>5, ReceiveLoopSteps
<1>4. None \notin Psets /\ Ports \cap Psets = {}
  BY MqueueAssumption
<1>5. QED
  BY <1>2, <1>3, <1>4 DEF Receive

LEMMA ReceiveResumeSteps ==
    ASSUME LinkInv, NEW r \in Threads, ReceiveResume(r)
    PROVE  Stepped
<1>1. /\ r \in Receivers /\ th[r].pc = "blocked" /\ ReceiverOK(th[r]) /\ th[r] \in ThreadRecord
  BY ThreadTypes DEF ReceiveResume, LinkInv, ReceiversOK
<1>2. FoundSent(ip, imq)
  BY FoundSentHere DEF LinkInv, Shapes
<1>3. CASE th' = [th EXCEPT ![r].pc = "got"] /\ ip' = ip /\ imq' = imq
  <2>1. th'[r].kmsg = th[r].kmsg /\ \A u \in Threads \ {r} : th'[u] = th[u]
    BY <1>1, <1>3, ThreadTypes DEF ThreadRecord
  <2>2. QED
    BY <1>1, <1>2, <1>3, <2>1, NothingTakenRests
<1>4. ASSUME NEW queues, th[r].kmsg = None, FoundSent(ip, queues), th' = Return(th, r),
             ip' = ip, imq' = queues
      PROVE  Stepped
  <2>1. th'[r] = Idle /\ \A u \in Threads \ {r} : th'[u] = th[u]
    BY <1>4, ThreadTypes, ReturnShape
  <2>2. th'[r].kmsg = th[r].kmsg
    BY <1>4, <2>1, IdleShape
  <2>3. QED
    BY <1>1, <1>4, <2>1, <2>2, NothingTakenRests
<1>5. CASE /\ \/ th[r].ith_state \in {"port_died", "port_changed"}
              \/ th[r].ith_state = "too_large" /\ th[r].buf = "large"
           /\ th' = Return(th, r) /\ ip' = ip /\ imq' = imq
  <2>1. th[r].kmsg = None
    BY <1>1, <1>5 DEF ReceiverOK
  <2>2. QED
    BY <1>2, <1>4, <1>5, <2>1
\* A receiver that waits is in a queue without messages.
<1>6. ASSUME th[r].ith_state = "in_progress",
             NEW queues, queues = [imq EXCEPT ![th[r].mq].threads = Unlinked(@, r)]
      PROVE  /\ th[r].kmsg = None /\ Found(r, ip, queues) /\ th[r].mq \in Queues
             /\ FoundSent(ip, queues) /\ queues[th[r].mq].messages = <<>>
  <2>1. Found(r, ip, queues) /\ th[r].mq \in Queues
    BY <1>1, <1>6, FoundWithdrawn
  <2>2. queues \in [Queues -> QueueRecord]
    BY <2>1 DEF Found
  <2>3. \A x \in Queues : queues[x].messages = imq[x].messages
    BY <1>6, <2>1 DEF LinkInv, Shapes, QueueRecord
  <2>4. th[r].kmsg = None
    BY <1>1, <1>6 DEF ReceiverOK
  <2>5. r \in Members(imq[th[r].mq].threads)
    BY <1>1, <1>6, <2>1 DEF LinkInv, ReceiverLinks, WaitingAt
  <2>6. imq[th[r].mq].threads # <<>>
    BY <2>5, NoMembers
  <2>7. imq[th[r].mq].messages = <<>>
    BY <2>1, <2>6 DEF LinkInv, NoReceiverBesideMessage
  <2>8. QED
    BY <2>1, <2>2, <2>3, <2>4, <2>7, FoundSentHere
<1>7. PICK queues : queues = [imq EXCEPT ![th[r].mq].threads = Unlinked(@, r)]
  OBVIOUS
<1>8. CASE /\ th[r].ith_state = "in_progress"
           /\ th' = Return(th, r) /\ ip' = ip /\ imq' = queues
  BY <1>4, <1>6, <1>7, <1>8
<1>9. CASE /\ th[r].ith_state = "in_progress"
           /\ ReceiveLoop(r, th[r].mq, "poll", th[r].buf, ip, queues)
  <2>1. PICK q, how, buf : q = th[r].mq /\ how = "poll" /\ buf = th[r].buf
    OBVIOUS
  <2>2. /\ th[r].kmsg = None /\ Found(r, ip, queues) /\ q \in Queues
        /\ FoundSent(ip, queues) /\ queues[q].messages = <<>>
    BY <1>6, <1>7, <1>9, <2>1
  <2>3. ReceiveLoop(r, q, how, buf, ip, queues)
    BY <1>9, <2>1
  <2>4. QED
    BY <1>1, <2>2, <2>3, ReceiveLoopSteps
<1>10. QED
  BY <1>3, <1>5, <1>7, <1>8, <1>9 DEF ReceiveResume

-----------------------------------------------------------------------------
(* The refinement.                                                         *)

LEMMA SentGrows ==
    ASSUME [Next]_vars
    PROVE  sent' \in {sent, sent + 1}
BY DEF Next, vars, Send, CopyinReceive, Receive, Step, SendCopied, SendResume, ReceiveResume,
       ReceiveDone, Timeout, Interrupt, SetQlimit, PsetAdd, PsetRemove, PortDestroy, PsetDestroy

LEMMA StepStepped ==
    ASSUME LinkInv, LimboZero, [Next]_vars
    PROVE  Stepped
<1>1. ASSUME NEW t \in Senders, NEW p \in Ports, NEW how \in SendWaits, NEW big \in Sizes,
             Send(t, p, how, big)
      PROVE  Stepped
  BY <1>1, SendTries, TrySteps
<1>2. ASSUME NEW t \in Senders, NEW p \in Ports, NEW how \in SendWaits, CopyinReceive(t, p, how)
      PROVE  Stepped
  BY <1>2, CopyinReceiveSteps
<1>3. ASSUME NEW r \in Receivers, NEW q \in Queues, NEW how \in RcvWaits, NEW buf \in Buffers,
             Receive(r, q, how, buf)
      PROVE  Stepped
  BY <1>3, ReceiveSteps
<1>4. ASSUME NEW t \in Threads, SendCopied(t) PROVE Stepped
  BY <1>4, SendCopiedTries, TrySteps
<1>5. ASSUME NEW t \in Threads, SendResume(t) PROVE Stepped
  BY <1>5, SendResumeTries, TrySteps
<1>6. ASSUME NEW t \in Threads, ReceiveResume(t) PROVE Stepped
  BY <1>6, ReceiveResumeSteps
<1>7. ASSUME NEW t \in Threads, ReceiveDone(t) PROVE Stepped
  BY <1>7, ReceiveDoneSteps
<1>8. ASSUME NEW t \in Threads, Timeout(t) \/ Interrupt(t) PROVE Stepped
  <2>1. PICK w : th' = [th EXCEPT ![t].wait = w] /\ ip' = ip /\ imq' = imq
    BY <1>8 DEF Timeout, Interrupt
  <2>2. QED
    BY <2>1, WaitEndsSteps
<1>9. ASSUME NEW p \in Ports, NEW qlimit \in QLimits, SetQlimit(p, qlimit)
      PROVE  Stepped
  BY <1>9, SetQlimitSteps
<1>10. ASSUME NEW p \in Ports, NEW s \in Psets, PsetAdd(p, s) PROVE Stepped
  BY <1>10, PsetAddSteps
<1>11. ASSUME NEW p \in Ports, PsetRemove(p) \/ PortDestroy(p) PROVE Stepped
  BY <1>11, PsetRemoveSteps, PortDestroySteps
<1>12. ASSUME NEW s \in Psets, PsetDestroy(s) PROVE Stepped
  BY <1>12, PsetDestroySteps
<1>13. CASE UNCHANGED vars
  <2>1. ip' = ip /\ imq' = imq /\ th' = th
    BY <1>13 DEF vars
  <2>2. QED
    BY <2>1, KeptRests
<1>14. QED
  BY <1>1, <1>2, <1>3, <1>4, <1>5, <1>6, <1>7, <1>8, <1>9, <1>10, <1>11, <1>12, <1>13
     DEF Next, Step

LEMMA FifoInit == Init => Fifo!Init /\ Unique /\ LimboZero
<1> SUFFICES ASSUME Init PROVE Fifo!Init /\ Unique /\ LimboZero
  OBVIOUS
<1>1. \A p \in Ports : ip[p].right = "held" /\ ip[p].seqno = 0 /\ ip[p].pset = None
  BY DEF Init
<1>2. \A t \in Threads : th[t].kmsg = None
  BY IdleShape DEF Init
<1>3. ASSUME NEW p \in Ports PROVE Queued(p) = <<>>
  <2>1. imq[MqueueOf(p)].messages = <<>>
    BY <1>1 DEF Init, MqueueOf, Queues
  <2>2. QED
    BY <2>1, NothingSent DEF Queued
<1>4. \A p \in Ports : InHand(p) = {}
  BY <1>2 DEF InHand, Threads
<1>5. Fifo!Init
  <2>1. Chan = [p \in Ports |-> <<>>] /\ Seqno = [p \in Ports |-> 0] /\ Alive = Ports
    BY <1>1, <1>3 DEF Chan, Seqno, Alive, ip_active
  <2>2. Hand = [p \in Ports |-> {}]
    BY <1>4 DEF Hand
  <2>3. QED
    BY <2>1, <2>2, Mapping
<1>6. Members(<<>>) = {} /\ Once(<<>>)
  BY DEF Members, Once
<1>7. Unique /\ LimboZero
  BY <1>1, <1>2, <1>3, <1>6 DEF Unique, LimboZero
<1>8. QED
  BY <1>5, <1>7

(* Every step of the message queues is a step of PortFifo.                 *)
LEMMA FifoStep ==
    LinkInv /\ Unique /\ LimboZero /\ [Next]_vars =>
      Unique' /\ LimboZero' /\ [Fifo!Next]_(Fifo!vars)
<1> SUFFICES ASSUME LinkInv, Unique, LimboZero, [Next]_vars
             PROVE  Unique' /\ LimboZero' /\ [Fifo!Next]_(Fifo!vars)
  OBVIOUS
<1>1. LinkInv' /\ Stepped /\ sent' \in {sent, sent + 1}
  BY LinkInvStep, StepStepped, SentGrows
<1>2. Unique'
  BY <1>1, StepUnique
<1>3. LimboZero'
  BY <1>1, StepLimbo
<1>4. QED
  BY <1>1, <1>2, <1>3, StepFifo

(* Through limits, port sets, timeouts, aborts and deaths a port is a FIFO *)
(* channel: ipc_mqueue_send, ipc_mqueue_move and ipc_mqueue_receive lose,  *)
(* duplicate and reorder no message of a port, and ip_seqno counts the     *)
(* deliveries.                                                             *)
THEOREM Refinement == Spec => ImplementsPortFifo
<1>1. Spec => [](LinkInv /\ Unique /\ LimboZero)
  BY LinkInvariance, FifoInit, FifoStep, PTL DEF Spec
<1>2. QED
  BY <1>1, FifoInit, FifoStep, PTL DEF Spec, ImplementsPortFifo, Fifo!Spec
=============================================================================
