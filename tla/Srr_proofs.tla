----------------------------- MODULE Srr_proofs -----------------------------
(***************************************************************************)
(* Safety of the request-response transport for any number of servers,     *)
(* destinations, requests, tries and faults: the handlers find the request *)
(* they dereference, answers go to the requests they answer, a server      *)
(* executes nothing older than what it has answered since it started, and  *)
(* one kind of step alone loses timers.                                    *)
(***************************************************************************)
EXTENDS Srr, Integers, SequenceTheorems, TLAPS

HostRecords == [q : Seq(Queued), status : Status, tries : 0 .. MaxTries,
                seq : Nat, zero : BOOLEAN]

\* Packets p and o are about the same uid; p is about an earlier one.
SameUid(p, o) == p.dest = o.dest /\ p.inc = o.inc /\ p.seq = o.seq
Older(p, o) ==
    p.dest = o.dest /\ (p.inc < o.inc \/ (p.inc = o.inc /\ p.seq < o.seq))

\* Among the packets n of a client in incarnation c that has made s requests
\* a uid stands for one request, and later uids for later requests.
NetInv(n, s, c) ==
    /\ \A p \in n : p.inc \in 1 .. c /\ p.id <= s
    /\ \A p, o \in n : /\ SameUid(p, o) => p.id = o.id
                       /\ Older(p, o) => p.id <= o.id

\* The queue in the record h of destination d is in order, and nothing behind
\* its head has been sent.
QueueInv(d, h, n, s, c) ==
    /\ h \in HostRecords
    /\ \A i \in 1 .. Len(h.q) : h.q[i].id <= s
    /\ \A i, j \in 1 .. Len(h.q) : i < j => h.q[i].id < h.q[j].id
    /\ \A p \in n : p.dest = d =>
         /\ \A i \in 1 .. Len(h.q) : p.id <= h.q[i].id
         /\ p.inc = c => p.seq <= h.seq

\* The request that an answer is awaited for is the head, and was sent.
AwaitInv(d, h, n, c) ==
    h.status = "AWAITING_RESPONSE" =>
        /\ h.q # <<>> /\ Head(h.q).packet /\ Head(h.q).seq = h.seq
        /\ \E p \in n : /\ p.dest = d /\ p.inc = c /\ p.seq = h.seq
                        /\ p.id = Head(h.q).id

\* What a server keeps (r) and its log (x) for destination d: the uid it keeps
\* is that of a packet, and bounds those it has answered since it started.
Remembered(x, i) == x[i].kept /\ OneLife(x, i, Len(x))
Bounds(r, e) ==
    r.inc # 0 /\ (Earlier(e, r) \/ (e.inc = r.inc /\ e.seq = r.seq)) /\ e.id <= r.id
ServerInv(d, r, x, n) ==
    /\ r.inc # 0 => \E p \in n : /\ p.dest = d /\ p.inc = r.inc
                                 /\ p.seq = r.seq /\ p.id = r.id
    /\ \A i \in 1 .. Len(x) : Remembered(x, i) => Bounds(r, x[i])
    /\ Ordered(x)

ThreadInv ==
    /\ timer.pc # "idle" => timer.dest \in Dests
    /\ timer.pc = "cleanup" => timer.id \in Requests
    /\ listen.pc = "indata" => listen.dest \in Dests /\ listen.id \in Requests
    /\ AnswerMatches

ClientInv ==
    \A d \in Dests : /\ QueueInv(d, host[d], net, sent, incarnation)
                     /\ AwaitInv(d, host[d], net, incarnation)
ServersInv ==
    \A h \in Hosts, d \in Dests :
        ServerInv(d, response[h][d], executed[h][d], net)

IInv == /\ TypeOK
        /\ NetInv(net, sent, incarnation)
        /\ ClientInv
        /\ ServersInv
        /\ ThreadInv
-----------------------------------------------------------------------------
(* Timers.                                                                 *)

Distinct(queue) ==
    \A i, j \in 1 .. Len(queue) : queue[i] = queue[j] => i = j

\* A queue without what is between its elements i and j.
Splice(queue, i, j) == SubSeq(queue, 1, i) \o SubSeq(queue, j, Len(queue))

\* What is left of it.
LEMMA Spliced ==
    ASSUME NEW queue \in Seq(Dests), NEW i \in 0 .. Len(queue),
           NEW j \in 1 .. Len(queue) + 1, i < j
    PROVE  LET new == Splice(queue, i, j)
           IN /\ new \in Seq(Dests) /\ Len(new) = i + (Len(queue) + 1 - j)
              /\ \A k \in 1 .. i : new[k] = queue[k]
              /\ \A k \in i + 1 .. Len(new) : new[k] = queue[k - i + j - 1]
<1> DEFINE n == Len(queue)
           a == SubSeq(queue, 1, i)
           b == SubSeq(queue, j, n)
           new == Splice(queue, i, j)
<1>1. n \in Nat
  OBVIOUS
<1>2. /\ a \in Seq(Dests) /\ Len(a) = i
      /\ \A k \in 1 .. i : a[k] = queue[k]
  BY <1>1, SubSeqProperties, ElementOfSeq
<1>3. /\ b \in Seq(Dests) /\ Len(b) = n + 1 - j
      /\ \A k \in 1 .. n + 1 - j : b[k] = queue[j + k - 1]
  BY <1>1, SubSeqProperties, ElementOfSeq
<1>0. new = a \o b
  BY DEF Splice
<1> HIDE DEF a, b, n, new
<1>4. /\ new \in Seq(Dests) /\ Len(new) = Len(a) + Len(b)
      /\ \A k \in 1 .. Len(a) + Len(b) :
           new[k] = IF k <= Len(a) THEN a[k] ELSE b[k - Len(a)]
  BY <1>0, <1>2, <1>3, ConcatProperties
<1>5. ASSUME NEW k \in 1 .. i
      PROVE  new[k] = queue[k]
  <2>1. k \in 1 .. Len(a) + Len(b) /\ k <= Len(a)
    BY <1>1, <1>2, <1>3, <1>5 DEF n
  <2>2. QED
    BY <1>2, <1>4, <1>5, <2>1
<1>6. ASSUME NEW k \in i + 1 .. Len(new)
      PROVE  new[k] = queue[k - i + j - 1]
  <2>1. /\ k \in 1 .. Len(a) + Len(b) /\ ~(k <= Len(a))
        /\ k - i \in 1 .. n + 1 - j /\ j + (k - i) - 1 = k - i + j - 1
    BY <1>1, <1>2, <1>3, <1>4, <1>6 DEF n
  <2>2. new[k] = b[k - i]
    BY <1>2, <1>4, <2>1
  <2>3. QED
    BY <1>3, <2>1, <2>2
<1>7. Len(new) = i + (n + 1 - j) /\ new \in Seq(Dests)
  BY <1>2, <1>3, <1>4
<1>8. QED
  BY <1>5, <1>6, <1>7 DEF n, new

\* What is left of a queue without duplicates has none.
LEMMA SplicedDistinct ==
    ASSUME NEW queue \in Seq(Dests), NEW i \in 0 .. Len(queue),
           NEW j \in 1 .. Len(queue) + 1, i < j, Distinct(queue)
    PROVE  Distinct(Splice(queue, i, j))
<1> DEFINE n == Len(queue)
           new == Splice(queue, i, j)
           old(k) == IF k <= i THEN k ELSE k - i + j - 1
<1>1. /\ Len(new) = i + (n + 1 - j)
      /\ \A k \in 1 .. i : new[k] = queue[k]
      /\ \A k \in i + 1 .. Len(new) : new[k] = queue[k - i + j - 1]
  BY Spliced
<1>2. n \in Nat /\ i \in 0 .. n /\ j \in 1 .. n + 1
  OBVIOUS
<1> HIDE DEF n, new
<1>3. ASSUME NEW k \in 1 .. Len(new)
      PROVE  old(k) \in 1 .. n /\ new[k] = queue[old(k)]
  <2>1. CASE k <= i
    <3>1. k \in 1 .. i /\ k \in 1 .. n
      BY <1>1, <1>2, <1>3, <2>1
    <3>2. QED
      BY <1>1, <2>1, <3>1
  <2>2. CASE ~(k <= i)
    <3>1. k \in i + 1 .. Len(new) /\ k - i + j - 1 \in 1 .. n
      BY <1>1, <1>2, <1>3, <2>2
    <3>2. QED
      BY <1>1, <2>2, <3>1
  <2>3. QED
    BY <2>1, <2>2
<1>4. \A k, m \in 1 .. Len(new) : old(k) = old(m) => k = m
  BY <1>1, <1>2
<1> HIDE DEF old
<1>5. \A k, m \in 1 .. Len(new) : new[k] = new[m] => old(k) = old(m)
  BY <1>3 DEF Distinct, n
<1>6. Distinct(new)
  BY <1>4, <1>5 DEF Distinct
<1>7. QED
  BY <1>6 DEF new

\* A queue with d put in before its element j.
LEMMA PutIn ==
    ASSUME NEW queue \in Seq(Dests), NEW d \in Dests,
           NEW j \in 1 .. Len(queue) + 1
    PROVE  LET new == InsertAt(queue, j, d)
           IN /\ new \in Seq(Dests) /\ Len(new) = Len(queue) + 1 /\ new[j] = d
              /\ \A k \in 1 .. j - 1 : new[k] = queue[k]
              /\ \A k \in j + 1 .. Len(new) : new[k] = queue[k - 1]
<1> DEFINE n == Len(queue)
           a == SubSeq(queue, 1, j - 1)
           b == SubSeq(queue, j, n)
           c == a \o <<d>>
           new == InsertAt(queue, j, d)
<1>1. n \in Nat /\ j \in 1 .. n + 1 /\ new = c \o b
  BY DEF InsertAt
<1>2. /\ a \in Seq(Dests) /\ Len(a) = j - 1
      /\ \A k \in 1 .. j - 1 : a[k] = queue[k]
  BY <1>1, SubSeqProperties, ElementOfSeq
<1>3. /\ b \in Seq(Dests) /\ Len(b) = n + 1 - j
      /\ \A k \in 1 .. n + 1 - j : b[k] = queue[j + k - 1]
  BY <1>1, SubSeqProperties, ElementOfSeq
<1> HIDE DEF a, b, n, new
<1>4. /\ c \in Seq(Dests) /\ Len(c) = j /\ c[j] = d
      /\ \A k \in 1 .. j - 1 : c[k] = a[k]
  <2>1. c = Append(a, d)
    BY <1>2
  <2>2. (j - 1) + 1 = j
    BY <1>1
  <2>3. QED
    BY <1>2, <2>1, <2>2, AppendProperties
<1> HIDE DEF c
<1>5. /\ new \in Seq(Dests) /\ Len(new) = Len(c) + Len(b)
      /\ \A k \in 1 .. Len(c) + Len(b) :
           new[k] = IF k <= Len(c) THEN c[k] ELSE b[k - Len(c)]
  BY <1>1, <1>3, <1>4, ConcatProperties
<1>6. Len(new) = n + 1 /\ new[j] = d
  BY <1>1, <1>3, <1>4, <1>5 DEF n
<1>7. ASSUME NEW k \in 1 .. j - 1
      PROVE  new[k] = queue[k]
  <2>1. k \in 1 .. Len(c) + Len(b) /\ k <= Len(c)
    BY <1>1, <1>3, <1>4, <1>7 DEF n
  <2>2. QED
    BY <1>2, <1>4, <1>5, <1>7, <2>1
<1>8. ASSUME NEW k \in j + 1 .. Len(new)
      PROVE  new[k] = queue[k - 1]
  <2>1. /\ k \in 1 .. Len(c) + Len(b) /\ ~(k <= Len(c))
        /\ k - j \in 1 .. n + 1 - j /\ j + (k - j) - 1 = k - 1
    BY <1>1, <1>3, <1>4, <1>6, <1>8
  <2>2. new[k] = b[k - j]
    BY <1>4, <1>5, <2>1
  <2>3. QED
    BY <1>3, <2>1, <2>2
<1>9. QED
  BY <1>5, <1>6, <1>7, <1>8 DEF n, new

\* A timer that is not queued is put in somewhere; one that is is linked a
\* second time, and what is between its places is cut out.
LEMMA InsertedWays ==
    ASSUME NEW queue \in Seq(Dests), NEW d \in Dests, NEW zero \in BOOLEAN,
           NEW new \in Inserted(queue, d, zero)
    PROVE  LET n == Len(queue) IN
           \/ /\ ~OnQueue(queue, d)
              /\ \E j \in 1 .. n + 1 : new = InsertAt(queue, j, d)
           \/ /\ OnQueue(queue, d)
              /\ \E i \in 1 .. n, j \in 1 .. n + 1 :
                   /\ i < j /\ queue[i] = d
                   /\ new = Splice(queue, i, j)
<1> DEFINE n == Len(queue)
           old == {i \in 1 .. n : queue[i] = d}
           places == IF zero THEN 1 .. n + 1 ELSE {n + 1}
<1>1. n \in Nat /\ places \subseteq 1 .. n + 1
  OBVIOUS
<1>2. OnQueue(queue, d) <=> old # {}
  BY DEF OnQueue
<1>3. CASE old = {}
  <2>1. new \in {InsertAt(queue, j, d) : j \in places}
    BY <1>3 DEF Inserted
  <2>2. QED
    BY <1>1, <1>2, <1>3, <2>1
<1>4. CASE old # {}
  <2>1. new \in UNION {{SubSeq(queue, 1, i) \o SubSeq(queue, j, n) :
                          j \in {k \in places : k > i}} : i \in old}
    BY <1>4 DEF Inserted
  <2>2. \A i \in old, j \in places : j > i => i < j
    BY <1>1
  <2>3. QED
    BY <1>1, <1>2, <1>4, <2>1, <2>2 DEF Splice
<1>5. QED
  BY <1>3, <1>4

\* A timer that is inserted, and be it a second time, is on the queue, once;
\* the others stay if it was not queued.
LEMMA InsertedTimer ==
    ASSUME NEW queue \in Seq(Dests), NEW d \in Dests, NEW zero \in BOOLEAN,
           NEW new \in Inserted(queue, d, zero)
    PROVE  /\ new \in Seq(Dests) /\ OnQueue(new, d)
           /\ Distinct(queue) => Distinct(new)
           /\ ~OnQueue(queue, d) =>
                \A e \in Dests : OnQueue(queue, e) => OnQueue(new, e)
<1> DEFINE n == Len(queue)
<1>1. n \in Nat
  OBVIOUS
<1>2. CASE /\ ~OnQueue(queue, d)
           /\ \E j \in 1 .. n + 1 : new = InsertAt(queue, j, d)
  <2>1. PICK j \in 1 .. n + 1 : new = InsertAt(queue, j, d)
    BY <1>2
  <2>2. /\ new \in Seq(Dests) /\ Len(new) = n + 1 /\ new[j] = d
        /\ \A k \in 1 .. j - 1 : new[k] = queue[k]
        /\ \A k \in j + 1 .. Len(new) : new[k] = queue[k - 1]
    BY <2>1, PutIn
  <2>3. \A k \in 1 .. n : queue[k] # d
    BY <1>2 DEF OnQueue
  <2> HIDE DEF n
  <2>4. OnQueue(new, d)
    BY <2>1, <2>2 DEF OnQueue
  <2>5. ASSUME NEW e \in Dests, OnQueue(queue, e)
        PROVE  OnQueue(new, e)
    <3>1. PICK i \in 1 .. n : queue[i] = e
      BY <2>5 DEF OnQueue, n
    <3>2. CASE i < j
      <4>1. i \in 1 .. j - 1 /\ i \in 1 .. n + 1
        BY <1>1, <2>1, <3>1, <3>2
      <4>2. QED
        BY <2>2, <3>1, <4>1 DEF OnQueue
    <3>3. CASE ~(i < j)
      <4>1. i + 1 \in j + 1 .. n + 1 /\ i + 1 \in 1 .. n + 1 /\ (i + 1) - 1 = i
        BY <1>1, <2>1, <3>1, <3>3
      <4>2. new[i + 1] = queue[i]
        BY <2>2, <4>1
      <4>3. QED
        BY <2>2, <3>1, <4>1, <4>2 DEF OnQueue
    <3>4. QED
      BY <3>2, <3>3
  <2>6. ASSUME Distinct(queue), NEW k \in 1 .. n + 1, NEW m \in 1 .. n + 1,
               new[k] = new[m]
        PROVE  k = m
    <3> DEFINE old(x) == IF x < j THEN x ELSE x - 1
    <3>1. \A x \in 1 .. n + 1 : x # j => old(x) \in 1 .. n /\ new[x] = queue[old(x)]
      BY <1>1, <2>1, <2>2
    <3>2. \A x, y \in 1 .. n + 1 :
             x # j /\ y # j /\ old(x) = old(y) => x = y
      BY <1>1, <2>1
    <3> HIDE DEF old
    <3>3. CASE k = j \/ m = j
      BY <2>2, <2>3, <2>6, <3>1, <3>3
    <3>4. CASE k # j /\ m # j
      BY <2>6, <3>1, <3>2, <3>4 DEF Distinct, n
    <3>5. QED
      BY <3>3, <3>4
  <2>7. QED
    BY <2>2, <2>4, <2>5, <2>6 DEF Distinct
<1>3. CASE /\ OnQueue(queue, d)
           /\ \E i \in 1 .. n, j \in 1 .. n + 1 :
                /\ i < j /\ queue[i] = d
                /\ new = Splice(queue, i, j)
  <2>1. PICK i \in 1 .. n, j \in 1 .. n + 1 :
                /\ i < j /\ queue[i] = d
                /\ new = Splice(queue, i, j)
    BY <1>3
  <2>2. i \in 0 .. n
    BY <2>1
  <2>3. /\ new \in Seq(Dests) /\ Len(new) = i + (n + 1 - j)
        /\ \A k \in 1 .. i : new[k] = queue[k]
    BY <2>1, <2>2, Spliced
  <2>4. Distinct(queue) => Distinct(new)
    BY <2>1, <2>2, SplicedDistinct
  <2>5. i \in 1 .. i /\ i \in 1 .. Len(new)
    BY <1>1, <2>1, <2>3
  <2>6. QED
    BY <1>3, <2>1, <2>3, <2>4, <2>5 DEF OnQueue
<1>4. \/ /\ ~OnQueue(queue, d)
         /\ \E j \in 1 .. n + 1 : new = InsertAt(queue, j, d)
      \/ /\ OnQueue(queue, d)
         /\ \E i \in 1 .. n, j \in 1 .. n + 1 :
              /\ i < j /\ queue[i] = d
              /\ new = Splice(queue, i, j)
  BY InsertedWays
<1>5. QED
  BY <1>2, <1>3, <1>4

\* A timer that is taken off is off, the others stay.
LEMMA TakenOffTimer ==
    ASSUME NEW queue \in Seq(Dests), NEW d \in Dests
    PROVE  LET new == TakenOff(queue, d)
           IN /\ new \in Seq(Dests)
              /\ Distinct(queue) => Distinct(new) /\ ~OnQueue(new, d)
              /\ \A e \in Dests \ {d} : OnQueue(queue, e) => OnQueue(new, e)
<1> DEFINE n == Len(queue)
           new == TakenOff(queue, d)
<1>1. CASE ~OnQueue(queue, d)
  BY <1>1 DEF TakenOff
<1>2. CASE OnQueue(queue, d)
  <2>1. PICK i \in 1 .. n : queue[i] = d /\ new = RemoveAt(queue, i)
    BY <1>2 DEF OnQueue, TakenOff
  <2>2. /\ n \in Nat /\ i - 1 \in 0 .. n /\ i + 1 \in 1 .. n + 1 /\ i - 1 < i + 1
    BY <2>1
  <2>3. new = Splice(queue, i - 1, i + 1)
    BY <2>1 DEF RemoveAt, Splice
  <2> HIDE DEF new
  <2>4. /\ new \in Seq(Dests) /\ Len(new) = (i - 1) + (n + 1 - (i + 1))
        /\ \A k \in 1 .. i - 1 : new[k] = queue[k]
        /\ \A k \in (i - 1) + 1 .. Len(new) :
             new[k] = queue[k - (i - 1) + (i + 1) - 1]
        /\ Distinct(queue) => Distinct(new)
    <3> DEFINE lo == i - 1
               hi == i + 1
    <3>1. /\ lo \in 0 .. n /\ hi \in 1 .. n + 1 /\ lo < hi
          /\ new = Splice(queue, lo, hi)
      BY <2>2, <2>3
    <3> HIDE DEF lo, hi
    <3>2. /\ new \in Seq(Dests) /\ Len(new) = lo + (n + 1 - hi)
          /\ \A k \in 1 .. lo : new[k] = queue[k]
          /\ \A k \in lo + 1 .. Len(new) : new[k] = queue[k - lo + hi - 1]
          /\ Distinct(queue) => Distinct(new)
      BY <3>1, Spliced, SplicedDistinct
    <3>3. QED
      BY <3>2 DEF lo, hi
  <2> HIDE DEF n
  <2>5. /\ Len(new) = n - 1
        /\ \A k \in i .. n - 1 : new[k] = queue[k + 1]
    <3>1. /\ (i - 1) + (n + 1 - (i + 1)) = n - 1 /\ (i - 1) + 1 = i
          /\ \A k \in i .. n - 1 : k - (i - 1) + (i + 1) - 1 = k + 1
      BY <2>1, <2>2
    <3>2. QED
      BY <2>4, <3>1
  <2>6. ASSUME NEW e \in Dests \ {d}, OnQueue(queue, e)
        PROVE  OnQueue(new, e)
    <3>1. PICK j \in 1 .. n : queue[j] = e
      BY <2>6 DEF OnQueue, n
    <3>2. j # i
      BY <2>1, <2>6, <3>1
    <3>3. CASE j < i
      <4>1. j \in 1 .. i - 1 /\ j \in 1 .. Len(new)
        BY <2>1, <2>2, <2>5, <3>1, <3>3
      <4>2. QED
        BY <2>4, <3>1, <4>1 DEF OnQueue
    <3>4. CASE j > i
      <4>1. /\ j - 1 \in i .. n - 1 /\ j - 1 \in 1 .. Len(new)
            /\ (j - 1) + 1 = j
        BY <2>1, <2>2, <2>5, <3>1, <3>4
      <4>2. new[j - 1] = queue[j]
        BY <2>5, <4>1
      <4>3. QED
        BY <3>1, <4>1, <4>2 DEF OnQueue
    <3>5. QED
      BY <2>1, <2>2, <3>1, <3>2, <3>3, <3>4
  <2>7. ASSUME Distinct(queue) PROVE ~OnQueue(new, d)
    <3>1. SUFFICES ASSUME NEW k \in 1 .. Len(new), new[k] = d PROVE FALSE
      BY DEF OnQueue
    <3>2. CASE k < i
      <4>1. k \in 1 .. i - 1 /\ k \in 1 .. n /\ k # i
        BY <2>1, <2>2, <3>2
      <4>2. queue[k] = d
        BY <2>4, <3>1, <4>1
      <4>3. QED
        BY <2>1, <2>7, <4>1, <4>2 DEF Distinct, n
    <3>3. CASE ~(k < i)
      <4>1. k \in i .. n - 1 /\ k + 1 \in 1 .. n /\ k + 1 # i
        BY <2>1, <2>2, <2>5, <3>1, <3>3
      <4>2. queue[k + 1] = d
        BY <2>5, <3>1, <4>1
      <4>3. QED
        BY <2>1, <2>7, <4>1, <4>2 DEF Distinct, n
    <3>4. QED
      BY <3>2, <3>3
  <2>8. QED
    BY <2>4, <2>6, <2>7 DEF new
<1>3. QED
  BY <1>1, <1>2

\* timer_restart leaves the timer on the queue, and the others.
LEMMA RestartedTimer ==
    ASSUME timer_queue \in Seq(Dests), NEW d \in Dests, NEW zero \in BOOLEAN,
           timer_restart(d, zero)
    PROVE  /\ timer_queue' \in Seq(Dests) /\ OnQueue(timer_queue', d)
           /\ Distinct(timer_queue) =>
                /\ Distinct(timer_queue')
                /\ \A e \in Dests :
                     OnQueue(timer_queue, e) => OnQueue(timer_queue', e)
<1> DEFINE off == TakenOff(timer_queue, d)
<1>1. /\ off \in Seq(Dests)
      /\ Distinct(timer_queue) => Distinct(off) /\ ~OnQueue(off, d)
      /\ \A e \in Dests \ {d} : OnQueue(timer_queue, e) => OnQueue(off, e)
  BY TakenOffTimer
<1>2. timer_queue' \in Inserted(off, d, zero)
  BY DEF timer_restart
<1> HIDE DEF off
<1>3. /\ timer_queue' \in Seq(Dests) /\ OnQueue(timer_queue', d)
      /\ Distinct(off) => Distinct(timer_queue')
      /\ ~OnQueue(off, d) =>
           \A e \in Dests : OnQueue(off, e) => OnQueue(timer_queue', e)
  BY <1>1, <1>2, InsertedTimer
<1>4. QED
  BY <1>1, <1>3

-----------------------------------------------------------------------------
(* Records and packets.                                                    *)

\* Requests are numbers.
LEMMA RequestNat == Requests \subseteq Nat /\ MaxTries \in Nat \ {0}
  BY SrrAssumption DEF Requests

\* So are the identities in a queue.
LEMMA QueuedIds ==
    ASSUME NEW h \in HostRecords
    PROVE  \A i \in 1 .. Len(h.q) : h.q[i] \in Queued /\ h.q[i].id \in Nat
<1>1. h.q \in Seq(Queued)
  BY DEF HostRecords
<1>2. \A i \in 1 .. Len(h.q) : h.q[i] \in Queued
  BY <1>1
<1>3. QED
  BY <1>2, RequestNat DEF Queued

\* The head of a queue is its first element.
LEMMA HeadOfQueue ==
    ASSUME NEW h \in HostRecords, h.q # <<>>
    PROVE  /\ Len(h.q) \in Nat \ {0} /\ 1 \in 1 .. Len(h.q)
           /\ Head(h.q) = h.q[1] /\ h.q[1] \in Queued
  BY DEF HostRecords

\* A queue whose head is changed, but for its identity.
LEMMA ChangedHead ==
    ASSUME NEW q \in Seq(Queued), q # <<>>, NEW r \in Queued, r.id = q[1].id
    PROVE  /\ [q EXCEPT ![1] = r] \in Seq(Queued)
           /\ [q EXCEPT ![1] = r] # <<>>
           /\ Len([q EXCEPT ![1] = r]) = Len(q)
           /\ Head([q EXCEPT ![1] = r]) = r
           /\ \A i \in 1 .. Len(q) : [q EXCEPT ![1] = r][i].id = q[i].id
<1>1. 1 \in 1 .. Len(q)
  OBVIOUS
<1>2. /\ [q EXCEPT ![1] = r] \in Seq(Queued)
      /\ Len([q EXCEPT ![1] = r]) = Len(q)
      /\ \A i \in 1 .. Len(q) : [q EXCEPT ![1] = r][i] = IF i = 1 THEN r ELSE q[i]
  BY <1>1, ExceptSeq
<1>3. QED
  BY <1>1, <1>2

\* Nothing changes when a packet is sent again, or one about the same uid and
\* request as another.
LEMMA Echo ==
    ASSUME IInv, NEW p \in net, NEW o, SameUid(o, p), o.id = p.id
    PROVE  /\ NetInv(net \cup {o}, sent, incarnation)
           /\ \A d \in Dests :
                /\ QueueInv(d, host[d], net \cup {o}, sent, incarnation)
                /\ AwaitInv(d, host[d], net \cup {o}, incarnation)
           /\ \A h \in Hosts, d \in Dests :
                ServerInv(d, response[h][d], executed[h][d], net \cup {o})
<1>1. NetInv(net \cup {o}, sent, incarnation)
  <2>1. \A e \in net \cup {o} : \E f \in net : SameUid(e, f) /\ e.id = f.id
    BY DEF SameUid
  <2>3. ASSUME NEW e \in net \cup {o}
        PROVE  e.inc \in 1 .. incarnation /\ e.id <= sent
    BY <2>1, <2>3 DEF IInv, NetInv, SameUid
  <2>4. ASSUME NEW e \in net \cup {o}, NEW f \in net \cup {o}
        PROVE  /\ SameUid(e, f) => e.id = f.id
               /\ Older(e, f) => e.id <= f.id
    <3>1. PICK e1 \in net : SameUid(e, e1) /\ e.id = e1.id
      BY <2>1, <2>4
    <3>2. PICK f1 \in net : SameUid(f, f1) /\ f.id = f1.id
      BY <2>1, <2>4
    <3>3. /\ SameUid(e1, f1) => e1.id = f1.id
          /\ Older(e1, f1) => e1.id <= f1.id
      BY <3>1, <3>2 DEF IInv, NetInv
    <3>4. QED
      BY <3>1, <3>2, <3>3 DEF SameUid, Older
  <2>5. QED
    BY <2>3, <2>4 DEF NetInv
<1>2. ASSUME NEW d \in Dests
      PROVE  QueueInv(d, host[d], net \cup {o}, sent, incarnation)
  BY <1>2 DEF IInv, ClientInv, QueueInv, SameUid
<1>3. ASSUME NEW d \in Dests
      PROVE  AwaitInv(d, host[d], net \cup {o}, incarnation)
  BY <1>3 DEF IInv, ClientInv, AwaitInv
<1>4. ASSUME NEW h \in Hosts, NEW d \in Dests
      PROVE  ServerInv(d, response[h][d], executed[h][d], net \cup {o})
  BY <1>4 DEF IInv, ServersInv, ServerInv
<1>5. QED
  BY <1>1, <1>2, <1>3, <1>4

\* What the type invariant says of the client's records and of the packets.
LEMMA RecordTypes ==
    ASSUME IInv
    PROVE  /\ host \in [Dests -> HostRecords] /\ net \subseteq Packets
           /\ timer_queue \in Seq(Dests)
           /\ sent \in Nat /\ incarnation \in Nat \ {0}
  BY DEF IInv, TypeOK, HostRecords

\* What the client's records and the packets are to each other, with s
\* requests made, after a step that may have changed them.
ClientNext(s) ==
    /\ host' \in [Dests -> HostRecords]
    /\ timer_queue' \in Seq(Dests)
    /\ net \subseteq net' /\ net' \subseteq Packets
    /\ NetInv(net', s, incarnation)
    /\ \A e \in Dests : /\ QueueInv(e, host'[e], net', s, incarnation)
                        /\ AwaitInv(e, host'[e], net', incarnation)

\* The record of one destination changes and no packet is sent.
LEMMA RecordChanges ==
    ASSUME IInv, NEW s \in Nat, sent <= s, NEW d \in Dests, NEW h,
           QueueInv(d, h, net, s, incarnation), AwaitInv(d, h, net, incarnation),
           host' = [host EXCEPT ![d] = h], net' = net,
           timer_queue' \in Seq(Dests)
    PROVE  ClientNext(s)
<1>1. host \in [Dests -> HostRecords] /\ net \subseteq Packets /\ sent \in Nat
  BY RecordTypes
<1>2. host' \in [Dests -> HostRecords]
  BY <1>1 DEF QueueInv
<1>3. \A p \in net : p.id \in Nat
  BY <1>1 DEF Packets, Requests
<1>4. NetInv(net', s, incarnation)
  BY <1>1, <1>3 DEF IInv, NetInv
<1>5. ASSUME NEW e \in Dests
      PROVE  QueueInv(e, host'[e], net', s, incarnation)
  <2>1. CASE e = d
    BY <1>1, <2>1
  <2>2. CASE e # d
    <3>1. host'[e] = host[e] /\ QueueInv(e, host[e], net, sent, incarnation)
      BY <1>1, <1>5, <2>2 DEF IInv, ClientInv
    <3>2. \A i \in 1 .. Len(host[e].q) : host[e].q[i].id \in Nat
      BY <3>1, QueuedIds DEF QueueInv
    <3>3. QED
      BY <1>1, <3>1, <3>2 DEF QueueInv
  <2>3. QED
    BY <2>1, <2>2
<1>6. ASSUME NEW e \in Dests
      PROVE  AwaitInv(e, host'[e], net', incarnation)
  BY <1>1, <1>6 DEF IInv, ClientInv
<1>7. QED
  BY <1>1, <1>2, <1>4, <1>5, <1>6 DEF ClientNext

\* The head of the queue of d is sent with the next sequence number.
LEMMA HeadSent ==
    ASSUME IInv, NEW s \in Nat, sent <= s, NEW d \in Dests, NEW h,
           QueueInv(d, h, net, s, incarnation), h.q # <<>>, Head(h.q).packet,
           host' = [host EXCEPT ![d] =
                      [h EXCEPT !.q[1].seq = h.seq + 1, !.seq = h.seq + 1,
                                !.tries = 1, !.status = "AWAITING_RESPONSE"]],
           net' = net \cup {RequestPacket(d, h.seq + 1, Head(h.q).id)},
           timer_queue' \in Seq(Dests)
    PROVE  ClientNext(s)
<1> DEFINE seq == h.seq + 1
           o   == RequestPacket(d, seq, Head(h.q).id)
           r   == [h.q[1] EXCEPT !.seq = seq]
           q   == [h.q EXCEPT ![1] = r]
           h2  == [h EXCEPT !.q = q, !.seq = seq, !.tries = 1,
                            !.status = "AWAITING_RESPONSE"]
<1>1. /\ host \in [Dests -> HostRecords] /\ net \subseteq Packets /\ sent \in Nat
      /\ incarnation \in Nat \ {0}
  BY RecordTypes
<1>2. /\ h \in HostRecords /\ h.q \in Seq(Queued) /\ seq \in Nat
      /\ Head(h.q) = h.q[1] /\ h.q[1] \in Queued /\ 1 \in 1 .. Len(h.q)
  BY HeadOfQueue DEF QueueInv, HostRecords
<1>3. r \in Queued /\ r.id = h.q[1].id /\ r.seq = seq /\ r.packet = h.q[1].packet
  BY <1>2 DEF Queued
<1>4. /\ q \in Seq(Queued) /\ q # <<>> /\ Len(q) = Len(h.q) /\ Head(q) = r
      /\ \A i \in 1 .. Len(h.q) : q[i].id = h.q[i].id
  <2> HIDE DEF r
  <2>1. QED
    BY <1>2, <1>3, ChangedHead
<1>5. /\ h2 \in HostRecords /\ h2.q = q /\ h2.seq = seq
      /\ h2.status = "AWAITING_RESPONSE"
  <2>1. 1 \in 0 .. MaxTries /\ "AWAITING_RESPONSE" \in Status
    BY RequestNat DEF Status
  <2>2. q \in Seq(Queued) /\ seq \in Nat /\ h \in HostRecords
    BY <1>2, <1>4
  <2> HIDE DEF q, seq
  <2>3. QED
    BY <2>1, <2>2 DEF HostRecords
<1>6. host' = [host EXCEPT ![d] = h2]
  BY <1>2
<1>7. /\ o \in Packets /\ o.dest = d /\ o.inc = incarnation /\ o.seq = seq
      /\ o.id = h.q[1].id
  <2> HIDE DEF seq
  <2>1. QED
    BY <1>1, <1>2 DEF RequestPacket, Packets, Queued
<1> HIDE DEF o, h2, q, r
<1>8. \A p \in net \cup {o} :
         p.inc \in Nat /\ p.seq \in Nat /\ p.id \in Nat
  BY <1>1, <1>7 DEF Packets, Requests
<1>9. /\ \A p \in net : p.inc \in 1 .. incarnation /\ p.id <= s
      /\ \A p \in net : p.dest = d =>
           p.id <= o.id /\ (p.inc = incarnation => p.seq < seq)
      /\ o.id <= s
  <2>1. h.seq \in Nat /\ seq = h.seq + 1
    BY <1>2 DEF HostRecords
  <2>2. \A p \in net : p.inc \in 1 .. incarnation /\ p.id <= s
    BY <1>1, <1>8 DEF IInv, NetInv
  <2>3. ASSUME NEW p \in net, p.dest = d
        PROVE  p.id <= o.id /\ (p.inc = incarnation => p.seq < seq)
    <3>1. p.id <= h.q[1].id /\ (p.inc = incarnation => p.seq <= h.seq)
      BY <1>2, <2>3 DEF QueueInv
    <3>2. QED
      BY <1>7, <1>8, <2>1, <2>3, <3>1
  <2>4. o.id <= s
    BY <1>2, <1>7 DEF QueueInv
  <2>5. QED
    BY <2>2, <2>3, <2>4
<1>10. NetInv(net \cup {o}, s, incarnation)
  <2>1. \A p \in net \cup {o} : p.inc \in 1 .. incarnation /\ p.id <= s
    BY <1>1, <1>7, <1>9
  <2>2. ASSUME NEW p \in net \cup {o}, NEW f \in net \cup {o}
        PROVE  /\ SameUid(p, f) => p.id = f.id
               /\ Older(p, f) => p.id <= f.id
    <3>1. CASE p \in net /\ f \in net
      BY <3>1 DEF IInv, NetInv
    <3>2. CASE p \in net /\ f = o
      BY <1>2, <1>7, <1>8, <1>9, <3>2 DEF SameUid, Older
    <3>3. CASE p = o /\ f \in net
      BY <1>1, <1>2, <1>7, <1>8, <1>9, <3>3 DEF SameUid, Older
    <3>4. CASE p = o /\ f = o
      BY <1>8, <3>4
    <3>5. QED
      BY <3>1, <3>2, <3>3, <3>4
  <2>3. QED
    BY <2>1, <2>2 DEF NetInv
<1>11. QueueInv(d, h2, net \cup {o}, s, incarnation)
  <2>1. \A i \in 1 .. Len(h.q) : h.q[i].id \in Nat
    BY <1>2, QueuedIds
  <2>2. \A i \in 1 .. Len(h.q) : o.id <= h.q[i].id
    <3>1. ASSUME NEW i \in 1 .. Len(h.q)
          PROVE  h.q[1].id <= h.q[i].id
      <4>1. CASE i = 1
        BY <2>1, <4>1
      <4>2. CASE i # 1
        BY <1>2, <2>1, <3>1, <4>2 DEF QueueInv
      <4>3. QED
        BY <4>1, <4>2
    <3>2. QED
      BY <1>7, <3>1
  <2>3. ASSUME NEW p \in net \cup {o}, p.dest = d
        PROVE  /\ \A i \in 1 .. Len(h2.q) : p.id <= h2.q[i].id
               /\ p.inc = incarnation => p.seq <= h2.seq
    <3>1. CASE p \in net
      <4>1. \A i \in 1 .. Len(h.q) : p.id <= h.q[i].id
        BY <2>3, <3>1 DEF QueueInv
      <4>2. p.inc = incarnation => p.seq <= seq
        <5> HIDE DEF seq
        <5>1. QED
          BY <1>2, <1>8, <1>9, <2>3, <3>1
      <4> HIDE DEF seq
      <4>3. QED
        BY <1>4, <1>5, <4>1, <4>2
    <3>2. CASE p = o
      <4> HIDE DEF seq
      <4>1. QED
        BY <1>2, <1>4, <1>5, <1>7, <2>2, <3>2
    <3>3. QED
      BY <3>1, <3>2
  <2>4. /\ \A i \in 1 .. Len(h2.q) : h2.q[i].id <= s
        /\ \A i, j \in 1 .. Len(h2.q) : i < j => h2.q[i].id < h2.q[j].id
    BY <1>4, <1>5 DEF QueueInv
  <2>5. QED
    BY <1>5, <2>3, <2>4 DEF QueueInv
<1>12. AwaitInv(d, h2, net \cup {o}, incarnation)
  BY <1>2, <1>3, <1>4, <1>5, <1>7 DEF AwaitInv
<1>13. ASSUME NEW e \in Dests, e # d
       PROVE  /\ QueueInv(e, host[e], net \cup {o}, s, incarnation)
              /\ AwaitInv(e, host[e], net \cup {o}, incarnation)
  <2>1. QueueInv(e, host[e], net, sent, incarnation)
    BY <1>13 DEF IInv, ClientInv
  <2>2. \A i \in 1 .. Len(host[e].q) : host[e].q[i].id \in Nat
    BY <2>1, QueuedIds DEF QueueInv
  <2>3. QueueInv(e, host[e], net \cup {o}, s, incarnation)
    BY <1>1, <1>7, <1>13, <2>1, <2>2 DEF QueueInv
  <2>4. AwaitInv(e, host[e], net \cup {o}, incarnation)
    BY <1>13 DEF IInv, ClientInv, AwaitInv
  <2>5. QED
    BY <2>3, <2>4
<1>14. net' = net \cup {o}
  BY DEF o
<1>15. \A e \in Dests : host'[e] = IF e = d THEN h2 ELSE host[e]
  BY <1>1, <1>6
<1>16. host' \in [Dests -> HostRecords]
  BY <1>1, <1>5, <1>6
<1>17. QED
  <2>1. \A e \in Dests : /\ QueueInv(e, host'[e], net', s, incarnation)
                          /\ AwaitInv(e, host'[e], net', incarnation)
    BY <1>11, <1>12, <1>13, <1>14, <1>15
  <2>2. net' \subseteq Packets /\ net \subseteq net'
    BY <1>1, <1>7, <1>14
  <2>3. NetInv(net', s, incarnation)
    BY <1>10, <1>14
  <2>4. QED
    BY <1>16, <2>1, <2>2, <2>3 DEF ClientNext

\* A record with the same requests, and no answer awaited.
LEMMA SameQueue ==
    ASSUME NEW n, NEW s, NEW d, NEW h, NEW g \in HostRecords,
           QueueInv(d, h, n, s, incarnation), \A p \in n : p.seq \in Nat,
           g.status # "AWAITING_RESPONSE", h.seq <= g.seq, Len(g.q) = Len(h.q),
           \A i \in 1 .. Len(h.q) : g.q[i].id = h.q[i].id
    PROVE  QueueInv(d, g, n, s, incarnation) /\ AwaitInv(d, g, n, incarnation)
<1>1. h.seq \in Nat /\ g.seq \in Nat
  BY DEF QueueInv, HostRecords
<1>2. QueueInv(d, g, n, s, incarnation)
  BY <1>1 DEF QueueInv
<1>3. QED
  BY <1>2 DEF AwaitInv

\* The request at the head is aborted: its packet is null.
LEMMA AbortedQueue ==
    ASSUME NEW h \in HostRecords, h.q # <<>>
    PROVE  LET q == [h.q EXCEPT ![1].packet = FALSE]
           IN /\ q \in Seq(Queued) /\ Len(q) = Len(h.q)
              /\ \A i \in 1 .. Len(h.q) : q[i].id = h.q[i].id
<1> DEFINE r == [h.q[1] EXCEPT !.packet = FALSE]
<1>1. h.q \in Seq(Queued) /\ h.q[1] \in Queued
  BY HeadOfQueue DEF HostRecords
<1>2. r \in Queued /\ r.id = h.q[1].id
  BY <1>1 DEF Queued
<1> HIDE DEF r
<1>3. LET q == [h.q EXCEPT ![1] = r]
      IN /\ q \in Seq(Queued) /\ Len(q) = Len(h.q)
         /\ \A i \in 1 .. Len(h.q) : q[i].id = h.q[i].id
  BY <1>1, <1>2, ChangedHead
<1>4. QED
  BY <1>3 DEF r

\* srr_process_queued_request.
LEMMA Processed ==
    ASSUME IInv, NEW s \in Nat, sent <= s, NEW d \in Dests, NEW h,
           QueueInv(d, h, net, s, incarnation), AwaitInv(d, h, net, incarnation),
           h.q # <<>>, srr_process_queued_request(d, h)
    PROVE  ClientNext(s)
<1>1. /\ timer_queue \in Seq(Dests) /\ h \in HostRecords /\ h.zero \in BOOLEAN
      /\ h.seq \in Nat /\ \A p \in net : p.seq \in Nat
  BY RecordTypes DEF QueueInv, HostRecords, Packets
<1>2. ASSUME NEW zero \in BOOLEAN, timer_restart(d, zero)
      PROVE  timer_queue' \in Seq(Dests)
  BY <1>1, <1>2, RestartedTimer
<1>3. CASE /\ Head(h.q).packet
           /\ host' = [host EXCEPT ![d] =
                         [h EXCEPT !.q[1].seq = h.seq + 1, !.seq = h.seq + 1,
                                   !.tries = 1, !.status = "AWAITING_RESPONSE"]]
           /\ net' = net \cup {RequestPacket(d, h.seq + 1, Head(h.q).id)}
           /\ timer_restart(d, h.zero)
  <2>1. timer_queue' \in Seq(Dests)
    BY <1>1, <1>2, <1>3
  <2>2. QED
    BY <1>3, <2>1, HeadSent
<1>4. CASE /\ host' = [host EXCEPT ![d] =
                         [h EXCEPT !.q[1].packet = FALSE, !.seq = h.seq + 1,
                                   !.status = "LOCAL_CRYPT_FAILURE",
                                   !.zero = TRUE]]
           /\ timer_restart(d, TRUE)
           /\ UNCHANGED net
  <2> DEFINE g == [h EXCEPT !.q[1].packet = FALSE, !.seq = h.seq + 1,
                            !.status = "LOCAL_CRYPT_FAILURE", !.zero = TRUE]
  <2>1. timer_queue' \in Seq(Dests)
    BY <1>2, <1>4
  <2>2. /\ h.seq + 1 \in Nat /\ h.seq <= h.seq + 1
        /\ "LOCAL_CRYPT_FAILURE" \in Status
    BY <1>1 DEF Status
  <2>3. QueueInv(d, g, net, s, incarnation) /\ AwaitInv(d, g, net, incarnation)
    <3> DEFINE q == [h.q EXCEPT ![1].packet = FALSE]
    <3>1. /\ q \in Seq(Queued) /\ Len(q) = Len(h.q)
          /\ \A i \in 1 .. Len(h.q) : q[i].id = h.q[i].id
      BY <1>1, AbortedQueue
    <3>2. g = [h EXCEPT !.q = q, !.seq = h.seq + 1,
                        !.status = "LOCAL_CRYPT_FAILURE", !.zero = TRUE]
      OBVIOUS
    <3> HIDE DEF q, g
    <3>3. /\ g \in HostRecords /\ g.q = q /\ g.seq = h.seq + 1
          /\ g.status = "LOCAL_CRYPT_FAILURE"
      BY <1>1, <2>2, <3>1, <3>2 DEF HostRecords
    <3>4. QED
      BY <1>1, <2>2, <3>1, <3>3, SameQueue
  <2>4. host' = [host EXCEPT ![d] = g] /\ net' = net
    BY <1>4
  <2> HIDE DEF g
  <2>5. QED
    BY <2>1, <2>3, <2>4, RecordChanges
<1>5. CASE host' = [host EXCEPT ![d] = h] /\ UNCHANGED <<net, timer_queue>>
  BY <1>1, <1>5, RecordChanges
<1>6. QED
  BY <1>3, <1>4, <1>5 DEF srr_process_queued_request

\* The next request of a queue, if there is one, is processed.
LEMMA NextProcessed ==
    ASSUME IInv, NEW s \in Nat, sent <= s, NEW d \in Dests, NEW h,
           QueueInv(d, h, net, s, incarnation), AwaitInv(d, h, net, incarnation),
           NextRequest(d, h)
    PROVE  ClientNext(s)
<1>1. CASE h.q # <<>> /\ srr_process_queued_request(d, h)
  BY <1>1, Processed
<1>2. CASE host' = [host EXCEPT ![d] = h] /\ UNCHANGED <<net, timer_queue>>
  <2>1. timer_queue' \in Seq(Dests) /\ net' = net
    BY <1>2, RecordTypes
  <2>2. QED
    BY <1>2, <2>1, RecordChanges
<1>3. QED
  BY <1>1, <1>2 DEF NextRequest

\* srr_dequeue leaves a queue in order.
LEMMA DequeuedInv ==
    ASSUME IInv, NEW d \in Dests, host[d].q # <<>>,
           NEW st \in Status, st # "AWAITING_RESPONSE"
    PROVE  /\ QueueInv(d, Dequeued(host[d], st), net, sent, incarnation)
           /\ AwaitInv(d, Dequeued(host[d], st), net, incarnation)
<1> DEFINE h == host[d]
           g == Dequeued(h, st)
<1>1. QueueInv(d, h, net, sent, incarnation)
  BY DEF IInv, ClientInv
<1>2. h \in HostRecords /\ h.q \in Seq(Queued) /\ h.q # <<>>
  BY <1>1 DEF QueueInv, HostRecords
<1>3. /\ Tail(h.q) \in Seq(Queued) /\ Len(Tail(h.q)) = Len(h.q) - 1
      /\ Len(h.q) \in Nat
      /\ \A i \in 1 .. Len(Tail(h.q)) : Tail(h.q)[i] = h.q[i + 1]
  BY <1>2, HeadTailProperties
<1>4. g = [h EXCEPT !.q = Tail(h.q), !.status = st]
  BY DEF Dequeued
<1>5. /\ g \in HostRecords /\ g.q = Tail(h.q) /\ g.seq = h.seq
      /\ g.status = st
  <2> HIDE DEF g, h
  <2>1. QED
    BY <1>2, <1>3, <1>4 DEF HostRecords
<1> HIDE DEF g, h
<1>6. /\ \A i \in 1 .. Len(g.q) : i + 1 \in 1 .. Len(h.q) /\ g.q[i] = h.q[i + 1]
      /\ Len(g.q) \in Nat
  BY <1>3, <1>5
<1>7. QueueInv(d, g, net, sent, incarnation)
  <2>1. \A i \in 1 .. Len(g.q) : g.q[i].id <= sent
    BY <1>1, <1>6 DEF QueueInv
  <2>2. \A i, j \in 1 .. Len(g.q) : i < j => g.q[i].id < g.q[j].id
    BY <1>1, <1>6 DEF QueueInv
  <2>3. \A p \in net : p.dest = d =>
          /\ \A i \in 1 .. Len(g.q) : p.id <= g.q[i].id
          /\ p.inc = incarnation => p.seq <= g.seq
    BY <1>1, <1>5, <1>6 DEF QueueInv
  <2>4. QED
    BY <1>5, <2>1, <2>2, <2>3 DEF QueueInv
<1>8. AwaitInv(d, g, net, incarnation)
  BY <1>5 DEF AwaitInv
<1>9. QED
  BY <1>7, <1>8 DEF g, h
-----------------------------------------------------------------------------
(* The steps of the client.                                                *)

TimerType == [pc : {"idle", "expired", "retry", "cleanup"},
              dest : Dests \cup {None}, id : Nat]
ListenType == [pc : {"idle", "indata"}, dest : Dests \cup {None}, id : Nat,
               answer : Nat]
UidType == [inc : Nat, seq : Nat, id : Nat]
ToldType == [Requests -> SUBSET {"response", "failure"}]

\* Packets are only added, so what the servers keep stays justified.
LEMMA ServersKept ==
    ASSUME ServersInv, UNCHANGED servers, net \subseteq net'
    PROVE  ServersInv'
<1>1. response' = response /\ executed' = executed
  BY DEF servers
<1>2. ASSUME NEW h \in Hosts, NEW d \in Dests
      PROVE  ServerInv(d, response[h][d], executed[h][d], net')
  BY <1>2 DEF ServersInv, ServerInv
<1>3. QED
  BY <1>1, <1>2 DEF ServersInv

\* A step of the client that keeps its records in order keeps the invariant.
LEMMA ClientStep ==
    ASSUME IInv, ClientNext(sent'), UNCHANGED <<incarnation, servers, faults>>,
           sent' \in 0 .. MaxEvents, timer' \in TimerType,
           listen' \in ListenType, told' \in ToldType, ThreadInv'
    PROVE  IInv'
<1>1. /\ incarnation' = incarnation /\ faults' = faults
      /\ response' = response /\ executed' = executed /\ UNCHANGED servers
  BY DEF servers
<1>2. TypeOK'
  BY <1>1 DEF IInv, TypeOK, ClientNext, TimerType, ListenType, ToldType,
     HostRecords
<1>3. NetInv(net', sent', incarnation')
  BY <1>1 DEF ClientNext
<1>4. ClientInv'
  BY <1>1 DEF ClientNext, ClientInv
<1>5. ServersInv'
  BY <1>1, ServersKept DEF IInv, ClientNext
<1>6. QED
  BY <1>2, <1>3, <1>4, <1>5 DEF IInv

\* What the steps use of the invariant.
LEMMA Typed ==
    ASSUME IInv
    PROVE  /\ sent \in Nat /\ sent \in 0 .. MaxEvents /\ sent <= sent
           /\ timer \in TimerType /\ listen \in ListenType /\ told \in ToldType
           /\ timer_queue \in Seq(Dests) /\ net \subseteq Packets
           /\ host \in [Dests -> HostRecords]
           /\ Sleeping \in TimerType /\ Listening \in ListenType
<1>1. /\ timer \in TimerType /\ listen \in ListenType /\ told \in ToldType
      /\ timer_queue \in Seq(Dests) /\ net \subseteq Packets
      /\ host \in [Dests -> HostRecords] /\ sent \in 0 .. MaxEvents
  BY DEF IInv, TypeOK, TimerType, ListenType, ToldType, HostRecords
<1>2. Sleeping \in TimerType /\ Listening \in ListenType
  BY DEF Sleeping, Listening, TimerType, ListenType
<1>3. QED
  BY <1>1, <1>2, SrrAssumption

\* A fault is counted.
LEMMA FaultCounted ==
    ASSUME IInv, Fault
    PROVE  faults' \in 0 .. MaxEvents
<1>1. faults \in Nat /\ sent \in Nat /\ MaxEvents \in Nat
  BY SrrAssumption DEF IInv, TypeOK
<1>2. QED
  BY <1>1 DEF Fault

\* The records and the packets stay as they are.
LEMMA ClientSame ==
    ASSUME IInv, UNCHANGED <<host, net>>, timer_queue' \in Seq(Dests)
    PROVE  ClientNext(sent)
  BY Typed DEF IInv, ClientInv, ClientNext

\* srr_send keeps the invariant.
LEMMA SendStep ==
    ASSUME IInv, NEW d \in Dests, srr_send(d)
    PROVE  IInv'
<1> DEFINE r == [id |-> sent + 1, packet |-> TRUE, seq |-> 0]
           h == [host[d] EXCEPT !.q = Append(host[d].q, r)]
<1>1. /\ sent + faults < MaxEvents /\ sent' = sent + 1
      /\ UNCHANGED <<incarnation, timer, listen, servers, faults, told>>
  BY DEF srr_send
<1>2. /\ sent \in Nat /\ sent + 1 \in Nat /\ sent + 1 \in Requests
      /\ sent' \in 0 .. MaxEvents
  <2>1. faults \in Nat /\ sent \in Nat /\ MaxEvents \in Nat
    BY SrrAssumption DEF IInv, TypeOK
  <2>2. QED
    BY <1>1, <2>1 DEF Requests
<1>3. host[d] \in HostRecords /\ host[d].q \in Seq(Queued)
  BY Typed DEF HostRecords
<1>4. QueueInv(d, host[d], net, sent, incarnation)
  BY DEF IInv, ClientInv
<1>5. r \in Queued /\ r.id = sent + 1
  BY <1>2 DEF Queued
<1> HIDE DEF r
<1>6. /\ Append(host[d].q, r) \in Seq(Queued)
      /\ Len(Append(host[d].q, r)) = Len(host[d].q) + 1
      /\ Len(host[d].q) \in Nat
      /\ \A i \in 1 .. Len(host[d].q) : Append(host[d].q, r)[i] = host[d].q[i]
      /\ Append(host[d].q, r)[Len(host[d].q) + 1] = r
  BY <1>3, <1>5, AppendProperties
<1>7. /\ h \in HostRecords /\ h.q = Append(host[d].q, r)
      /\ h.seq = host[d].seq /\ h.status = host[d].status
  BY <1>3, <1>6 DEF HostRecords
<1>8. \A p \in net : p.id \in Nat /\ p.id <= sent
  BY Typed, RequestNat DEF IInv, NetInv, Packets
<1>9. QueueInv(d, h, net, sent + 1, incarnation)
  <2> HIDE DEF h
  <2>1. \A i \in 1 .. Len(host[d].q) :
           host[d].q[i].id \in Nat /\ host[d].q[i].id <= sent
    BY <1>3, <1>4, QueuedIds DEF QueueInv
  <2>2. \A i \in 1 .. Len(h.q) :
           h.q[i].id = IF i = Len(host[d].q) + 1 THEN sent + 1 ELSE host[d].q[i].id
    BY <1>5, <1>6, <1>7
  <2>3. ASSUME NEW i \in 1 .. Len(h.q)
        PROVE  h.q[i].id <= sent + 1
    <3>1. CASE i = Len(host[d].q) + 1
      BY <1>2, <2>2, <3>1
    <3>2. CASE i # Len(host[d].q) + 1
      <4>1. i \in 1 .. Len(host[d].q)
        BY <1>6, <1>7, <3>2
      <4>2. h.q[i].id = host[d].q[i].id
        BY <2>2, <3>2
      <4>3. host[d].q[i].id \in Nat /\ host[d].q[i].id <= sent
        BY <2>1, <4>1
      <4>4. QED
        BY <1>2, <4>2, <4>3
    <3>3. QED
      BY <3>1, <3>2
  <2>4. \A i, j \in 1 .. Len(h.q) : i < j => h.q[i].id < h.q[j].id
    BY <1>2, <1>4, <1>6, <1>7, <2>1, <2>2 DEF QueueInv
  <2>5. ASSUME NEW p \in net, p.dest = d
        PROVE  /\ \A i \in 1 .. Len(h.q) : p.id <= h.q[i].id
               /\ p.inc = incarnation => p.seq <= h.seq
    BY <1>2, <1>4, <1>6, <1>7, <1>8, <2>2, <2>5 DEF QueueInv
  <2>6. QED
    BY <1>7, <2>3, <2>4, <2>5 DEF QueueInv
<1>10. AwaitInv(d, h, net, incarnation)
  <2> HIDE DEF h
  <2>1. AwaitInv(d, host[d], net, incarnation)
    BY DEF IInv, ClientInv
  <2>2. host[d].q # <<>> => h.q # <<>> /\ Head(h.q) = Head(host[d].q)
    BY <1>3, <1>6, <1>7
  <2>3. QED
    BY <1>7, <2>1, <2>2 DEF AwaitInv
<1>11. h.q # <<>>
  <2> HIDE DEF h
  <2>1. QED
    BY <1>6, <1>7
<1>12. \/ srr_process_queued_request(d, h)
       \/ host' = [host EXCEPT ![d] = h] /\ UNCHANGED <<net, timer_queue>>
  BY DEF srr_send, r
<1>13. ClientNext(sent + 1)
  <2> HIDE DEF h
  <2>1. sent <= sent + 1
    BY <1>2
  <2>2. CASE srr_process_queued_request(d, h)
    BY <1>2, <1>9, <1>10, <1>11, <2>1, <2>2, Processed
  <2>3. CASE host' = [host EXCEPT ![d] = h] /\ UNCHANGED <<net, timer_queue>>
    <3>1. timer_queue' \in Seq(Dests) /\ net' = net
      BY <2>3, Typed
    <3>2. QED
      BY <1>2, <1>9, <1>10, <2>1, <2>3, <3>1, RecordChanges
  <2>4. QED
    BY <1>12, <2>2, <2>3
<1>14. ThreadInv'
  BY <1>1 DEF IInv, ThreadInv, AnswerMatches
<1>15. ClientNext(sent')
  BY <1>1, <1>13
<1>16. /\ timer' \in TimerType /\ listen' \in ListenType /\ told' \in ToldType
  BY <1>1, Typed
<1>17. QED
  BY <1>1, <1>2, <1>14, <1>15, <1>16, ClientStep

\* timer_run finding a timer expired keeps it.
LEMMA TimerExpiresStep ==
    ASSUME IInv, TimerExpires
    PROVE  IInv'
<1>1. /\ UNCHANGED <<host, incarnation, timer_queue, listen, net, servers, sent,
                     faults, told>>
      /\ timer' = [Sleeping EXCEPT !.pc = "expired", !.dest = Head(timer_queue)]
      /\ timer_queue # <<>>
  BY DEF TimerExpires
<1>2. Head(timer_queue) \in Dests
  BY <1>1, Typed
<1>3. timer' \in TimerType /\ timer'.pc = "expired" /\ timer'.dest \in Dests
  BY <1>1, <1>2 DEF Sleeping, TimerType
<1>4. ThreadInv'
  BY <1>1, <1>3 DEF IInv, ThreadInv, AnswerMatches
<1>5. ClientNext(sent')
  BY <1>1, Typed, ClientSame
<1>6. QED
  BY <1>1, <1>3, <1>4, <1>5, Typed, ClientStep

\* So does taking the timer off the queue.
LEMMA TimerRemoveStep ==
    ASSUME IInv, TimerRemove
    PROVE  IInv'
<1>1. /\ UNCHANGED <<host, incarnation, listen, net, servers, sent, faults,
                     told>>
      /\ timer_queue' = TakenOff(timer_queue, timer.dest)
      /\ timer.pc = "expired"
      /\ timer' = [timer EXCEPT !.pc = "retry"] \/ timer' = Sleeping
  BY DEF TimerRemove
<1>2. timer.dest \in Dests
  BY <1>1 DEF IInv, ThreadInv
<1>3. /\ timer' \in TimerType
      /\ timer'.pc # "idle" => timer'.dest \in Dests
      /\ timer'.pc # "cleanup"
  BY <1>1, <1>2, Typed DEF TimerType, Sleeping
<1>4. ThreadInv'
  BY <1>1, <1>3 DEF IInv, ThreadInv, AnswerMatches
<1>5. timer_queue' \in Seq(Dests)
  BY <1>1, <1>2, Typed, TakenOffTimer
<1>6. ClientNext(sent')
  BY <1>1, <1>5, ClientSame
<1>7. QED
  BY <1>1, <1>3, <1>4, <1>6, Typed, ClientStep

\* The head of the queue of d, for which an answer is awaited, is sent again,
\* or just counted as tried.
LEMMA Resent ==
    ASSUME IInv, NEW d \in Dests, host[d].q # <<>>, ~Tried(host[d]),
           host' = [host EXCEPT ![d].tries = @ + 1],
           net' = IF host[d].status = "AWAITING_RESPONSE"
                  THEN net \cup {RequestPacket(d, Head(host[d].q).seq,
                                               Head(host[d].q).id)}
                  ELSE net,
           timer_queue' \in Seq(Dests)
    PROVE  ClientNext(sent)
<1> DEFINE h == host[d]
           g == [h EXCEPT !.tries = h.tries + 1]
           o == RequestPacket(d, Head(h.q).seq, Head(h.q).id)
<1>1. QueueInv(d, h, net, sent, incarnation) /\ AwaitInv(d, h, net, incarnation)
  BY DEF IInv, ClientInv
<1>2. h \in HostRecords /\ h.q # <<>> /\ host \in [Dests -> HostRecords]
  BY Typed
<1>3. h.tries + 1 \in 0 .. MaxTries
  BY <1>2, SrrAssumption DEF HostRecords, Tried
<1>4. /\ g \in HostRecords /\ g.q = h.q /\ g.seq = h.seq /\ g.status = h.status
  <2> HIDE DEF h
  <2>1. QED
    BY <1>2, <1>3 DEF HostRecords
<1>5. host' = [host EXCEPT ![d] = g]
  BY <1>2
<1>6. ASSUME NEW n, QueueInv(d, h, n, sent, incarnation),
             AwaitInv(d, h, n, incarnation)
      PROVE  QueueInv(d, g, n, sent, incarnation) /\ AwaitInv(d, g, n, incarnation)
  <2> HIDE DEF g, h
  <2>1. QED
    BY <1>4, <1>6 DEF QueueInv, AwaitInv
<1>7. CASE h.status # "AWAITING_RESPONSE"
  <2>1. net' = net
    BY <1>7
  <2>2. QueueInv(d, g, net, sent, incarnation) /\ AwaitInv(d, g, net, incarnation)
    BY <1>1, <1>6
  <2> HIDE DEF g
  <2>3. QED
    BY <1>5, <2>1, <2>2, Typed, RecordChanges
<1>8. CASE h.status = "AWAITING_RESPONSE"
  <2>1. PICK p \in net : /\ p.dest = d /\ p.inc = incarnation /\ p.seq = h.seq
                         /\ p.id = Head(h.q).id
    BY <1>1, <1>8 DEF AwaitInv
  <2>2. Head(h.q).seq = h.seq
    BY <1>1, <1>8 DEF AwaitInv
  <2>3. /\ o.dest = d /\ o.inc = incarnation /\ o.seq = h.seq /\ o.id = p.id
        /\ o.host = None /\ o.type = "REQUEST"
    BY <2>1, <2>2 DEF RequestPacket
  <2>4. o \in Packets
    <3>1. p \in Packets /\ h.seq \in Nat
      BY <1>2, Typed DEF HostRecords
    <3>2. o = [type |-> "REQUEST", host |-> None, dest |-> d, inc |-> p.inc,
               seq |-> p.seq, id |-> p.id]
      BY <2>1, <2>2 DEF RequestPacket
    <3>3. QED
      BY <3>1, <3>2 DEF Packets
  <2>5. net' = net \cup {o}
    BY <1>8
  <2>6. SameUid(o, p)
    BY <2>1, <2>3 DEF SameUid
  <2> HIDE DEF o
  <2>7. /\ NetInv(net \cup {o}, sent, incarnation)
        /\ \A e \in Dests :
             /\ QueueInv(e, host[e], net \cup {o}, sent, incarnation)
             /\ AwaitInv(e, host[e], net \cup {o}, incarnation)
    BY <2>3, <2>6, Echo
  <2>8. /\ QueueInv(d, g, net \cup {o}, sent, incarnation)
        /\ AwaitInv(d, g, net \cup {o}, incarnation)
    BY <1>6, <2>7
  <2> HIDE DEF g, h
  <2>9. \A e \in Dests : host'[e] = IF e = d THEN g ELSE host[e]
    BY <1>2, <1>5
  <2>10. host' \in [Dests -> HostRecords]
    BY <1>2, <1>4, <1>5
  <2>11. net' \subseteq Packets /\ net \subseteq net'
    BY <2>4, <2>5, Typed
  <2>12. \A e \in Dests : /\ QueueInv(e, host'[e], net', sent, incarnation)
                          /\ AwaitInv(e, host'[e], net', incarnation)
    BY <2>5, <2>7, <2>8, <2>9
  <2>13. QED
    BY <2>5, <2>7, <2>10, <2>11, <2>12 DEF ClientNext
<1>9. QED
  BY <1>7, <1>8

\* srr_retry sending again, or dropping an aborted request.
LEMMA RetryStep ==
    ASSUME IInv, srr_retry
    PROVE  IInv'
<1> DEFINE d == timer.dest
           h == host[d]
<1>1. /\ timer.pc = "retry" /\ timer' = Sleeping
      /\ UNCHANGED <<incarnation, listen, servers, sent, faults, told>>
      /\ RetrySends(d, h) \/ RetryGivesUp(d, h)
  BY DEF srr_retry
<1>2. d \in Dests
  BY <1>1 DEF IInv, ThreadInv
<1>3. ClientNext(sent)
  <2> HIDE DEF d
  <2>1. CASE UNCHANGED <<host, timer_queue, net>>
    BY <2>1, Typed, ClientSame
  <2>2. CASE /\ ~Tried(h) /\ h.q # <<>>
             /\ host' = [host EXCEPT ![d].tries = @ + 1]
             /\ net' = IF h.status = "AWAITING_RESPONSE"
                       THEN net \cup {RequestPacket(d, Head(h.q).seq, Head(h.q).id)}
                       ELSE net
             /\ timer_start(d, h.zero)
    <3>1. h.zero \in BOOLEAN
      BY <1>2, Typed DEF HostRecords
    <3>2. timer_queue' \in Seq(Dests)
      BY <1>2, <2>2, <3>1, Typed, InsertedTimer DEF timer_start
    <3>3. QED
      BY <1>2, <2>2, <3>2, Resent
  <2>3. CASE h.q # <<>> /\ NextRequest(d, Dequeued(h, "INACTIVE"))
    <3>1. "INACTIVE" \in Status
      BY DEF Status
    <3>2. /\ QueueInv(d, Dequeued(h, "INACTIVE"), net, sent, incarnation)
          /\ AwaitInv(d, Dequeued(h, "INACTIVE"), net, incarnation)
      BY <1>2, <2>3, <3>1, DequeuedInv
    <3>3. QED
      BY <1>2, <2>3, <3>2, Typed, NextProcessed
  <2>4. QED
    BY <1>1, <2>1, <2>2, <2>3 DEF RetrySends, RetryGivesUp
<1>4. ThreadInv'
  BY <1>1 DEF IInv, ThreadInv, AnswerMatches, Sleeping
<1>5. QED
  BY <1>1, <1>3, <1>4, Typed, ClientStep

\* srr_retry giving a request up, until it calls srq_cleanup.
LEMMA RetryFailsStep ==
    ASSUME IInv, srr_retry_fails
    PROVE  IInv'
<1> DEFINE d == timer.dest
           h == host[d]
<1>1. /\ timer.pc = "retry" /\ h.q # <<>>
      /\ host' = [host EXCEPT ![d] = Dequeued(h, "INACTIVE")]
      /\ timer' = [timer EXCEPT !.pc = "cleanup", !.id = Head(h.q).id]
      /\ UNCHANGED <<incarnation, timer_queue, listen, net, servers, sent,
                     faults, told>>
  BY DEF srr_retry_fails
<1>2. d \in Dests /\ "INACTIVE" \in Status
  BY <1>1 DEF IInv, ThreadInv, Status
<1>3. Head(h.q).id \in Requests /\ Head(h.q).id \in Nat
  BY <1>1, <1>2, Typed, HeadOfQueue, RequestNat DEF Queued
<1>4. /\ timer' \in TimerType /\ timer'.dest \in Dests /\ timer'.id \in Requests
  BY <1>1, <1>2, <1>3, Typed DEF TimerType
<1>5. ThreadInv'
  BY <1>1, <1>4 DEF IInv, ThreadInv, AnswerMatches
<1>6. ClientNext(sent)
  <2>1. /\ QueueInv(d, Dequeued(h, "INACTIVE"), net, sent, incarnation)
        /\ AwaitInv(d, Dequeued(h, "INACTIVE"), net, incarnation)
    BY <1>1, <1>2, DequeuedInv
  <2>2. timer_queue' \in Seq(Dests) /\ net' = net
    BY <1>1, Typed
  <2>3. QED
    BY <1>1, <1>2, <2>1, <2>2, Typed, RecordChanges
<1>7. QED
  BY <1>1, <1>4, <1>5, <1>6, Typed, ClientStep

\* The client is told of the request of one of its threads.
LEMMA ToldType1 ==
    ASSUME IInv, NEW r \in Requests, NEW w \in {"response", "failure"},
           told' = [told EXCEPT ![r] = @ \cup {w}]
    PROVE  told' \in ToldType
  BY Typed DEF ToldType

\* srr_retry after srq_cleanup.
LEMMA CleanupStep ==
    ASSUME IInv, srr_retry_cleanup
    PROVE  IInv'
<1> DEFINE d == timer.dest
<1>1. /\ timer.pc = "cleanup" /\ timer' = Sleeping
      /\ told' = [told EXCEPT ![timer.id] = @ \cup {"failure"}]
      /\ NextRequest(d, host[d])
      /\ UNCHANGED <<incarnation, listen, servers, sent, faults>>
  BY DEF srr_retry_cleanup
<1>2. d \in Dests /\ timer.id \in Requests
  BY <1>1 DEF IInv, ThreadInv
<1>3. ClientNext(sent)
  <2>1. /\ QueueInv(d, host[d], net, sent, incarnation)
        /\ AwaitInv(d, host[d], net, incarnation)
    BY <1>2 DEF IInv, ClientInv
  <2>2. QED
    BY <1>1, <1>2, <2>1, Typed, NextProcessed
<1>4. ThreadInv'
  BY <1>1 DEF IInv, ThreadInv, AnswerMatches, Sleeping
<1>5. told' \in ToldType
  BY <1>1, <1>2, ToldType1
<1>6. QED
  BY <1>1, <1>3, <1>4, <1>5, Typed, ClientStep

\* A client that starts again has sent nothing in its new incarnation.
LEMMA StartAgainStep ==
    ASSUME IInv, StartAgain, UNCHANGED <<net, servers, sent, told>>,
           faults' \in 0 .. MaxEvents
    PROVE  IInv'
<1>1. /\ host' = [d \in Dests |-> NewHost] /\ incarnation' = incarnation + 1
      /\ timer_queue' = <<>> /\ timer' = Sleeping /\ listen' = Listening
      /\ net' = net /\ sent' = sent /\ told' = told
      /\ response' = response /\ executed' = executed
  BY DEF StartAgain, servers
<1>2. incarnation \in Nat \ {0} /\ incarnation' \in Nat \ {0}
  BY <1>1 DEF IInv, TypeOK
<1>3. NewHost \in HostRecords /\ NewHost.q = <<>> /\ Len(NewHost.q) = 0
      /\ NewHost.status = "INACTIVE"
  BY RequestNat DEF NewHost, HostRecords, Status
<1>4. TypeOK'
  <2>1. host' \in [Dests -> HostRecords]
    BY <1>1, <1>3
  <2>2. timer_queue' \in Seq(Dests)
    BY <1>1
  <2>3. timer' \in TimerType /\ listen' \in ListenType
    BY <1>1, Typed
  <2>4. QED
    BY <1>1, <1>2, <2>1, <2>2, <2>3
       DEF IInv, TypeOK, HostRecords, TimerType, ListenType
<1>5. \A p \in net : p.inc \in Nat /\ p.inc <= incarnation
  BY Typed DEF IInv, NetInv, Packets
<1>6. NetInv(net', sent', incarnation')
  <2>1. \A p \in net : p.inc \in 1 .. (incarnation + 1) /\ p.id <= sent
    BY <1>2, <1>5 DEF IInv, NetInv
  <2>2. QED
    BY <1>1, <2>1 DEF IInv, NetInv
<1>7. ClientInv'
  <2>1. ASSUME NEW d \in Dests
        PROVE  /\ QueueInv(d, NewHost, net, sent, incarnation + 1)
               /\ AwaitInv(d, NewHost, net, incarnation + 1)
    <3>1. \A p \in net : p.inc # incarnation + 1
      BY <1>2, <1>5
    <3>2. 1 .. Len(NewHost.q) = {}
      BY <1>3
    <3>3. QueueInv(d, NewHost, net, sent, incarnation + 1)
      BY <1>3, <3>1, <3>2 DEF QueueInv
    <3>4. QED
      BY <1>3, <3>3 DEF AwaitInv
  <2>2. QED
    BY <1>1, <2>1 DEF ClientInv
<1>8. ServersInv'
  BY <1>1 DEF IInv, ServersInv
<1>9. ThreadInv'
  BY <1>1 DEF ThreadInv, AnswerMatches, Sleeping, Listening
<1>10. QED
  BY <1>4, <1>6, <1>7, <1>8, <1>9 DEF IInv

\* srr_retry at an empty queue.
LEMMA RetryNullStep ==
    ASSUME IInv, srr_retry_null
    PROVE  IInv'
<1>1. StartAgain /\ UNCHANGED <<net, servers, sent, faults, told>>
  BY DEF srr_retry_null
<1>2. faults' \in 0 .. MaxEvents
  BY <1>1 DEF IInv, TypeOK
<1>3. QED
  BY <1>1, <1>2, StartAgainStep

\* The client starting again.
LEMMA ClientRestartStep ==
    ASSUME IInv, ClientRestart
    PROVE  IInv'
<1>1. StartAgain /\ UNCHANGED <<net, servers, sent, told>>
  BY DEF ClientRestart
<1>2. faults' \in 0 .. MaxEvents
  BY FaultCounted DEF ClientRestart
<1>3. QED
  BY <1>1, <1>2, StartAgainStep

\* The packet about the uid that is awaited is about the request awaited.
LEMMA ResponseStep ==
    ASSUME IInv, NEW p \in net, srr_handle_response(p)
    PROVE  IInv'
<1> DEFINE d == p.dest
           h == host[d]
<1>1. /\ h.status = "AWAITING_RESPONSE"
      /\ p.inc = incarnation /\ p.seq = h.seq
      /\ listen' = [pc |-> "indata", dest |-> d, id |-> Head(h.q).id,
                    answer |-> p.id]
      /\ UNCHANGED <<host, incarnation, timer_queue, timer, net, servers, sent,
                     faults, told>>
  BY DEF srr_handle_response, Current
<1>2. p \in Packets /\ d \in Dests /\ p.id \in Nat /\ p.id \in Requests
  BY Typed, RequestNat DEF Packets
<1>3. AwaitInv(d, h, net, incarnation)
  BY <1>2 DEF IInv, ClientInv
<1>4. PICK o \in net : /\ o.dest = d /\ o.inc = incarnation /\ o.seq = h.seq
                       /\ o.id = Head(h.q).id
  BY <1>1, <1>3 DEF AwaitInv
<1>5. p.id = Head(h.q).id
  BY <1>1, <1>4 DEF IInv, NetInv, SameUid
<1>6. /\ listen' \in ListenType /\ listen'.dest \in Dests
      /\ listen'.id \in Requests /\ listen'.answer = listen'.id
  BY <1>1, <1>2, <1>5 DEF ListenType
<1>7. ThreadInv'
  BY <1>1, <1>6 DEF IInv, ThreadInv, AnswerMatches
<1>8. ClientNext(sent)
  BY <1>1, Typed, ClientSame
<1>9. QED
  BY <1>1, <1>6, <1>7, <1>8, Typed, ClientStep

\* srr_handle_response after disp_indata_simple succeeded.
LEMMA ResponseDoneStep ==
    ASSUME IInv, srr_handle_response_done
    PROVE  IInv'
<1> DEFINE d == listen.dest
           h == host[d]
<1>1. /\ listen.pc = "indata" /\ listen' = Listening
      /\ told' = [told EXCEPT ![listen.id] = @ \cup {"response"}]
      /\ \/ UNCHANGED <<host, net, timer_queue>>
         \/ h.q # <<>> /\ NextRequest(d, Dequeued(h, "HAVE_RESPONSE"))
      /\ UNCHANGED <<incarnation, timer, servers, sent, faults>>
  BY DEF srr_handle_response_done
<1>2. d \in Dests /\ listen.id \in Requests /\ "HAVE_RESPONSE" \in Status
  BY <1>1 DEF IInv, ThreadInv, Status
<1>3. ClientNext(sent)
  <2>1. CASE UNCHANGED <<host, net, timer_queue>>
    BY <2>1, Typed, ClientSame
  <2>2. CASE h.q # <<>> /\ NextRequest(d, Dequeued(h, "HAVE_RESPONSE"))
    <3>1. /\ QueueInv(d, Dequeued(h, "HAVE_RESPONSE"), net, sent, incarnation)
          /\ AwaitInv(d, Dequeued(h, "HAVE_RESPONSE"), net, incarnation)
      BY <1>2, <2>2, DequeuedInv
    <3>2. QED
      BY <1>2, <2>2, <3>1, Typed, NextProcessed
  <2>3. QED
    BY <1>1, <2>1, <2>2
<1>4. ThreadInv'
  BY <1>1 DEF IInv, ThreadInv, AnswerMatches, Listening
<1>5. told' \in ToldType
  BY <1>1, <1>2, ToldType1
<1>6. QED
  BY <1>1, <1>3, <1>4, <1>5, Typed, ClientStep

\* srr_handle_response after it failed.
LEMMA RefusedStep ==
    ASSUME IInv, srr_handle_response_refused
    PROVE  IInv'
<1>1. /\ listen' = Listening
      /\ UNCHANGED <<host, incarnation, timer_queue, timer, net, servers, sent,
                     faults, told>>
  BY DEF srr_handle_response_refused
<1>2. ThreadInv'
  BY <1>1 DEF IInv, ThreadInv, AnswerMatches, Listening
<1>3. ClientNext(sent)
  BY <1>1, Typed, ClientSame
<1>4. QED
  BY <1>1, <1>2, <1>3, Typed, ClientStep

\* srr_handle_crypt_failure.
LEMMA CryptFailureStep ==
    ASSUME IInv, NEW p \in net, srr_handle_crypt_failure(p)
    PROVE  IInv'
<1> DEFINE d == p.host
           h == host[d]
           q == [h.q EXCEPT ![1].packet = FALSE]
           g == [h EXCEPT !.status = "REMOTE_CRYPT_FAILURE", !.q = q]
<1>1. /\ d \in Dests /\ h.status = "AWAITING_RESPONSE"
      /\ host' = [host EXCEPT ![d].status = "REMOTE_CRYPT_FAILURE",
                              ![d].q[1].packet = FALSE]
      /\ UNCHANGED <<incarnation, timer_queue, timer, listen, net, servers, sent,
                     faults, told>>
  BY DEF srr_handle_crypt_failure, Current
<1>2. /\ QueueInv(d, h, net, sent, incarnation) /\ h \in HostRecords
      /\ h.q # <<>> /\ host \in [Dests -> HostRecords]
  BY <1>1, Typed DEF IInv, ClientInv, AwaitInv
<1>3. /\ q \in Seq(Queued) /\ Len(q) = Len(h.q)
      /\ \A i \in 1 .. Len(h.q) : q[i].id = h.q[i].id
  BY <1>2, AbortedQueue
<1>4. host' = [host EXCEPT ![d] = g]
  BY <1>1, <1>2 DEF HostRecords
<1>5. "REMOTE_CRYPT_FAILURE" \in Status /\ h.seq \in Nat /\ h.seq <= h.seq
  BY <1>2 DEF Status, HostRecords
<1>6. /\ g \in HostRecords /\ g.q = q /\ g.seq = h.seq
      /\ g.status = "REMOTE_CRYPT_FAILURE"
  <2> HIDE DEF q, h
  <2>1. QED
    BY <1>2, <1>3, <1>5 DEF HostRecords
<1>7. \A e \in net : e.seq \in Nat
  BY Typed DEF Packets
<1>8. QueueInv(d, g, net, sent, incarnation) /\ AwaitInv(d, g, net, incarnation)
  <2> HIDE DEF g, h, q
  <2>1. QED
    BY <1>2, <1>3, <1>5, <1>6, <1>7, SameQueue
<1>9. ClientNext(sent)
  <2> HIDE DEF g
  <2>1. timer_queue' \in Seq(Dests) /\ net' = net
    BY <1>1, Typed
  <2>2. QED
    BY <1>1, <1>4, <1>8, <2>1, Typed, RecordChanges
<1>10. ThreadInv'
  BY <1>1 DEF IInv, ThreadInv, AnswerMatches
<1>11. QED
  BY <1>1, <1>9, <1>10, Typed, ClientStep
-----------------------------------------------------------------------------
(* The steps of the servers.                                               *)

\* What the servers keep and have logged changes, and no packet is sent.
LEMMA QuietStep ==
    ASSUME IInv, UNCHANGED <<client, net>>, faults' \in 0 .. MaxEvents,
           response' \in [Hosts -> [Dests -> UidType]],
           executed' \in [Hosts -> [Dests -> Seq(Log)]],
           ServersInv'
    PROVE  IInv'
<1>1. /\ host' = host /\ incarnation' = incarnation /\ timer' = timer
      /\ timer_queue' = timer_queue /\ listen' = listen /\ sent' = sent
      /\ told' = told /\ net' = net
  BY DEF client
<1>2. TypeOK'
  BY <1>1 DEF IInv, TypeOK, UidType
<1>3. ThreadInv'
  BY <1>1 DEF IInv, ThreadInv, AnswerMatches
<1>4. QED
  BY <1>1, <1>2, <1>3 DEF IInv, ClientInv

\* A server sends packet o about the uid and the request of packet p.
LEMMA ServerStep ==
    ASSUME IInv, NEW p \in net, NEW o \in Packets, SameUid(o, p), o.id = p.id,
           net' = net \cup {o}, UNCHANGED <<client, faults>>,
           response' \in [Hosts -> [Dests -> UidType]],
           executed' \in [Hosts -> [Dests -> Seq(Log)]],
           ServersInv'
    PROVE  IInv'
<1>1. /\ host' = host /\ incarnation' = incarnation /\ timer' = timer
      /\ timer_queue' = timer_queue /\ listen' = listen /\ sent' = sent
      /\ told' = told /\ faults' = faults
  BY DEF client
<1>2. TypeOK'
  BY <1>1, Typed DEF IInv, TypeOK, UidType
<1>3. /\ NetInv(net', sent, incarnation)
      /\ \A d \in Dests : /\ QueueInv(d, host[d], net', sent, incarnation)
                          /\ AwaitInv(d, host[d], net', incarnation)
  BY Echo
<1>4. ThreadInv'
  BY <1>1 DEF IInv, ThreadInv, AnswerMatches
<1>5. QED
  BY <1>1, <1>2, <1>3, <1>4 DEF IInv, ClientInv

\* An entry at the end of a log: what is remembered afterwards, and when the
\* log is in order still.
LEMMA Logged ==
    ASSUME NEW x \in Seq(Log), NEW e \in Log
    PROVE  LET y == Append(x, e)
               n == Len(x)
           IN /\ y \in Seq(Log) /\ n \in Nat /\ Len(y) = n + 1 /\ y[n + 1] = e
              /\ \A i \in 1 .. n : y[i] = x[i]
              /\ \A i \in 1 .. n : Remembered(y, i) => Remembered(x, i)
              /\ Ordered(x) /\ (\A i \in 1 .. n : Remembered(x, i) =>
                                  Earlier(x[i], e) /\ x[i].id <= e.id)
                   => Ordered(y)
              /\ e = Restarted => /\ \A i \in 1 .. n + 1 : ~Remembered(y, i)
                                  /\ Ordered(x) => Ordered(y)
<1> DEFINE y == Append(x, e)
           n == Len(x)
<1>1. /\ y \in Seq(Log) /\ n \in Nat /\ Len(y) = n + 1 /\ y[n + 1] = e
      /\ \A i \in 1 .. n : y[i] = x[i]
  BY AppendProperties
<1> HIDE DEF y, n
<1>2. ASSUME NEW i \in 1 .. n, NEW j \in 1 .. n
      PROVE  OneLife(y, i, j) <=> OneLife(x, i, j)
  <2>1. \A k \in i .. j : y[k] = x[k]
    BY <1>1, <1>2
  <2>2. QED
    BY <2>1 DEF OneLife
<1>3. ASSUME NEW i \in 1 .. n + 1, OneLife(y, i, n + 1)
      PROVE  e # Restarted /\ (i \in 1 .. n => OneLife(x, i, n))
  <2>1. n + 1 \in i .. (n + 1) /\ \A k \in i .. n : k \in i .. (n + 1)
    BY <1>1, <1>3
  <2>2. e # Restarted
    BY <1>1, <1>3, <2>1 DEF OneLife
  <2>3. ASSUME i \in 1 .. n PROVE OneLife(x, i, n)
    <3>1. \A k \in i .. n : y[k] = x[k]
      BY <1>1, <2>3
    <3>2. QED
      BY <1>3, <2>1, <3>1 DEF OneLife
  <2>4. QED
    BY <2>2, <2>3
<1>4. \A i \in 1 .. n : Remembered(y, i) => Remembered(x, i)
  <2>1. \A i \in 1 .. n : i \in 1 .. n + 1
    BY <1>1
  <2>2. QED
    BY <1>1, <1>3, <2>1 DEF Remembered, n
<1>5. ASSUME Ordered(x), NEW i \in 1 .. n + 1, NEW j \in 1 .. n + 1, i < j,
             y[i].kept, OneLife(y, i, j), j # n + 1
      PROVE  Earlier(y[i], y[j]) /\ y[i].id <= y[j].id
  <2>1. i \in 1 .. n /\ j \in 1 .. n
    BY <1>1, <1>5
  <2>2. y[i] = x[i] /\ y[j] = x[j] /\ OneLife(x, i, j)
    BY <1>1, <1>2, <1>5, <2>1
  <2>3. QED
    BY <1>5, <2>1, <2>2 DEF Ordered, n
<1>6. ASSUME Ordered(x), \A i \in 1 .. n : Remembered(x, i) =>
                           Earlier(x[i], e) /\ x[i].id <= e.id
      PROVE  Ordered(y)
  <2>1. ASSUME NEW i \in 1 .. n + 1, NEW j \in 1 .. n + 1, i < j, y[i].kept,
               OneLife(y, i, j), j = n + 1
        PROVE  Earlier(y[i], y[j]) /\ y[i].id <= y[j].id
    <3>1. i \in 1 .. n
      BY <1>1, <2>1
    <3>2. Remembered(x, i)
      BY <1>1, <1>3, <2>1, <3>1 DEF Remembered, n
    <3>3. QED
      BY <1>1, <1>6, <2>1, <3>1, <3>2
  <2>2. QED
    BY <1>1, <1>5, <1>6, <2>1 DEF Ordered
<1>7. ASSUME e = Restarted
      PROVE  /\ \A i \in 1 .. n + 1 : ~Remembered(y, i)
             /\ Ordered(x) => Ordered(y)
  <2>1. \A i \in 1 .. n + 1 : ~OneLife(y, i, n + 1)
    BY <1>3, <1>7
  <2>2. Ordered(x) => Ordered(y)
    BY <1>1, <1>5, <2>1 DEF Ordered
  <2>3. QED
    BY <1>1, <2>1, <2>2 DEF Remembered
<1>8. QED
  BY <1>1, <1>4, <1>6, <1>7 DEF y, n

\* A request that is newer than the uid a server keeps is later than all that
\* the server remembers.
LEMMA NewerIsLater ==
    ASSUME IInv, NEW h \in Hosts, NEW p \in net, Newer(p, response[h][p.dest]),
           NEW i \in 1 .. Len(executed[h][p.dest]),
           Remembered(executed[h][p.dest], i)
    PROVE  LET e == executed[h][p.dest][i]
           IN Earlier(e, p) /\ e.id <= p.id
<1> DEFINE d == p.dest
           r == response[h][d]
           x == executed[h][d]
<1>1. p \in Packets /\ d \in Dests /\ p.id \in Nat /\ p.inc \in Nat /\ p.seq \in Nat
  BY Typed, RequestNat DEF Packets
<1>2. /\ r \in UidType /\ x \in Seq(Log) /\ ServerInv(d, r, x, net)
  BY <1>1 DEF IInv, TypeOK, ServersInv, UidType
<1>3. x[i] \in Log /\ Bounds(r, x[i])
  <2> HIDE DEF x, r
  <2>1. x[i] \in Log
    BY <1>2 DEF x, d
  <2>2. QED
    BY <1>2, <2>1 DEF ServerInv, x, d
<1>4. PICK o \in net : /\ o.dest = d /\ o.inc = r.inc /\ o.seq = r.seq
                       /\ o.id = r.id
  BY <1>2, <1>3 DEF ServerInv, Bounds
<1>5. Older(o, p) /\ Earlier(r, p)
  BY <1>3, <1>4 DEF Newer, Older, Bounds, Earlier
<1>6. o.id <= p.id
  BY <1>4, <1>5 DEF IInv, NetInv
<1>7. x[i].id \in Nat /\ x[i].inc \in Nat /\ x[i].seq \in Nat
  BY <1>3, SrrAssumption DEF Log
<1>8. r.id \in Nat /\ r.inc \in Nat /\ r.seq \in Nat /\ r.id <= p.id
  BY <1>2, <1>4, <1>6 DEF UidType
<1> HIDE DEF x, r, d
<1>9. Earlier(x[i], p) /\ x[i].id <= p.id
  BY <1>1, <1>3, <1>5, <1>7, <1>8 DEF Bounds, Earlier
<1>10. QED
  BY <1>9 DEF x, d

\* A server executes a newer request.
LEMMA Executes ==
    ASSUME IInv, NEW h \in Hosts, NEW p \in net, Newer(p, response[h][p.dest]),
           NEW kept \in BOOLEAN
    PROVE  LET uid == [inc |-> p.inc, seq |-> p.seq, id |-> p.id]
               x == Append(executed[h][p.dest], Execution(uid, kept))
               r == IF kept THEN uid ELSE response[h][p.dest]
           IN /\ x \in Seq(Log) /\ r \in UidType
              /\ ServerInv(p.dest, r, x, net)
<1> DEFINE d == p.dest
           uid == [inc |-> p.inc, seq |-> p.seq, id |-> p.id]
           e == Execution(uid, kept)
           x == executed[h][d]
           y == Append(x, e)
           s == response[h][d]
           r == IF kept THEN uid ELSE s
           n == Len(x)
<1>1. /\ p \in Packets /\ d \in Dests /\ p.id \in Requests /\ p.id \in Nat
      /\ p.inc \in Nat /\ p.seq \in Nat /\ p.inc # 0
  BY Typed, RequestNat DEF Packets, IInv, NetInv
<1>2. /\ s \in UidType /\ x \in Seq(Log) /\ ServerInv(d, s, x, net)
  BY <1>1 DEF IInv, TypeOK, ServersInv, UidType
<1>3. /\ e \in Log /\ e.inc = p.inc /\ e.seq = p.seq /\ e.id = p.id
      /\ e.kept = kept
  BY <1>1, SrrAssumption DEF Execution, Log, Requests
<1>4. \A i \in 1 .. n : Remembered(x, i) => Earlier(x[i], p) /\ x[i].id <= p.id
  BY NewerIsLater
<1>5. uid \in UidType /\ r \in UidType
  BY <1>1, <1>2 DEF UidType
<1>6. uid.inc = p.inc /\ uid.seq = p.seq /\ uid.id = p.id
  OBVIOUS
<1> HIDE DEF x, e, s, uid, d
<1>7. /\ y \in Seq(Log) /\ n \in Nat /\ Len(y) = n + 1 /\ y[n + 1] = e
      /\ \A i \in 1 .. n : y[i] = x[i]
      /\ \A i \in 1 .. n : Remembered(y, i) => Remembered(x, i)
      /\ Ordered(x) /\ (\A i \in 1 .. n : Remembered(x, i) =>
                          Earlier(x[i], e) /\ x[i].id <= e.id)
           => Ordered(y)
  BY <1>2, <1>3, Logged
<1> HIDE DEF y, n
<1>8. Ordered(y)
  BY <1>2, <1>3, <1>4, <1>7 DEF ServerInv, Earlier
<1>9. r.inc # 0 => \E o \in net : /\ o.dest = d /\ o.inc = r.inc
                                  /\ o.seq = r.seq /\ o.id = r.id
  <2>1. CASE kept
    BY <1>6, <2>1 DEF d
  <2>2. CASE ~kept
    BY <1>2, <2>2 DEF ServerInv
  <2>3. QED
    BY <2>1, <2>2
<1>10. ASSUME NEW i \in 1 .. Len(y), Remembered(y, i)
       PROVE  Bounds(r, y[i])
  <2>1. i \in 1 .. n \/ i = n + 1
    BY <1>7, <1>10
  <2>2. CASE i = n + 1
    <3>1. kept
      BY <1>3, <1>7, <1>10, <2>2 DEF Remembered
    <3>2. QED
      BY <1>1, <1>3, <1>6, <1>7, <2>2, <3>1 DEF Bounds
  <2>3. CASE i \in 1 .. n
    <3>1. y[i] = x[i] /\ Remembered(x, i)
      BY <1>7, <1>10, <2>3
    <3>2. CASE kept
      BY <1>1, <1>4, <1>6, <2>3, <3>1, <3>2 DEF Bounds, Earlier
    <3>3. CASE ~kept
      BY <1>2, <2>3, <3>1, <3>3 DEF ServerInv, n
    <3>4. QED
      BY <3>2, <3>3
  <2>4. QED
    BY <2>1, <2>2, <2>3
<1>11. y \in Seq(Log) /\ r \in UidType /\ ServerInv(d, r, y, net)
  BY <1>5, <1>7, <1>8, <1>9, <1>10 DEF ServerInv
<1>12. QED
  BY <1>11 DEF y, x, e, s, uid, d

\* One server's record and log for one destination change.
LEMMA OneServer ==
    ASSUME IInv, NEW h \in Hosts, NEW d \in Dests, NEW r \in UidType,
           NEW x \in Seq(Log), ServerInv(d, r, x, net), net \subseteq net',
           response' = [response EXCEPT ![h][d] = r],
           executed' = [executed EXCEPT ![h][d] = x]
    PROVE  /\ response' \in [Hosts -> [Dests -> UidType]]
           /\ executed' \in [Hosts -> [Dests -> Seq(Log)]]
           /\ ServersInv'
<1>1. /\ response \in [Hosts -> [Dests -> UidType]]
      /\ executed \in [Hosts -> [Dests -> Seq(Log)]]
  BY DEF IInv, TypeOK, UidType
<1>2. response' = [response EXCEPT ![h] = [response[h] EXCEPT ![d] = r]]
  OBVIOUS
<1>3. executed' = [executed EXCEPT ![h] = [executed[h] EXCEPT ![d] = x]]
  OBVIOUS
<1>4. /\ response' \in [Hosts -> [Dests -> UidType]]
      /\ executed' \in [Hosts -> [Dests -> Seq(Log)]]
  BY <1>1, <1>2, <1>3
<1>5. ASSUME NEW k \in Hosts, NEW e \in Dests
      PROVE  ServerInv(e, response'[k][e], executed'[k][e], net')
  <2>1. CASE k = h /\ e = d
    <3>1. response'[k][e] = r /\ executed'[k][e] = x
      BY <1>1, <1>2, <1>3, <2>1
    <3>2. QED
      BY <2>1, <3>1 DEF ServerInv
  <2>2. CASE ~(k = h /\ e = d)
    <3>1. response'[k][e] = response[k][e] /\ executed'[k][e] = executed[k][e]
      BY <1>1, <1>2, <1>3, <2>2
    <3>2. ServerInv(e, response[k][e], executed[k][e], net)
      BY <1>5 DEF IInv, ServersInv
    <3>3. QED
      BY <3>1, <3>2 DEF ServerInv
  <2>3. QED
    BY <2>1, <2>2
<1>6. QED
  BY <1>4, <1>5 DEF ServersInv

\* srr_handle_request, for a new request that is answered, for one whose
\* answer cannot be encrypted, and for a duplicate.
LEMMA RequestStep ==
    ASSUME IInv, NEW h \in Hosts, NEW p \in net, srr_handle_request(h, p)
    PROVE  IInv'
<1> DEFINE d == p.dest
           stored == response[h][d]
           uid == [inc |-> p.inc, seq |-> p.seq, id |-> p.id]
           log(kept) == Append(executed[h][d], Execution(uid, kept))
<1>1. /\ p \in Packets /\ d \in Dests /\ p.id \in Requests /\ p.id \in Nat
      /\ p.inc \in Nat /\ p.seq \in Nat
  BY Typed, RequestNat DEF Packets
<1>2. UNCHANGED client
  BY DEF srr_handle_request
<1>3. /\ response \in [Hosts -> [Dests -> UidType]]
      /\ executed \in [Hosts -> [Dests -> Seq(Log)]]
  BY DEF IInv, TypeOK, UidType
<1>4. CASE /\ Newer(p, stored)
           /\ response' = [response EXCEPT ![h][d] = uid]
           /\ executed' = [executed EXCEPT ![h][d] = log(TRUE)]
           /\ net' = net \cup {ResponsePacket(h, d, uid)}
           /\ UNCHANGED faults
  <2> DEFINE o == ResponsePacket(h, d, uid)
  <2>1. o \in Packets /\ SameUid(o, p) /\ o.id = p.id
    BY <1>1 DEF ResponsePacket, Packets, SameUid
  <2>2. /\ log(TRUE) \in Seq(Log) /\ uid \in UidType
        /\ ServerInv(d, uid, log(TRUE), net)
    BY <1>4, Executes
  <2>3. net' = net \cup {o} /\ net \subseteq net'
    BY <1>4
  <2> HIDE DEF o, log, uid
  <2>4. /\ response' \in [Hosts -> [Dests -> UidType]]
        /\ executed' \in [Hosts -> [Dests -> Seq(Log)]] /\ ServersInv'
    BY <1>1, <1>4, <2>2, <2>3, OneServer
  <2>5. QED
    BY <1>2, <1>4, <2>1, <2>3, <2>4, ServerStep
<1>5. CASE /\ Newer(p, stored) /\ Fault
           /\ executed' = [executed EXCEPT ![h][d] = log(FALSE)]
           /\ UNCHANGED <<response, net>>
  <2>1. /\ log(FALSE) \in Seq(Log) /\ stored \in UidType
        /\ ServerInv(d, stored, log(FALSE), net)
    BY <1>5, Executes
  <2>2. response' = [response EXCEPT ![h][d] = stored] /\ net \subseteq net'
    BY <1>1, <1>3, <1>5
  <2>3. executed' = [executed EXCEPT ![h][d] = log(FALSE)]
    BY <1>5
  <2> HIDE DEF log, stored
  <2>4. /\ response' \in [Hosts -> [Dests -> UidType]]
        /\ executed' \in [Hosts -> [Dests -> Seq(Log)]] /\ ServersInv'
    BY <1>1, <2>1, <2>2, <2>3, OneServer
  <2>5. QED
    BY <1>2, <1>5, <2>4, FaultCounted, QuietStep
<1>6. CASE /\ ~Newer(p, stored) /\ stored.inc = p.inc /\ stored.seq = p.seq
           /\ net' = net \cup {ResponsePacket(h, d, stored)}
           /\ UNCHANGED <<response, executed, faults>>
  <2> DEFINE o == ResponsePacket(h, d, stored)
  <2>1. stored.inc # 0 /\ ServerInv(d, stored, executed[h][d], net)
    BY <1>1, <1>6 DEF Newer, IInv, ServersInv
  <2>2. PICK e \in net : /\ e.dest = d /\ e.inc = stored.inc
                         /\ e.seq = stored.seq /\ e.id = stored.id
    BY <2>1 DEF ServerInv
  <2>3. e \in Packets
    BY <2>2, Typed
  <2>4. o = [type |-> "RESPONSE", host |-> h, dest |-> e.dest, inc |-> e.inc,
             seq |-> e.seq, id |-> e.id]
    BY <2>2 DEF ResponsePacket
  <2>5. o \in Packets /\ SameUid(o, e) /\ o.id = e.id
    BY <2>3, <2>4 DEF Packets, SameUid
  <2>6. net' = net \cup {o} /\ UNCHANGED servers
    BY <1>6 DEF servers
  <2> HIDE DEF o
  <2>7. ServersInv'
    BY <2>6, ServersKept DEF IInv
  <2>8. /\ response' \in [Hosts -> [Dests -> UidType]]
        /\ executed' \in [Hosts -> [Dests -> Seq(Log)]]
    BY <1>3, <1>6
  <2>9. QED
    BY <1>2, <1>6, <2>2, <2>5, <2>6, <2>7, <2>8, ServerStep
<1>7. QED
  BY <1>4, <1>5, <1>6 DEF srr_handle_request

\* srr_send_crypt_failure.
LEMMA SendCryptFailureStep ==
    ASSUME IInv, NEW h \in Hosts, NEW p \in net, srr_send_crypt_failure(h, p)
    PROVE  IInv'
<1> DEFINE o == [p EXCEPT !.type = "CRYPT_FAILURE", !.host = h]
<1>1. p \in Packets
  BY Typed
<1>2. o \in Packets /\ SameUid(o, p) /\ o.id = p.id
  BY <1>1 DEF Packets, SameUid
<1>3. /\ net' = net \cup {o} /\ UNCHANGED <<client, faults>>
      /\ UNCHANGED servers
  BY DEF srr_send_crypt_failure
<1> HIDE DEF o
<1>4. ServersInv'
  BY <1>3, ServersKept DEF IInv
<1>5. /\ response' \in [Hosts -> [Dests -> UidType]]
      /\ executed' \in [Hosts -> [Dests -> Seq(Log)]]
  BY <1>3 DEF IInv, TypeOK, servers, UidType
<1>6. QED
  BY <1>2, <1>3, <1>4, <1>5, ServerStep

\* A server that starts again remembers nothing.
LEMMA ServerRestartStep ==
    ASSUME IInv, NEW h \in Hosts, ServerRestart(h)
    PROVE  IInv'
<1>1. /\ response' = [response EXCEPT ![h] = [d \in Dests |-> Unanswered]]
      /\ executed' = [executed EXCEPT ![h] =
                        [d \in Dests |-> Append(executed[h][d], Restarted)]]
      /\ Fault /\ UNCHANGED <<client, net>> /\ net' = net
  BY DEF ServerRestart
<1>2. /\ response \in [Hosts -> [Dests -> UidType]]
      /\ executed \in [Hosts -> [Dests -> Seq(Log)]]
  BY DEF IInv, TypeOK, UidType
<1>3. Unanswered \in UidType /\ Unanswered.inc = 0 /\ Restarted \in Log
  BY SrrAssumption DEF Unanswered, UidType, Restarted, Execution, Log
<1>4. ASSUME NEW d \in Dests
      PROVE  LET x == Append(executed[h][d], Restarted)
             IN x \in Seq(Log) /\ ServerInv(d, Unanswered, x, net)
  <2> DEFINE x == executed[h][d]
             y == Append(x, Restarted)
  <2>1. x \in Seq(Log) /\ Ordered(x)
    BY <1>2, <1>4 DEF IInv, ServersInv, ServerInv
  <2> HIDE DEF x
  <2>2. /\ y \in Seq(Log) /\ Len(y) = Len(x) + 1
        /\ \A i \in 1 .. Len(x) + 1 : ~Remembered(y, i)
        /\ Ordered(y)
    BY <1>3, <2>1, Logged
  <2> HIDE DEF y
  <2>3. y \in Seq(Log) /\ ServerInv(d, Unanswered, y, net)
    BY <1>3, <2>2 DEF ServerInv
  <2>4. QED
    BY <2>3 DEF y, x
<1>5. /\ response' \in [Hosts -> [Dests -> UidType]]
      /\ executed' \in [Hosts -> [Dests -> Seq(Log)]]
  BY <1>1, <1>2, <1>3, <1>4
<1>6. ServersInv'
  <2>1. ASSUME NEW k \in Hosts, NEW d \in Dests
        PROVE  ServerInv(d, response'[k][d], executed'[k][d], net')
    <3>1. CASE k = h
      <4>1. /\ response'[k][d] = Unanswered
            /\ executed'[k][d] = Append(executed[h][d], Restarted)
        BY <1>1, <1>2, <2>1, <3>1
      <4>2. QED
        BY <1>1, <1>4, <4>1
    <3>2. CASE k # h
      <4>1. response'[k] = response[k] /\ executed'[k] = executed[k]
        BY <1>1, <1>2, <2>1, <3>2
      <4>2. QED
        BY <1>1, <2>1, <4>1 DEF IInv, ServersInv
    <3>3. QED
      BY <3>1, <3>2
  <2>2. QED
    BY <2>1 DEF ServersInv
<1>7. QED
  BY <1>1, <1>5, <1>6, FaultCounted, QuietStep
-----------------------------------------------------------------------------
(* The timers of destinations with requests.                               *)

\* Only the head of a queue may be aborted, the queue of a destination that
\* has answered is empty, and that of an inactive one has a head to send.
PacketsInv(h) ==
    /\ \A i \in 1 .. Len(h.q) : i # 1 => h.q[i].packet
    /\ h.status = "HAVE_RESPONSE" => h.q = <<>>
    /\ h.status = "INACTIVE" /\ h.q # <<>> => h.q[1].packet

Active(h) == h.status \notin {"INACTIVE", "HAVE_RESPONSE"}

\* No timer is queued twice.  While srr_retry calls srq_cleanup, a destination
\* that has become active again has its timer queued.
TimerInv ==
    /\ Distinct(timer_queue)
    /\ \A d \in Dests :
         /\ PacketsInv(host[d])
         /\ timer.pc = "cleanup" /\ timer.dest = d /\ Active(host[d]) =>
              OnQueue(timer_queue, d)

\* What a step may do to the timers.
Strands(d) == Stranded(d)' => Stranded(d) \/ \E e \in Dests \ {d} : Relinks(e)
TimersNext == TimerInv' /\ \A d \in Dests : Strands(d)

\* The records and queued timers of destinations other than d are kept.
OthersKept(d) ==
    /\ Distinct(timer_queue')
    /\ \A e \in Dests \ {d} :
         /\ host'[e] = host[e]
         /\ OnQueue(timer_queue, e) => OnQueue(timer_queue', e)

\* A step after which d is timed or idle and the others are as they were.
LEMMA OneDestination ==
    ASSUME IInv, TimerInv, NEW d \in Dests, OthersKept(d), PacketsInv(host'[d]),
           host'[d].q # <<>> \/ (Active(host'[d]) /\ timer'.pc = "cleanup") =>
               OnQueue(timer_queue', d),
           timer' = timer \/ (timer.dest = d /\ timer'.pc = "idle")
    PROVE  TimersNext
<1>1. ASSUME NEW e \in Dests
      PROVE  /\ PacketsInv(host'[e])
             /\ timer'.pc = "cleanup" /\ timer'.dest = e /\ Active(host'[e]) =>
                  OnQueue(timer_queue', e)
  <2>1. CASE e = d
    BY <2>1
  <2>2. CASE e # d
    <3>1. /\ host'[e] = host[e] /\ PacketsInv(host[e])
          /\ timer.pc = "cleanup" /\ timer.dest = e /\ Active(host[e]) =>
               OnQueue(timer_queue, e)
          /\ OnQueue(timer_queue, e) => OnQueue(timer_queue', e)
      BY <1>1, <2>2 DEF TimerInv, OthersKept
    <3>2. QED
      BY <3>1
  <2>3. QED
    BY <2>1, <2>2
<1>2. TimerInv'
  BY <1>1 DEF TimerInv, OthersKept
<1>3. ASSUME NEW e \in Dests
      PROVE  Strands(e)
  <2>1. CASE e = d
    BY <2>1 DEF Strands, Stranded, Timed
  <2>2. CASE e # d
    <3>1. /\ host'[e] = host[e]
          /\ OnQueue(timer_queue, e) => OnQueue(timer_queue', e)
      BY <1>3, <2>2 DEF OthersKept
    <3>2. timer.pc \in {"retry", "cleanup"} /\ timer.dest = e => timer' = timer
      BY <2>2
    <3>3. QED
      BY <3>1, <3>2 DEF Strands, Stranded, Timed
  <2>3. QED
    BY <2>1, <2>2
<1>4. QED
  BY <1>2, <1>3 DEF TimersNext

\* srr_process_queued_request of a request that is not aborted.
LEMMA ProcessTimes ==
    ASSUME IInv, TimerInv, NEW d \in Dests, NEW h \in HostRecords, h.q # <<>>,
           \A i \in 1 .. Len(h.q) : h.q[i].packet,
           srr_process_queued_request(d, h)
    PROVE  /\ OthersKept(d) /\ PacketsInv(host'[d])
           /\ OnQueue(timer_queue', d)
<1>1. /\ timer_queue \in Seq(Dests) /\ host \in [Dests -> HostRecords]
      /\ Distinct(timer_queue) /\ h.zero \in BOOLEAN /\ h.seq \in Nat
  BY Typed DEF TimerInv, HostRecords
<1>2. /\ h.q \in Seq(Queued) /\ Head(h.q) = h.q[1] /\ h.q[1] \in Queued
      /\ 1 \in 1 .. Len(h.q) /\ Head(h.q).packet
  BY HeadOfQueue DEF HostRecords
<1>3. /\ \A e \in Dests \ {d} : host'[e] = host[e]
      /\ \E zero \in BOOLEAN : timer_restart(d, zero)
      /\ host'[d].status \in {"AWAITING_RESPONSE", "LOCAL_CRYPT_FAILURE"}
      /\ Len(host'[d].q) = Len(h.q)
      /\ \A i \in 1 .. Len(h.q) : i # 1 => host'[d].q[i] = h.q[i]
  <2>1. CASE /\ host' = [host EXCEPT ![d] =
                           [h EXCEPT !.q[1].seq = h.seq + 1, !.seq = h.seq + 1,
                                     !.tries = 1, !.status = "AWAITING_RESPONSE"]]
             /\ timer_restart(d, h.zero)
    <3> DEFINE r == [h.q[1] EXCEPT !.seq = h.seq + 1]
               q == [h.q EXCEPT ![1] = r]
               g == [h EXCEPT !.q = q, !.seq = h.seq + 1, !.tries = 1,
                              !.status = "AWAITING_RESPONSE"]
    <3>1. host' = [host EXCEPT ![d] = g]
      BY <2>1
    <3>2. r \in Queued
      <4>1. h.seq + 1 \in Nat
        BY <1>1
      <4>2. QED
        BY <1>2, <4>1 DEF Queued
    <3> HIDE DEF r
    <3>3. Len(q) = Len(h.q) /\ \A i \in 1 .. Len(h.q) : i # 1 => q[i] = h.q[i]
      BY <1>2, <3>2, ExceptSeq
    <3> HIDE DEF q
    <3>4. g.q = q /\ g.status = "AWAITING_RESPONSE"
      BY DEF HostRecords
    <3> HIDE DEF g
    <3>5. host'[d] = g /\ \A e \in Dests \ {d} : host'[e] = host[e]
      BY <1>1, <3>1
    <3>6. QED
      BY <1>1, <2>1, <3>3, <3>4, <3>5
  <2>2. CASE /\ host' = [host EXCEPT ![d] =
                           [h EXCEPT !.q[1].packet = FALSE, !.seq = h.seq + 1,
                                     !.status = "LOCAL_CRYPT_FAILURE",
                                     !.zero = TRUE]]
             /\ timer_restart(d, TRUE)
    <3> DEFINE r == [h.q[1] EXCEPT !.packet = FALSE]
               q == [h.q EXCEPT ![1] = r]
               g == [h EXCEPT !.q = q, !.seq = h.seq + 1,
                              !.status = "LOCAL_CRYPT_FAILURE", !.zero = TRUE]
    <3>1. host' = [host EXCEPT ![d] = g]
      BY <2>2
    <3>2. r \in Queued
      BY <1>2 DEF Queued
    <3> HIDE DEF r
    <3>3. Len(q) = Len(h.q) /\ \A i \in 1 .. Len(h.q) : i # 1 => q[i] = h.q[i]
      BY <1>2, <3>2, ExceptSeq
    <3> HIDE DEF q
    <3>4. g.q = q /\ g.status = "LOCAL_CRYPT_FAILURE"
      BY DEF HostRecords
    <3> HIDE DEF g
    <3>5. host'[d] = g /\ \A e \in Dests \ {d} : host'[e] = host[e]
      BY <1>1, <3>1
    <3>6. QED
      BY <2>2, <3>3, <3>4, <3>5
  <2>3. QED
    BY <1>2, <2>1, <2>2 DEF srr_process_queued_request
<1>4. /\ OnQueue(timer_queue', d) /\ Distinct(timer_queue')
      /\ \A e \in Dests : OnQueue(timer_queue, e) => OnQueue(timer_queue', e)
  BY <1>1, <1>3, RestartedTimer
<1>5. PacketsInv(host'[d])
  BY <1>3 DEF PacketsInv
<1>6. QED
  BY <1>3, <1>4, <1>5 DEF OthersKept

\* The head of the queue of d is dequeued and the next request processed.
LEMMA DequeueTimes ==
    ASSUME IInv, TimerInv, NEW d \in Dests, host[d].q # <<>>,
           NEW st \in {"INACTIVE", "HAVE_RESPONSE"},
           NextRequest(d, Dequeued(host[d], st))
    PROVE  /\ OthersKept(d) /\ PacketsInv(host'[d])
           /\ host'[d].q # <<>> \/ Active(host'[d]) => OnQueue(timer_queue', d)
<1> DEFINE h == host[d]
           g == Dequeued(h, st)
<1>1. /\ h \in HostRecords /\ h.q \in Seq(Queued) /\ PacketsInv(h)
      /\ host \in [Dests -> HostRecords] /\ Distinct(timer_queue)
  BY Typed DEF TimerInv, HostRecords
<1>2. /\ g \in HostRecords /\ g.q = Tail(h.q) /\ g.status = st
  <2>1. /\ QueueInv(d, g, net, sent, incarnation)
    BY DequeuedInv DEF Status
  <2>2. QED
    BY <1>1, <2>1 DEF QueueInv, Dequeued, HostRecords
<1>3. \A i \in 1 .. Len(g.q) : g.q[i].packet
  <2>1. /\ Len(g.q) = Len(h.q) - 1 /\ Len(h.q) \in Nat
        /\ \A i \in 1 .. Len(g.q) : g.q[i] = h.q[i + 1]
    BY <1>1, <1>2, HeadTailProperties
  <2>2. \A i \in 1 .. Len(g.q) : i + 1 \in 1 .. Len(h.q) /\ i + 1 # 1
    BY <2>1
  <2>3. QED
    BY <1>1, <2>1, <2>2 DEF PacketsInv
<1> HIDE DEF g
<1>4. CASE g.q # <<>> /\ srr_process_queued_request(d, g)
  BY <1>2, <1>3, <1>4, ProcessTimes
<1>5. CASE /\ g.q = <<>> /\ host' = [host EXCEPT ![d] = g]
           /\ UNCHANGED <<net, timer_queue>>
  <2>1. host'[d] = g /\ \A e \in Dests \ {d} : host'[e] = host[e]
    BY <1>1, <1>5
  <2>2. PacketsInv(g) /\ ~Active(g)
    BY <1>2, <1>3, <1>5 DEF PacketsInv, Active
  <2>3. OthersKept(d)
    BY <1>1, <1>5, <2>1 DEF OthersKept
  <2>4. QED
    BY <1>5, <2>1, <2>2, <2>3
<1>6. QED
  BY <1>4, <1>5 DEF NextRequest, g

\* A step that leaves the queue of timers alone, and neither gives a
\* destination its first request nor leaves it while srr_retry is at it.
LEMMA SameTimers ==
    ASSUME IInv, TimerInv, timer_queue' = timer_queue,
           \A e \in Dests : /\ PacketsInv(host'[e])
                            /\ host'[e].q # <<>> => host[e].q # <<>>
                            /\ Active(host'[e]) => Active(host[e]),
           \/ timer' = timer
           \/ timer.pc = "idle" /\ timer'.pc = "expired"
           \/ /\ timer.pc = "retry" /\ timer'.pc = "cleanup"
              /\ timer'.dest = timer.dest /\ ~Active(host'[timer.dest])
    PROVE  TimersNext
<1>1. TimerInv'
  BY DEF TimerInv
<1>2. ASSUME NEW e \in Dests
      PROVE  Strands(e)
  BY <1>2 DEF Strands, Stranded, Timed
<1>3. QED
  BY <1>1, <1>2 DEF TimersNext

\* So is one that leaves the records and the timers alone.
LEMMA NoTimers ==
    ASSUME IInv, TimerInv, UNCHANGED <<host, timer_queue, timer>>
    PROVE  TimersNext
  BY SameTimers DEF TimerInv

\* srr_send: a first request starts the timer, others find it started.
LEMMA SendTimes ==
    ASSUME IInv, TimerInv, NEW d \in Dests, srr_send(d)
    PROVE  TimersNext
<1> DEFINE r == [id |-> sent + 1, packet |-> TRUE, seq |-> 0]
           h == [host[d] EXCEPT !.q = Append(host[d].q, r)]
<1>1. timer' = timer /\ sent + faults < MaxEvents
  BY DEF srr_send
<1>2. /\ host \in [Dests -> HostRecords] /\ host[d] \in HostRecords
      /\ host[d].q \in Seq(Queued) /\ PacketsInv(host[d])
  BY Typed DEF HostRecords, TimerInv
<1>3. r \in Queued /\ r.packet
  <2>1. faults \in Nat /\ sent \in Nat /\ MaxEvents \in Nat
    BY SrrAssumption DEF IInv, TypeOK
  <2>2. sent + 1 \in Requests
    BY <1>1, <2>1 DEF Requests
  <2>3. QED
    BY <2>2 DEF Queued
<1> HIDE DEF r
<1>4. /\ Append(host[d].q, r) \in Seq(Queued)
      /\ Len(Append(host[d].q, r)) = Len(host[d].q) + 1
      /\ Len(host[d].q) \in Nat
      /\ \A i \in 1 .. Len(host[d].q) : Append(host[d].q, r)[i] = host[d].q[i]
      /\ Append(host[d].q, r)[Len(host[d].q) + 1] = r
  BY <1>2, <1>3, AppendProperties
<1>5. /\ h \in HostRecords /\ h.q = Append(host[d].q, r)
      /\ h.status = host[d].status
  BY <1>2, <1>4 DEF HostRecords
<1>6. \/ host[d].q = <<>> /\ srr_process_queued_request(d, h)
      \/ /\ host[d].q # <<>>
         /\ host' = [host EXCEPT ![d] = h] /\ UNCHANGED <<net, timer_queue>>
  BY DEF srr_send, r
<1> HIDE DEF h
<1>7. CASE host[d].q = <<>> /\ srr_process_queued_request(d, h)
  <2>1. h.q # <<>> /\ \A i \in 1 .. Len(h.q) : h.q[i].packet
    BY <1>3, <1>4, <1>5, <1>7
  <2>2. /\ OthersKept(d) /\ PacketsInv(host'[d]) /\ OnQueue(timer_queue', d)
    BY <1>5, <1>7, <2>1, ProcessTimes
  <2>3. QED
    BY <1>1, <2>2, OneDestination
<1>8. CASE /\ host[d].q # <<>>
           /\ host' = [host EXCEPT ![d] = h] /\ UNCHANGED <<net, timer_queue>>
  <2>1. 1 \in 1 .. Len(host[d].q) /\ h.q[1] = host[d].q[1]
    BY <1>2, <1>4, <1>5, <1>8
  <2>2. \A i \in 1 .. Len(h.q) : i # 1 => h.q[i].packet
    <3>1. \A i \in 1 .. Len(h.q) :
             i \in 1 .. Len(host[d].q) \/ i = Len(host[d].q) + 1
      BY <1>4, <1>5
    <3>2. QED
      BY <1>2, <1>3, <1>4, <1>5, <3>1 DEF PacketsInv
  <2>3. PacketsInv(h)
    BY <1>2, <1>5, <1>8, <2>1, <2>2 DEF PacketsInv
  <2>4. host'[d] = h /\ \A e \in Dests \ {d} : host'[e] = host[e]
    BY <1>2, <1>8
  <2>5. ASSUME NEW e \in Dests
        PROVE  /\ PacketsInv(host'[e])
               /\ host'[e].q # <<>> => host[e].q # <<>>
               /\ Active(host'[e]) => Active(host[e])
    BY <1>5, <1>8, <2>3, <2>4, <2>5 DEF TimerInv, Active
  <2>6. QED
    BY <1>1, <1>8, <2>5, SameTimers
<1>9. QED
  BY <1>6, <1>7, <1>8

\* timer_run: srr_retry is called for a timer that is taken off.
LEMMA RemoveTimes ==
    ASSUME IInv, TimerInv, TimerRemove
    PROVE  TimersNext
<1> DEFINE d == timer.dest
<1>1. /\ timer.pc = "expired" /\ host' = host
      /\ timer_queue' = TakenOff(timer_queue, d)
      /\ timer' = IF OnQueue(timer_queue, d)
                  THEN [timer EXCEPT !.pc = "retry"] ELSE Sleeping
  BY DEF TimerRemove
<1>2. d \in Dests /\ timer_queue \in Seq(Dests) /\ timer \in TimerType
  BY <1>1, Typed DEF IInv, ThreadInv
<1>3. /\ Distinct(timer_queue')
      /\ \A e \in Dests \ {d} :
           OnQueue(timer_queue, e) => OnQueue(timer_queue', e)
  BY <1>1, <1>2, TakenOffTimer DEF TimerInv
<1>4. timer'.pc \in {"idle", "retry"}
  BY <1>1, <1>2 DEF Sleeping, TimerType
<1>5. TimerInv'
  BY <1>1, <1>3, <1>4 DEF TimerInv
<1>6. ASSUME NEW e \in Dests
      PROVE  Strands(e)
  <2>1. CASE e = d /\ OnQueue(timer_queue, d)
    <3>1. timer'.pc = "retry" /\ timer'.dest = d
      BY <1>1, <1>2, <2>1 DEF TimerType
    <3>2. QED
      BY <2>1, <3>1 DEF Strands, Stranded, Timed
  <2>2. CASE e = d /\ ~OnQueue(timer_queue, d)
    BY <1>1, <2>2 DEF Strands, Stranded, Timed
  <2>3. CASE e # d
    <3>1. OnQueue(timer_queue, e) => OnQueue(timer_queue', e)
      BY <1>3, <1>6, <2>3
    <3>2. QED
      BY <1>1, <3>1 DEF Strands, Stranded, Timed
  <2>4. QED
    BY <2>1, <2>2, <2>3
<1>7. QED
  BY <1>5, <1>6 DEF TimersNext

\* srr_retry starts the timer again, or goes on with the next request.
LEMMA RetryTimes ==
    ASSUME IInv, TimerInv, srr_retry
    PROVE  TimersNext
<1> DEFINE d == timer.dest
           h == host[d]
<1>1. /\ timer.pc = "retry" /\ timer'.pc = "idle"
      /\ RetrySends(d, h) \/ RetryGivesUp(d, h)
  BY DEF srr_retry, Sleeping
<1>2. /\ d \in Dests /\ host \in [Dests -> HostRecords] /\ PacketsInv(h)
      /\ timer_queue \in Seq(Dests) /\ Distinct(timer_queue)
  BY <1>1, Typed DEF IInv, ThreadInv, TimerInv
<1> HIDE DEF d
<1>3. CASE UNCHANGED <<host, timer_queue>> /\ h.q = <<>>
  <2>1. OthersKept(d)
    BY <1>2, <1>3 DEF OthersKept
  <2>2. QED
    BY <1>1, <1>2, <1>3, <2>1, OneDestination DEF d
<1>4. CASE host' = [host EXCEPT ![d].tries = @ + 1] /\ timer_start(d, h.zero)
  <2>1. h \in HostRecords /\ h.zero \in BOOLEAN
    BY <1>2 DEF HostRecords
  <2>2. /\ host'[d].q = h.q /\ host'[d].status = h.status
        /\ \A e \in Dests \ {d} : host'[e] = host[e]
    BY <1>2, <1>4, <2>1 DEF HostRecords
  <2>3. PacketsInv(host'[d])
    BY <1>2, <2>2 DEF PacketsInv
  <2>4. /\ OnQueue(timer_queue', d) /\ Distinct(timer_queue')
        /\ ~OnQueue(timer_queue, d) =>
             \A e \in Dests : OnQueue(timer_queue, e) => OnQueue(timer_queue', e)
    BY <1>2, <1>4, <2>1, InsertedTimer DEF timer_start
  <2>5. CASE ~OnQueue(timer_queue, d)
    <3>1. OthersKept(d)
      BY <2>2, <2>4, <2>5 DEF OthersKept
    <3>2. QED
      BY <1>1, <1>2, <2>3, <2>4, <3>1, OneDestination DEF d
  <2>6. CASE OnQueue(timer_queue, d)
    <3>1. Relinks(d)
      BY <1>1, <1>4, <2>6 DEF Relinks, d
    <3>2. ASSUME NEW e \in Dests PROVE Strands(e)
      BY <1>2, <2>4, <3>1 DEF Strands, Stranded, Timed
    <3>3. \A e \in Dests : PacketsInv(host'[e])
      BY <2>2, <2>3 DEF TimerInv
    <3>4. TimerInv'
      BY <1>1, <2>4, <3>3 DEF TimerInv
    <3>5. QED
      BY <3>2, <3>4 DEF TimersNext
  <2>7. QED
    BY <2>5, <2>6
<1>5. CASE h.q # <<>> /\ NextRequest(d, Dequeued(h, "INACTIVE"))
  <2>1. /\ OthersKept(d) /\ PacketsInv(host'[d])
        /\ host'[d].q # <<>> \/ Active(host'[d]) => OnQueue(timer_queue', d)
    BY <1>2, <1>5, DequeueTimes
  <2>2. QED
    BY <1>1, <1>2, <2>1, OneDestination DEF d
<1>6. h.status = "HAVE_RESPONSE" => h.q = <<>>
  BY <1>2 DEF PacketsInv
<1>7. QED
  BY <1>1, <1>3, <1>4, <1>5, <1>6 DEF RetrySends, RetryGivesUp

\* It gives a request up.
LEMMA RetryFailsTimes ==
    ASSUME IInv, TimerInv, srr_retry_fails
    PROVE  TimersNext
<1> DEFINE d == timer.dest
           h == host[d]
           g == Dequeued(h, "INACTIVE")
<1>1. /\ timer.pc = "retry" /\ h.q # <<>> /\ host' = [host EXCEPT ![d] = g]
      /\ timer' = [timer EXCEPT !.pc = "cleanup", !.id = Head(h.q).id]
      /\ timer_queue' = timer_queue
  BY DEF srr_retry_fails
<1>2. /\ d \in Dests /\ host \in [Dests -> HostRecords] /\ PacketsInv(h)
      /\ h \in HostRecords /\ h.q \in Seq(Queued) /\ timer \in TimerType
  BY <1>1, Typed DEF IInv, ThreadInv, TimerInv, HostRecords
<1>3. timer'.pc = "cleanup" /\ timer'.dest = d
  BY <1>1, <1>2 DEF TimerType
<1>4. g.q = Tail(h.q) /\ g.status = "INACTIVE"
  BY <1>2 DEF Dequeued, HostRecords
<1>5. /\ Len(Tail(h.q)) = Len(h.q) - 1 /\ Len(h.q) \in Nat
      /\ Tail(h.q) \in Seq(Queued)
      /\ \A i \in 1 .. Len(Tail(h.q)) : Tail(h.q)[i] = h.q[i + 1]
  BY <1>1, <1>2, HeadTailProperties
<1>6. PacketsInv(g) /\ ~Active(g)
  <2> HIDE DEF g, h
  <2>1. \A i \in 1 .. Len(g.q) : i + 1 \in 1 .. Len(h.q) /\ i + 1 # 1
    BY <1>4, <1>5
  <2>2. \A i \in 1 .. Len(g.q) : g.q[i].packet
    BY <1>2, <1>4, <1>5, <2>1 DEF PacketsInv
  <2>3. g.q # <<>> => 1 \in 1 .. Len(g.q)
    BY <1>4, <1>5
  <2>4. QED
    BY <1>4, <2>2, <2>3 DEF PacketsInv, Active
<1>7. host'[d] = g /\ \A e \in Dests \ {d} : host'[e] = host[e]
  BY <1>1, <1>2
<1> HIDE DEF g
<1>8. ASSUME NEW e \in Dests
      PROVE  /\ PacketsInv(host'[e])
             /\ host'[e].q # <<>> => host[e].q # <<>>
             /\ Active(host'[e]) => Active(host[e])
  BY <1>1, <1>6, <1>7, <1>8 DEF TimerInv
<1>9. QED
  BY <1>1, <1>3, <1>6, <1>7, <1>8, SameTimers

\* After srq_cleanup it goes on with what is then the head of the queue: an
\* aborted request is one that was sent meanwhile, and has its timer.
LEMMA CleanupTimes ==
    ASSUME IInv, TimerInv, srr_retry_cleanup
    PROVE  TimersNext
<1> DEFINE d == timer.dest
           h == host[d]
<1>1. timer.pc = "cleanup" /\ timer'.pc = "idle" /\ NextRequest(d, h)
  BY DEF srr_retry_cleanup, Sleeping
<1>2. /\ d \in Dests /\ host \in [Dests -> HostRecords] /\ PacketsInv(h)
      /\ h \in HostRecords /\ Distinct(timer_queue)
      /\ Active(h) => OnQueue(timer_queue, d)
  BY <1>1, Typed DEF IInv, ThreadInv, TimerInv
<1> HIDE DEF d
<1>3. CASE /\ h.q = <<>> \/ ~Head(h.q).packet
           /\ host' = [host EXCEPT ![d] = h] /\ UNCHANGED <<net, timer_queue>>
  <2>1. host' = host
    BY <1>2, <1>3
  <2>2. OthersKept(d)
    BY <1>2, <1>3, <2>1 DEF OthersKept
  <2>3. h.q # <<>> => Active(h)
    <3>1. h.q # <<>> => Head(h.q) = h.q[1]
      BY <1>2, HeadOfQueue
    <3>2. QED
      BY <1>2, <1>3, <3>1 DEF PacketsInv, Active
  <2>4. QED
    BY <1>1, <1>2, <1>3, <2>1, <2>2, <2>3, OneDestination DEF d
<1>4. CASE /\ h.q # <<>> /\ Head(h.q).packet
           /\ srr_process_queued_request(d, h)
  <2>1. \A i \in 1 .. Len(h.q) : h.q[i].packet
    <3>1. Head(h.q) = h.q[1]
      BY <1>2, <1>4, HeadOfQueue
    <3>2. QED
      BY <1>2, <1>4, <3>1 DEF PacketsInv
  <2>2. /\ OthersKept(d) /\ PacketsInv(host'[d]) /\ OnQueue(timer_queue', d)
    BY <1>2, <1>4, <2>1, ProcessTimes
  <2>3. QED
    BY <1>1, <1>2, <2>2, OneDestination DEF d
<1>5. QED
  BY <1>1, <1>3, <1>4 DEF NextRequest, srr_process_queued_request

\* A client that starts again has no requests.
LEMMA StartAgainTimes ==
    ASSUME IInv, TimerInv, StartAgain
    PROVE  TimersNext
<1>1. /\ host' = [d \in Dests |-> NewHost] /\ timer_queue' = <<>>
      /\ timer' = Sleeping
  BY DEF StartAgain
<1>2. PacketsInv(NewHost) /\ NewHost.q = <<>>
  BY DEF NewHost, PacketsInv
<1>3. TimerInv'
  BY <1>1, <1>2 DEF TimerInv, Distinct, Sleeping
<1>4. ASSUME NEW e \in Dests PROVE Strands(e)
  BY <1>1, <1>2 DEF Strands, Stranded
<1>5. QED
  BY <1>3, <1>4 DEF TimersNext

\* srr_handle_response goes on with the next request.
LEMMA ResponseDoneTimes ==
    ASSUME IInv, TimerInv, srr_handle_response_done
    PROVE  TimersNext
<1> DEFINE d == listen.dest
<1>1. /\ listen.pc = "indata" /\ timer' = timer
      /\ \/ UNCHANGED <<host, timer_queue>>
         \/ host[d].q # <<>> /\ NextRequest(d, Dequeued(host[d], "HAVE_RESPONSE"))
  BY DEF srr_handle_response_done
<1>2. d \in Dests
  BY <1>1 DEF IInv, ThreadInv
<1> HIDE DEF d
<1>3. CASE UNCHANGED <<host, timer_queue>>
  BY <1>1, <1>3, NoTimers
<1>4. CASE host[d].q # <<>> /\ NextRequest(d, Dequeued(host[d], "HAVE_RESPONSE"))
  <2>1. /\ OthersKept(d) /\ PacketsInv(host'[d])
        /\ host'[d].q # <<>> \/ Active(host'[d]) => OnQueue(timer_queue', d)
    BY <1>2, <1>4, DequeueTimes
  <2>2. QED
    BY <1>1, <1>2, <2>1, OneDestination
<1>5. QED
  BY <1>1, <1>3, <1>4

\* srr_handle_crypt_failure aborts the head of an active destination's queue.
LEMMA CryptFailureTimes ==
    ASSUME IInv, TimerInv, NEW p \in net, srr_handle_crypt_failure(p)
    PROVE  TimersNext
<1> DEFINE d == p.host
           h == host[d]
           r == [h.q[1] EXCEPT !.packet = FALSE]
           q == [h.q EXCEPT ![1] = r]
           g == [h EXCEPT !.status = "REMOTE_CRYPT_FAILURE", !.q = q]
<1>1. /\ d \in Dests /\ h.status = "AWAITING_RESPONSE"
      /\ host' = [host EXCEPT ![d].status = "REMOTE_CRYPT_FAILURE",
                              ![d].q[1].packet = FALSE]
      /\ UNCHANGED <<timer_queue, timer>>
  BY DEF srr_handle_crypt_failure, Current
<1>2. /\ h \in HostRecords /\ h.q \in Seq(Queued) /\ h.q # <<>>
      /\ h.q[1] \in Queued /\ 1 \in 1 .. Len(h.q)
      /\ host \in [Dests -> HostRecords] /\ PacketsInv(h)
  BY <1>1, Typed, HeadOfQueue DEF IInv, ClientInv, AwaitInv, TimerInv, HostRecords
<1>3. host' = [host EXCEPT ![d] = g]
  BY <1>1, <1>2 DEF HostRecords
<1>4. r \in Queued
  BY <1>2 DEF Queued
<1> HIDE DEF r
<1>5. /\ Len(q) = Len(h.q) /\ \A i \in 1 .. Len(h.q) : i # 1 => q[i] = h.q[i]
  BY <1>2, <1>4, ExceptSeq
<1> HIDE DEF q
<1>6. g.q = q /\ g.status = "REMOTE_CRYPT_FAILURE"
  BY <1>2 DEF HostRecords
<1>7. host'[d] = g /\ \A e \in Dests \ {d} : host'[e] = host[e]
  BY <1>1, <1>2, <1>3
<1> HIDE DEF g
<1>8. PacketsInv(g)
  BY <1>2, <1>5, <1>6 DEF PacketsInv
<1>9. ASSUME NEW e \in Dests
      PROVE  /\ PacketsInv(host'[e])
             /\ host'[e].q # <<>> => host[e].q # <<>>
             /\ Active(host'[e]) => Active(host[e])
  BY <1>1, <1>2, <1>7, <1>8, <1>9 DEF TimerInv, Active
<1>10. QED
  BY <1>1, <1>9, SameTimers

\* Every step keeps the timers.
LEMMA NextTimers ==
    ASSUME IInv, TimerInv, Next
    PROVE  TimersNext
<1>1. ASSUME NEW d \in Dests, srr_send(d) PROVE TimersNext
  BY <1>1, SendTimes
<1>2. CASE TimerExpires
  <2>1. /\ UNCHANGED <<host, timer_queue>> /\ timer.pc = "idle"
        /\ timer'.pc = "expired"
    BY <1>2 DEF TimerExpires, Sleeping
  <2>2. QED
    BY <2>1, SameTimers DEF TimerInv
<1>3. CASE TimerThread
  <2>1. ASSUME srr_retry_null PROVE TimersNext
    BY <2>1, StartAgainTimes DEF srr_retry_null
  <2>2. QED
    BY <1>2, <1>3, <2>1, RemoveTimes, RetryTimes, RetryFailsTimes, CleanupTimes
       DEF TimerThread
<1>4. CASE ListenThread
  <2>1. ASSUME srr_handle_response_refused PROVE TimersNext
    BY <2>1, NoTimers DEF srr_handle_response_refused
  <2>2. QED
    BY <1>4, <2>1, ResponseDoneTimes DEF ListenThread
<1>5. ASSUME NEW p \in net, srr_handle_response(p) \/ srr_handle_crypt_failure(p)
      PROVE  TimersNext
  <2>1. ASSUME srr_handle_response(p) PROVE TimersNext
    BY <2>1, NoTimers DEF srr_handle_response
  <2>2. QED
    BY <1>5, <2>1, CryptFailureTimes
<1>6. ASSUME UNCHANGED client PROVE TimersNext
  BY <1>6, NoTimers DEF client
<1>7. ASSUME NEW h \in Hosts, NEW p \in net,
             srr_handle_request(h, p) \/ srr_send_crypt_failure(h, p)
      PROVE  TimersNext
  BY <1>6, <1>7 DEF srr_handle_request, srr_send_crypt_failure
<1>8. CASE ClientRestart
  BY <1>8, StartAgainTimes DEF ClientRestart
<1>9. ASSUME NEW h \in Hosts, ServerRestart(h) PROVE TimersNext
  BY <1>6, <1>9 DEF ServerRestart
<1>10. QED
  BY <1>1, <1>3, <1>4, <1>5, <1>7, <1>8, <1>9 DEF Next
-----------------------------------------------------------------------------
(* The theorems.                                                           *)

\* The invariant holds initially.
LEMMA InitIInv ==
    ASSUME Init
    PROVE  IInv
<1>1. NewHost \in HostRecords /\ NewHost.q = <<>> /\ Len(NewHost.q) = 0
      /\ NewHost.status = "INACTIVE"
  BY RequestNat DEF NewHost, HostRecords, Status
<1>2. host = [d \in Dests |-> NewHost] /\ net = {}
  BY DEF Init
<1>3. TypeOK
  <2>1. host \in [Dests -> HostRecords]
    BY <1>1, <1>2
  <2>2. timer_queue \in Seq(Dests) /\ incarnation \in Nat \ {0} /\ net \subseteq Packets
    BY DEF Init
  <2>3. timer \in TimerType /\ listen \in ListenType
    BY DEF Init, Sleeping, Listening, TimerType, ListenType
  <2>4. sent \in 0 .. MaxEvents /\ faults \in 0 .. MaxEvents
    BY SrrAssumption DEF Init
  <2>5. told \in [Requests -> SUBSET {"response", "failure"}]
    BY DEF Init, Requests
  <2>6. /\ response \in [Hosts -> [Dests -> [inc : Nat, seq : Nat, id : Nat]]]
        /\ executed \in [Hosts -> [Dests -> Seq(Log)]]
    BY DEF Init, Unanswered
  <2>7. QED
    BY <2>1, <2>2, <2>3, <2>4, <2>5, <2>6
       DEF TypeOK, HostRecords, TimerType, ListenType
<1>4. NetInv(net, sent, incarnation)
  BY <1>2 DEF NetInv
<1>5. ClientInv
  <2>1. 1 .. Len(NewHost.q) = {}
    BY <1>1
  <2>2. ASSUME NEW d \in Dests
        PROVE  /\ QueueInv(d, NewHost, net, sent, incarnation)
               /\ AwaitInv(d, NewHost, net, incarnation)
    BY <1>1, <1>2, <2>1 DEF QueueInv, AwaitInv
  <2>3. QED
    BY <1>2, <2>2 DEF ClientInv
<1>6. ServersInv
  <2>1. ASSUME NEW h \in Hosts, NEW d \in Dests
        PROVE  response[h][d] = Unanswered /\ executed[h][d] = <<>>
    BY DEF Init
  <2>2. QED
    BY <2>1 DEF ServersInv, ServerInv, Unanswered, Ordered
<1>7. ThreadInv
  BY DEF Init, ThreadInv, AnswerMatches, Sleeping, Listening
<1>8. QED
  BY <1>3, <1>4, <1>5, <1>6, <1>7 DEF IInv

\* Every step keeps the invariant.
LEMMA NextIInv ==
    ASSUME IInv, [Next]_vars
    PROVE  IInv'
<1>1. CASE UNCHANGED vars
  <2>1. /\ host' = host /\ incarnation' = incarnation /\ timer' = timer
        /\ timer_queue' = timer_queue /\ listen' = listen /\ sent' = sent
        /\ told' = told /\ net' = net /\ response' = response
        /\ executed' = executed /\ faults' = faults
    BY <1>1 DEF vars
  <2>2. QED
    BY <2>1 DEF IInv, TypeOK, ClientInv, ServersInv, ThreadInv, AnswerMatches
<1>2. ASSUME NEW d \in Dests, srr_send(d) PROVE IInv'
  BY <1>2, SendStep
<1>3. CASE TimerThread
  BY <1>3, TimerExpiresStep, TimerRemoveStep, RetryStep, RetryFailsStep,
     CleanupStep, RetryNullStep DEF TimerThread
<1>4. CASE ListenThread
  BY <1>4, ResponseDoneStep, RefusedStep DEF ListenThread
<1>5. ASSUME NEW p \in net, srr_handle_response(p) \/ srr_handle_crypt_failure(p)
      PROVE  IInv'
  BY <1>5, ResponseStep, CryptFailureStep
<1>6. ASSUME NEW h \in Hosts, NEW p \in net,
             srr_handle_request(h, p) \/ srr_send_crypt_failure(h, p)
      PROVE  IInv'
  BY <1>6, RequestStep, SendCryptFailureStep
<1>7. CASE ClientRestart
  BY <1>7, ClientRestartStep
<1>8. ASSUME NEW h \in Hosts, ServerRestart(h) PROVE IInv'
  BY <1>8, ServerRestartStep
<1>9. QED
  BY <1>1, <1>2, <1>3, <1>4, <1>5, <1>6, <1>7, <1>8 DEF Next

\* The invariant holds in every state of every behaviour.
THEOREM Invariance == Spec => []IInv
<1>1. Init => IInv
  BY InitIInv
<1>2. IInv /\ [Next]_vars => IInv'
  BY NextIInv
<1>3. QED
  BY <1>1, <1>2, PTL DEF Spec

\* The records, threads, packets and servers of srr.c keep their types.
THEOREM TypeCorrect == Spec => []TypeOK
<1>1. IInv => TypeOK
  BY DEF IInv
<1>2. QED
  BY <1>1, Invariance, PTL

\* The handlers that trust RS_AWAITING_RESPONSE find the request they use.
THEOREM HeadAwaited == Spec => []AwaitsHead
<1>1. IInv => AwaitsHead
  BY DEF IInv, ClientInv, AwaitInv, AwaitsHead
<1>2. QED
  BY <1>1, Invariance, PTL

\* srr_handle_response never hands a client the answer to another request.
THEOREM OwnAnswer == Spec => []AnswerMatches
<1>1. IInv => AnswerMatches
  BY DEF IInv, ThreadInv
<1>2. QED
  BY <1>1, Invariance, PTL

\* In each life of a server srr_handle_request executes nothing that is not
\* later than all it has answered.
THEOREM ExecutedInOrder == Spec => []InOrder
<1>1. IInv => InOrder
  BY DEF IInv, ServersInv, ServerInv, InOrder
<1>2. QED
  BY <1>1, Invariance, PTL

\* Only timer_start of a queued timer, in srr_retry, loses the timer of another
\* destination; no other step leaves requests without one.
THEOREM TimersAreKept == Spec => TimersKept
<1>1. Init => TimerInv
  <2>1. SUFFICES ASSUME Init PROVE TimerInv
    OBVIOUS
  <2>2. PacketsInv(NewHost)
    BY DEF NewHost, PacketsInv
  <2>3. QED
    BY <2>1, <2>2 DEF Init, TimerInv, Distinct, Sleeping
<1>2. IInv /\ TimerInv /\ [Next]_vars => TimerInv'
  <2>1. ASSUME TimerInv, UNCHANGED vars PROVE TimerInv'
    <3>1. host' = host /\ timer_queue' = timer_queue /\ timer' = timer
      BY <2>1 DEF vars
    <3>2. QED
      BY <2>1, <3>1 DEF TimerInv
  <2>2. QED
    BY <2>1, NextTimers DEF TimersNext
<1>3. IInv /\ TimerInv /\ [Next]_vars =>
        [\A d \in Dests : Stranded(d)' =>
           Stranded(d) \/ \E e \in Dests \ {d} : Relinks(e)]_vars
  BY NextTimers DEF TimersNext, Strands
<1>4. QED
  BY <1>1, <1>2, <1>3, Invariance, PTL DEF Spec, TimersKept

\* Towards a single destination no timer is ever lost.
THEOREM OneDestinationTimed ==
    ASSUME \A d, e \in Dests : d = e
    PROVE  Spec => [](\A d \in Dests : ~Stranded(d))
<1>1. Init => \A d \in Dests : ~Stranded(d)
  BY DEF Init, Stranded, NewHost
<1>2. /\ \A d \in Dests : ~Stranded(d)
      /\ [\A d \in Dests : Stranded(d)' =>
            Stranded(d) \/ \E e \in Dests \ {d} : Relinks(e)]_vars
      => (\A d \in Dests : ~Stranded(d))'
  <2>1. ASSUME \A d \in Dests : ~Stranded(d), UNCHANGED vars
        PROVE  (\A d \in Dests : ~Stranded(d))'
    <3>1. host' = host /\ timer_queue' = timer_queue /\ timer' = timer
      BY <2>1 DEF vars
    <3>2. QED
      BY <2>1, <3>1 DEF Stranded, Timed
  <2>2. QED
    BY <2>1
<1>3. QED
  BY <1>1, <1>2, TimersAreKept, PTL DEF Spec, TimersKept
=============================================================================
