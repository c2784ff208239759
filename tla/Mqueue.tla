------------------------------- MODULE Mqueue -------------------------------
(***************************************************************************)
(* Mach message queues: ipc_mqueue.c, the port sets of ipc_pset.c and the *)
(* parts of ipc_port.c, ipc_right.c and ipc_sched.c they use.              *)
(*                                                                         *)
(* A port has a message queue of its own; while the port is a member of a *)
(* port set its messages go to the queue of the set.  A queue holds        *)
(* messages, or else the threads that wait to receive.  A port has a limit *)
(* (ip_qlimit); a sender that meets it sleeps in ip_blocked.               *)
(*                                                                         *)
(* One action is what runs under the lock of a port or of a queue without *)
(* a window: the queue lock is taken before the port lock is released, and *)
(* what the two sections touch is disjoint.  A thread that leaves the      *)
(* locks to sleep, or to account for the message it took, goes on in       *)
(* another action; timeouts and thread_abort strike in between.            *)
(***************************************************************************)
EXTENDS Queue

CONSTANTS
    Ports, Psets,
    Senders, Receivers,
    None,
    RcvFrom,        \* RcvFrom[r]: the ports and sets thread r receives from
    SendWaits,      \* how senders wait: "always", "poll", "timed", "forever"
    RcvWaits,       \* how receivers wait: "poll", "timed", "forever"
    Buffers,        \* "any": holds all; "large": MACH_RCV_LARGE; "trunc"
    Circular,       \* whether a sender moves the receive right it sends to
    QLimits,        \* the limits mach_port_set_qlimit is called with
    QLimitDefault,
    Sizes,          \* FALSE: a message fits every buffer; TRUE: a big one
    MaxSends,       \* bound: messages sent
    MaxOps          \* bound: operations on rights, limits and sets

(* The part of a message that matters: its port, whether it exceeds the    *)
(* smaller receive buffers, and whether it carries the receive right for   *)
(* its own port (MACH_MSGH_BITS_CIRCULAR).  n gives it identity.           *)
Messages == [port : Ports, n : 1 .. MaxSends, big : BOOLEAN, circular : BOOLEAN]

ASSUME MqueueAssumption ==
    /\ RcvFrom \in [Receivers -> SUBSET (Ports \cup Psets)]
    /\ SendWaits \subseteq {"always", "poll", "timed", "forever"}
    /\ RcvWaits \subseteq {"poll", "timed", "forever"}
    /\ Buffers \subseteq {"any", "large", "trunc"}
    /\ Circular \in BOOLEAN /\ Sizes \subseteq BOOLEAN
    /\ QLimits \subseteq Nat /\ QLimitDefault \in Nat
    /\ MaxSends \in Nat /\ MaxOps \in Nat
    /\ Ports \cap Psets = {} /\ Senders \cap Receivers = {}
    /\ IsFiniteSet(Senders) /\ IsFiniteSet(Receivers)
    /\ None \notin Ports \cup Psets \cup Senders \cup Receivers \cup Messages

VARIABLES
    ip,          \* the ports
    ips_active,  \* the port sets that are alive
    imq,         \* the message queue of each port and of each set
    th,          \* the threads
    sent,        \* the number of sends so far, which names the messages
    ops          \* operations on rights, limits and sets so far

vars == <<ip, ips_active, imq, th, sent, ops>>

Threads == Senders \cup Receivers
Queues  == Ports \cup Psets

(* A thread between two calls.  wait joins TH_WAIT and ith_wait_result;    *)
(* how and buf are the options of the call in progress.                    *)
Idle == [pc |-> "idle", ith_state |-> "none", wait |-> "awakened",
         kmsg |-> None, how |-> "none", buf |-> "none", mq |-> None]

Init ==
    /\ ip = [p \in Ports |->
               [right |-> "held", pset |-> None, msgcount |-> 0,
                qlimit |-> QLimitDefault, seqno |-> 0, blocked |-> <<>>]]
    /\ ips_active = Psets
    /\ imq = [q \in Queues |-> [messages |-> <<>>, threads |-> <<>>]]
    /\ th = [t \in Threads |-> Idle]
    /\ sent = 0
    /\ ops = 0

-----------------------------------------------------------------------------
(* Threads.                                                                *)

Operation == ops < MaxOps /\ ops' = ops + 1

(* thread_go: the threads of T continue with the given ith_state.          *)
thread_go(ths, T, state) ==
    [t \in Threads |->
       IF t \in T
       THEN [ths[t] EXCEPT !.ith_state = state,
                           !.wait = IF @ = "waiting" THEN "awakened" ELSE @]
       ELSE ths[t]]

(* thread_timeout: the timer of a thread that waits expires.               *)
Timeout(t) ==
    /\ th[t].wait = "waiting" /\ th[t].how = "timed"
    /\ th' = [th EXCEPT ![t].wait = "timed_out"]
    /\ UNCHANGED <<ip, ips_active, imq, sent, ops>>

(* thread_abort: an interruptible wait ends.                               *)
Interrupt(t) ==
    /\ th[t].wait = "waiting"
    /\ th' = [th EXCEPT ![t].wait = "interrupted"]
    /\ Operation
    /\ UNCHANGED <<ip, ips_active, imq, sent>>

-----------------------------------------------------------------------------
(* Messages and queues.                                                    *)

(* The queue where the messages of a port are.                             *)
MqueueOf(p) == IF ip[p].pset = None THEN p ELSE ip[p].pset

SentTo(p, messages) == Without(messages, {i \in DOMAIN messages : messages[i].port # p})
SentElsewhere(p, messages) == Without(messages, {i \in DOMAIN messages : messages[i].port = p})

(* A receiver with a buffer too small declines the message if it asked for *)
(* MACH_RCV_LARGE; otherwise it is given the message with an error.        *)
Declines(buf, m) == m.big /\ buf = "large"
RcvState(buf, m) == IF m.big /\ buf # "any" THEN "too_large" ELSE "success"

(* How the messages ms meet the receivers that wait in a queue.  The j-th  *)
(* one goes to the receiver g[j]: those between it and the one that has    *)
(* the message before decline it.  When all that are left decline a        *)
(* message, it is queued and the ones behind it too.                       *)
Before(g, j) == IF j = 1 THEN 0 ELSE g[j - 1]
Handovers(threads, ms) ==
    LET declines(i, j) == Declines(th[threads[i]].buf, ms[j])
        n == Len(threads)
    IN {g \in UNION {[1 .. h -> 1 .. n] : h \in 0 .. Len(ms)} :
          /\ \A j \in DOMAIN g :
               /\ Before(g, j) < g[j] /\ ~declines(g[j], j)
               /\ \A i \in 1 .. n : Before(g, j) < i /\ i < g[j] => declines(i, j)
          /\ Len(g) < Len(ms) =>
               \A i \in 1 .. n : Before(g, Len(g) + 1) < i => declines(i, Len(g) + 1)}

\* Mutant: does not look at the receivers.
Deliver_queued(q, ms) ==
    [messages |-> imq[q].messages \o ms, threads |-> imq[q].threads,
     handed |-> {}, declined |-> {}]

(* The messages ms, one after the other, arrive at queue q.                *)
Deliver(q, ms) ==
    LET threads == imq[q].threads
        n == Len(threads)
        g == CHOOSE g \in Handovers(threads, ms) : TRUE
        h == Len(g)
        met == IF h < Len(ms) THEN n ELSE Before(g, h + 1)
    IN [messages |-> imq[q].messages \o SubSeq(ms, h + 1, Len(ms)),
        threads  |-> SubSeq(threads, met + 1, n),
        handed   |-> {<<threads[g[j]], ms[j]>> : j \in 1 .. h},
        declined |-> {threads[i] : i \in 1 .. met} \ {threads[g[j]] : j \in 1 .. h}]

(* The receivers met in the delivery d go on.                              *)
Receivers_go(d) ==
    LET taker(t) == \E h \in d.handed : h[1] = t
        kmsg(t) == (CHOOSE h \in d.handed : h[1] = t)[2]
        gone == thread_go(th, d.declined, "too_large")
    IN [t \in Threads |->
          IF taker(t)
          THEN [thread_go(th, {t}, RcvState(th[t].buf, kmsg(t)))[t]
                  EXCEPT !.kmsg = kmsg(t)]
          ELSE gone[t]]

(* ipc_mqueue_changed: every receiver of queue q returns with an error.    *)
ipc_mqueue_changed(ths, q, error) ==
    thread_go(ths, Members(imq[q].threads), error)

(* ipc_mqueue_move: the messages of port p go from its queue to dest, and  *)
(* the receivers that wait at the port, if left, are told.                 *)
ipc_mqueue_move(p, dest) ==
    LET d == Deliver(dest, SentTo(p, imq[MqueueOf(p)].messages)) IN
    [imq EXCEPT
       ![MqueueOf(p)] = [messages |-> SentElsewhere(p, @.messages),
                         threads |-> IF MqueueOf(p) = p THEN <<>>
                                     ELSE @.threads],
       ![dest] = [messages |-> d.messages, threads |-> d.threads]]

(* ipc_pset_remove: the queue of the port has its messages again.  Nobody  *)
(* waits there: a port in a set has no receivers of its own.               *)
ipc_pset_remove(p) == ipc_mqueue_move(p, p)

-----------------------------------------------------------------------------
(* Sending: mach_msg_send and ipc_mqueue_send.                             *)

ip_active(p) == ip[p].right # "dead"

Return(ths, t) == [ths EXCEPT ![t] = Idle]

(* ipc_port_destroy, from the blocked senders on: they go on, the port is  *)
(* dead and the messages in its queue are gone.                            *)
DeadPort(ports, p) == [ports EXCEPT ![p].right = "dead", ![p].blocked = <<>>]
EmptyQueue(queues, p) == [queues EXCEPT ![p].messages = <<>>]
SendersGo(ths, p) == thread_go(ths, Members(ip[p].blocked), "success")

\* Mutant: does not count a message that a receiver has at once.
Accept_uncounted(t, m, blocked) ==
    LET p == m.port
        q == MqueueOf(p)
        d == Deliver(q, <<m>>)
    IN \/ /\ m.circular
          /\ ip' = DeadPort(ip, p)
          /\ imq' = EmptyQueue(imq, p)
          /\ th' = Return(SendersGo(th, p), t)
       \/ /\ ~m.circular
          /\ ip' = [ip EXCEPT ![p].msgcount = IF d.handed = {} THEN @ + 1 ELSE @,
                              ![p].seqno = @ + Cardinality(d.handed),
                              ![p].blocked = blocked]
          /\ imq' = [imq EXCEPT ![q] = [messages |-> d.messages,
                                        threads |-> d.threads]]
          /\ th' = Return(Receivers_go(d), t)

(* The message is accepted.  A circular one is destroyed, and with it the  *)
(* receive right it carries: the port dies.  The others count, and go to a *)
(* receiver or to the queue.                                               *)
Accept(t, m, blocked) ==
    LET p == m.port
        q == MqueueOf(p)
        d == Deliver(q, <<m>>)
    IN \/ /\ m.circular
          /\ ip' = DeadPort(ip, p)
          /\ imq' = EmptyQueue(imq, p)
          /\ th' = Return(SendersGo(th, p), t)
       \/ /\ ~m.circular
          /\ ip' = [ip EXCEPT ![p].msgcount = @ + 1,
                              ![p].seqno = @ + Cardinality(d.handed),
                              ![p].blocked = blocked]
          /\ imq' = [imq EXCEPT ![q] = [messages |-> d.messages,
                                        threads |-> d.threads]]
          /\ th' = Return(Receivers_go(d), t)

(* The send fails.  mach_msg_send copies the message out again: a receive  *)
(* right in it is back in the space.                                       *)
Refuse(t, m, blocked) ==
    /\ ip' = [ip EXCEPT ![m.port].blocked = blocked,
                        ![m.port].right = IF m.circular THEN "held" ELSE @]
    /\ th' = Return(th, t)
    /\ UNCHANGED imq

(* The loop of ipc_mqueue_send, entered with the sender in no queue;       *)
(* blocked is ip_blocked without it and how the time it still has.         *)
SendLoop(t, m, how, blocked) ==
    LET p == m.port
        room == ip[p].msgcount < ip[p].qlimit \/ how = "always"
    IN \/ /\ ~ip_active(p)
          /\ th' = Return(th, t)
          /\ UNCHANGED <<ip, imq>>
       \/ ip_active(p) /\ room /\ Accept(t, m, blocked)
       \/ ip_active(p) /\ ~room /\ how = "poll" /\ Refuse(t, m, blocked)
       \/ /\ ip_active(p) /\ ~room /\ how # "poll"
          /\ ip' = [ip EXCEPT ![p].blocked = Append(blocked, t)]
          /\ th' = [th EXCEPT ![t] = [Idle EXCEPT !.pc = "blocked", !.kmsg = m,
                                        !.how = how, !.wait = "waiting",
                                        !.ith_state = "in_progress"]]
          /\ UNCHANGED imq

(* mach_msg_send with a message for p.                                     *)
Send(t, p, how, big) ==
    /\ th[t].pc = "idle" /\ sent < MaxSends
    /\ SendLoop(t, [port |-> p, n |-> sent + 1,
                    big |-> big, circular |-> FALSE],
                how, ip[p].blocked)
    /\ sent' = sent + 1
    /\ UNCHANGED <<ips_active, ops>>

(* ipc_port_clear_receiver: the port leaves its set, or its receivers are  *)
(* told; its sequence number starts again.                                 *)
ClearedPort(p) == [ip EXCEPT ![p].pset = None, ![p].seqno = 0]

\* Mutant: the messages stay in the set.
ClearedQueues_kept(p) ==
    IF ip[p].pset # None THEN imq ELSE [imq EXCEPT ![p].threads = <<>>]

ClearedQueues(p) ==
    IF ip[p].pset # None THEN ipc_pset_remove(p)
                         ELSE [imq EXCEPT ![p].threads = <<>>]
ClearedThreads(p) ==
    IF ip[p].pset # None THEN th ELSE ipc_mqueue_changed(th, p, "port_died")

(* ipc_right_copyin of the receive right for p into a message for p.       *)
CopyinReceive(t, p, how) ==
    /\ Circular
    /\ th[t].pc = "idle" /\ sent < MaxSends
    /\ ip[p].right = "held"
    /\ ip' = [ClearedPort(p) EXCEPT ![p].right = "limbo"]
    /\ imq' = ClearedQueues(p)
    /\ th' = [ClearedThreads(p) EXCEPT
                ![t] = [Idle EXCEPT !.pc = "copied", !.how = how,
                          !.kmsg = [port |-> p, n |-> sent + 1,
                                    big |-> FALSE, circular |-> TRUE]]]
    /\ sent' = sent + 1
    /\ Operation
    /\ UNCHANGED ips_active

SendCopied(t) ==
    /\ th[t].pc = "copied"
    /\ SendLoop(t, th[t].kmsg, th[t].how, ip[th[t].kmsg.port].blocked)
    /\ UNCHANGED <<ips_active, sent, ops>>

\* Mutant: a sender that timed out or was interrupted stays in ip_blocked.
SendResume_linked(t) ==
    LET m == th[t].kmsg
        blocked == ip[m.port].blocked
    IN /\ t \in Senders /\ th[t].pc = "blocked" /\ th[t].wait # "waiting"
       /\ \/ /\ th[t].ith_state = "success"
             /\ SendLoop(t, m, th[t].how, blocked)
          \/ /\ th[t].ith_state = "in_progress" /\ th[t].wait = "timed_out"
             /\ SendLoop(t, m, "poll", blocked)
          \/ /\ th[t].ith_state = "in_progress" /\ th[t].wait = "interrupted"
             /\ Refuse(t, m, blocked)
       /\ UNCHANGED <<ips_active, sent, ops>>

(* A sender that slept runs again.  One that was given its turn tries      *)
(* again; one that timed out tries once more without time left; one that   *)
(* was interrupted gives up.                                               *)
SendResume(t) ==
    LET m == th[t].kmsg
        blocked == ip[m.port].blocked
        others == Unlinked(blocked, t)
    IN /\ t \in Senders /\ th[t].pc = "blocked" /\ th[t].wait # "waiting"
       /\ \/ /\ th[t].ith_state = "success"
             /\ SendLoop(t, m, th[t].how, blocked)
          \/ /\ th[t].ith_state = "in_progress" /\ th[t].wait = "timed_out"
             /\ SendLoop(t, m, "poll", others)
          \/ /\ th[t].ith_state = "in_progress" /\ th[t].wait = "interrupted"
             /\ Refuse(t, m, others)
       /\ UNCHANGED <<ips_active, sent, ops>>

-----------------------------------------------------------------------------
(* Receiving: ipc_mqueue_copyin and ipc_mqueue_receive.                    *)

(* The loop of ipc_mqueue_receive at queue q, with the ports and queues as *)
(* the steps before it left them.                                          *)
ReceiveLoop(r, q, how, buf, ports, queues) ==
    LET messages == queues[q].messages
        m == Head(messages)
        call == [Idle EXCEPT !.how = how, !.buf = buf, !.mq = q]
    IN \/ /\ messages # <<>> /\ Declines(buf, m)
          /\ th' = Return(th, r)
          /\ ip' = ports /\ imq' = queues
       \/ /\ messages # <<>> /\ ~Declines(buf, m)
          /\ th' = [th EXCEPT ![r] = [call EXCEPT !.pc = "got", !.kmsg = m,
                                        !.ith_state = RcvState(buf, m)]]
          /\ ip' = [ports EXCEPT ![m.port].seqno = @ + 1]
          /\ imq' = [queues EXCEPT ![q].messages = Tail(@)]
       \/ /\ messages = <<>> /\ how = "poll"
          /\ th' = Return(th, r)
          /\ ip' = ports /\ imq' = queues
       \/ /\ messages = <<>> /\ how # "poll"
          /\ th' = [th EXCEPT ![r] = [call EXCEPT !.pc = "blocked",
                                        !.ith_state = "in_progress",
                                        !.wait = "waiting"]]
          /\ ip' = ports
          /\ imq' = [queues EXCEPT ![q].threads = Append(@, r)]

\* Mutant: a port is not taken out of a set that died.
Receive_in_set(r, q, how, buf) ==
    /\ th[r].pc = "idle" /\ q \in RcvFrom[r]
    /\ \/ /\ q \in Psets /\ q \in ips_active
          /\ ReceiveLoop(r, q, how, buf, ip, imq)
       \/ /\ q \in Ports /\ ip[q].right = "held" /\ ip[q].pset = None
          /\ ReceiveLoop(r, q, how, buf, ip, imq)
    /\ UNCHANGED <<ips_active, sent, ops>>

(* mach_msg_receive.  A port in a live set cannot be received from; one in *)
(* a dead set is taken out of it first.                                    *)
Receive(r, q, how, buf) ==
    /\ th[r].pc = "idle" /\ q \in RcvFrom[r]
    /\ \/ /\ q \in Psets /\ q \in ips_active
          /\ ReceiveLoop(r, q, how, buf, ip, imq)
       \/ /\ q \in Ports /\ ip[q].right = "held" /\ ip[q].pset = None
          /\ ReceiveLoop(r, q, how, buf, ip, imq)
       \/ /\ q \in Ports /\ ip[q].right = "held"
          /\ ip[q].pset \in Psets \ ips_active
          /\ ReceiveLoop(r, q, how, buf,
                         [ip EXCEPT ![q].pset = None], ipc_pset_remove(q))
    /\ UNCHANGED <<ips_active, sent, ops>>

\* Mutant: takes every MACH_RCV_TOO_LARGE for a message.
ReceiveResume_large(r) ==
    LET q == th[r].mq
        withdrawn == [imq EXCEPT ![q].threads = Unlinked(@, r)]
    IN /\ r \in Receivers /\ th[r].pc = "blocked" /\ th[r].wait # "waiting"
       /\ \/ /\ th[r].ith_state \in {"success", "too_large"}
             /\ th' = [th EXCEPT ![r].pc = "got"]
             /\ UNCHANGED <<ip, imq>>
          \/ /\ th[r].ith_state \in {"port_died", "port_changed"}
             /\ th' = Return(th, r)
             /\ UNCHANGED <<ip, imq>>
          \/ /\ th[r].ith_state = "in_progress" /\ th[r].wait = "interrupted"
             /\ th' = Return(th, r)
             /\ imq' = withdrawn
             /\ UNCHANGED ip
          \/ /\ th[r].ith_state = "in_progress" /\ th[r].wait = "timed_out"
             /\ ReceiveLoop(r, q, "poll", th[r].buf, ip, withdrawn)
       /\ UNCHANGED <<ips_active, sent, ops>>

(* A receiver that slept runs again.                                       *)
ReceiveResume(r) ==
    LET q == th[r].mq
        withdrawn == [imq EXCEPT ![q].threads = Unlinked(@, r)]
    IN /\ r \in Receivers /\ th[r].pc = "blocked" /\ th[r].wait # "waiting"
       /\ \/ /\ \/ th[r].ith_state = "success"
                \/ th[r].ith_state = "too_large" /\ th[r].buf # "large"
             /\ th' = [th EXCEPT ![r].pc = "got"]
             /\ UNCHANGED <<ip, imq>>
          \/ /\ \/ th[r].ith_state \in {"port_died", "port_changed"}
                \/ th[r].ith_state = "too_large" /\ th[r].buf = "large"
             /\ th' = Return(th, r)
             /\ UNCHANGED <<ip, imq>>
          \/ /\ th[r].ith_state = "in_progress" /\ th[r].wait = "interrupted"
             /\ th' = Return(th, r)
             /\ imq' = withdrawn
             /\ UNCHANGED ip
          \/ /\ th[r].ith_state = "in_progress" /\ th[r].wait = "timed_out"
             /\ ReceiveLoop(r, q, "poll", th[r].buf, ip, withdrawn)
       /\ UNCHANGED <<ips_active, sent, ops>>

\* Mutant: gives nobody a turn.
ReceiveDone_quiet(r) ==
    LET p == th[r].kmsg.port IN
    /\ r \in Receivers /\ th[r].pc = "got"
    /\ ip' = [ip EXCEPT ![p].msgcount = IF ip_active(p) THEN @ - 1 ELSE @]
    /\ th' = Return(th, r)
    /\ UNCHANGED <<ips_active, imq, sent, ops>>

(* The receiver, without the queue lock, accounts for the message it has   *)
(* and gives the oldest blocked sender its turn if there is room.          *)
ReceiveDone(r) ==
    LET p == th[r].kmsg.port
        count == ip[p].msgcount - 1
        turn == ip[p].blocked # <<>> /\ count < ip[p].qlimit
    IN /\ r \in Receivers /\ th[r].pc = "got"
       /\ \/ /\ ~ip_active(p)
             /\ th' = Return(th, r)
             /\ UNCHANGED ip
          \/ /\ ip_active(p) /\ turn
             /\ ip' = [ip EXCEPT ![p].msgcount = count, ![p].blocked = Tail(@)]
             /\ th' = Return(thread_go(th, {Head(ip[p].blocked)}, "success"), r)
          \/ /\ ip_active(p) /\ ~turn
             /\ ip' = [ip EXCEPT ![p].msgcount = count]
             /\ th' = Return(th, r)
       /\ UNCHANGED <<ips_active, imq, sent, ops>>

-----------------------------------------------------------------------------
(* Operations of the task that holds the receive rights and the sets.      *)

\* Mutant: wakes nobody.
SetQlimit_quiet(p, qlimit) ==
    /\ ip[p].right = "held" /\ qlimit # ip[p].qlimit
    /\ ip' = [ip EXCEPT ![p].qlimit = qlimit]
    /\ Operation
    /\ UNCHANGED <<ips_active, imq, th, sent>>

(* ipc_port_set_qlimit                                                     *)
SetQlimit(p, qlimit) ==
    LET more == IF qlimit > ip[p].qlimit THEN qlimit - ip[p].qlimit ELSE 0
        blocked == ip[p].blocked
        k == IF more < Len(blocked) THEN more ELSE Len(blocked)
    IN /\ ip[p].right = "held" /\ qlimit # ip[p].qlimit
       /\ ip' = [ip EXCEPT ![p].qlimit = qlimit,
                           ![p].blocked = SubSeq(@, k + 1, Len(@))]
       /\ th' = thread_go(th, Members(SubSeq(blocked, 1, k)), "success")
       /\ Operation
       /\ UNCHANGED <<ips_active, imq, sent>>

\* Mutant: messages handed over by the move have no sequence numbers.
ipc_pset_add_seqno(p, nset) ==
    LET d == Deliver(nset, SentTo(p, imq[MqueueOf(p)].messages)) IN
    /\ ip' = [ip EXCEPT ![p].pset = nset]
    /\ imq' = ipc_mqueue_move(p, nset)
    /\ th' = ipc_mqueue_changed(Receivers_go(d), p, "port_changed")

(* ipc_pset_add: the messages of p go to the set, or to its receivers, and *)
(* the receivers of p itself are sent away.                                *)
ipc_pset_add(p, nset) ==
    LET d == Deliver(nset, SentTo(p, imq[MqueueOf(p)].messages)) IN
    /\ ip' = [ip EXCEPT ![p].pset = nset,
                        ![p].seqno = @ + Cardinality(d.handed)]
    /\ imq' = ipc_mqueue_move(p, nset)
    /\ th' = ipc_mqueue_changed(Receivers_go(d), p, "port_changed")

(* ipc_pset_move to the set nset, out of the set it is in if there is one. *)
PsetAdd(p, nset) ==
    /\ ip[p].right = "held" /\ nset \in ips_active /\ ip[p].pset # nset
    /\ ipc_pset_add(p, nset)
    /\ Operation
    /\ UNCHANGED <<ips_active, sent>>

(* ipc_pset_move to no set.                                                *)
PsetRemove(p) ==
    /\ ip[p].right = "held" /\ ip[p].pset # None
    /\ ip' = [ip EXCEPT ![p].pset = None]
    /\ imq' = ipc_pset_remove(p)
    /\ Operation
    /\ UNCHANGED <<ips_active, th, sent>>

(* ipc_pset_destroy: the members leave later, one by one.                  *)
PsetDestroy(s) ==
    /\ s \in ips_active
    /\ ips_active' = ips_active \ {s}
    /\ imq' = [imq EXCEPT ![s].threads = <<>>]
    /\ th' = ipc_mqueue_changed(th, s, "port_died")
    /\ Operation
    /\ UNCHANGED <<ip, sent>>

(* ipc_right_destroy of the receive right: ipc_port_clear_receiver and     *)
(* ipc_port_destroy.                                                       *)
PortDestroy(p) ==
    /\ ip[p].right = "held"
    /\ ip' = DeadPort(ClearedPort(p), p)
    /\ imq' = EmptyQueue(ClearedQueues(p), p)
    /\ th' = SendersGo(ClearedThreads(p), p)
    /\ Operation
    /\ UNCHANGED <<ips_active, sent>>

-----------------------------------------------------------------------------
Step(t) == SendCopied(t) \/ SendResume(t) \/ ReceiveResume(t) \/ ReceiveDone(t)

Next ==
    \/ \E t \in Senders, p \in Ports, how \in SendWaits :
         \/ \E big \in Sizes : Send(t, p, how, big)
         \/ CopyinReceive(t, p, how)
    \/ \E r \in Receivers, q \in Queues, how \in RcvWaits, buf \in Buffers :
         Receive(r, q, how, buf)
    \/ \E t \in Threads : Step(t) \/ Timeout(t) \/ Interrupt(t)
    \/ \E p \in Ports :
         \/ \E qlimit \in QLimits : SetQlimit(p, qlimit)
         \/ \E s \in Psets : PsetAdd(p, s)
         \/ PsetRemove(p)
         \/ PortDestroy(p)
    \/ \E s \in Psets : PsetDestroy(s)

Spec == Init /\ [][Next]_vars

(* The scheduler runs every thread that can run, and the servers call      *)
(* mach_msg_receive again whenever they have done with a message.          *)
FairSpec ==
    /\ Spec
    /\ \A t \in Threads : WF_vars(Step(t))
    /\ \A r \in Receivers :
         WF_vars(\E q \in Queues, how \in RcvWaits, buf \in Buffers :
                   Receive(r, q, how, buf))

-----------------------------------------------------------------------------
PortRecord ==
    [right : {"held", "limbo", "dead"}, pset : Psets \cup {None}, msgcount : Nat,
     qlimit : Nat, seqno : Nat, blocked : Seq(Senders)]
QueueRecord == [messages : Seq(Messages), threads : Seq(Receivers)]
ThreadRecord ==
    [pc : {"idle", "copied", "blocked", "got"},
     ith_state : {"none", "in_progress", "success", "too_large", "port_died",
                  "port_changed"},
     wait : {"waiting", "awakened", "timed_out", "interrupted"},
     kmsg : Messages \cup {None},
     how : {"none", "always", "poll", "timed", "forever"},
     buf : {"none", "any", "large", "trunc"},
     mq : Queues \cup {None}]

(* The state has the types of the C structures.                            *)
TypeOK ==
    /\ ip \in [Ports -> PortRecord]
    /\ ips_active \subseteq Psets
    /\ imq \in [Queues -> QueueRecord]
    /\ th \in [Threads -> ThreadRecord]
    /\ \A t \in Threads : th[t].pc \in {"copied", "got"} => th[t].kmsg # None
    /\ sent \in 0 .. MaxSends
    /\ ops \in 0 .. MaxOps

(* The message of p that a receiver has: handed to it, or taken by it and  *)
(* not yet accounted for.                                                  *)
InHand(p) == {r \in Receivers : th[r].kmsg # None /\ th[r].kmsg.port = p}
Queued(p) == SentTo(p, imq[MqueueOf(p)].messages)

(* The senders of p that were given a turn and have not yet used it.       *)
Turns(p) == {t \in Senders : /\ th[t].pc = "blocked"
                             /\ th[t].ith_state = "success"
                             /\ th[t].kmsg.port = p}

(* ip_msgcount of a live port is the number of its messages that are       *)
(* queued, wherever the port was moved to, or on the way to a receiver     *)
(* that has not locked the port yet.                                       *)
CountExact ==
    \A p \in Ports : ip_active(p) =>
        ip[p].msgcount = Len(Queued(p)) + Cardinality(InHand(p))

(* The messages of a port are in the queue that its receivers look at, and *)
(* the queue of a dead port is empty: none is left behind in a set.        *)
NoneLeftBehind ==
    \A p \in Ports, q \in Queues :
        SentTo(p, imq[q].messages) # <<>> => ip_active(p) /\ q = MqueueOf(p)

(* No receiver waits at a queue that has a message: the assertion          *)
(* ipc_kmsg_queue_empty of ipc_mqueue_send and ipc_mqueue_move.            *)
NoReceiverBesideMessage ==
    \A q \in Queues : imq[q].messages # <<>> => imq[q].threads = <<>>

(* Senders are not left asleep below the limit: the room there is has been *)
(* promised to senders that were given a turn.  Timeouts, interrupts,      *)
(* changes of the limit, senders that slip in first and circular messages  *)
(* do not lose a turn.                                                     *)
NoSenderBelowLimit ==
    \A p \in Ports :
        ip[p].blocked # <<>> =>
            ip[p].msgcount + Cardinality(Turns(p)) >= ip[p].qlimit

(* A thread is in a wait queue, once, exactly while its ith_state says so: *)
(* what it unlinks when a timeout wakes it is there, and nobody hands a    *)
(* message or a turn to a thread that has left.  A thread whose wait is    *)
(* decided is not asleep.                                                  *)
WaitersQueued ==
    LET inQueue(s, t) == Cardinality({i \in DOMAIN s : s[i] = t})
        waits(t) == th[t].ith_state = "in_progress"
    IN /\ \A t \in Senders, p \in Ports :
            inQueue(ip[p].blocked, t) =
                IF waits(t) /\ th[t].kmsg.port = p THEN 1 ELSE 0
       /\ \A r \in Receivers, q \in Queues :
            inQueue(imq[q].threads, r) =
                IF waits(r) /\ th[r].mq = q THEN 1 ELSE 0
       /\ \A t \in Threads : th[t].wait = "waiting" => waits(t)

(* Through limits, sets, timeouts and deaths a port is a FIFO channel that *)
(* loses and duplicates nothing (see PortFifo).                            *)
Fifo == INSTANCE PortFifo WITH
    chan  <- [p \in Ports |-> Queued(p)],
    hand  <- [p \in Ports |-> {th[r].kmsg : r \in InHand(p)}],
    seqno <- [p \in Ports |-> ip[p].seqno],
    alive <- {p \in Ports : ip_active(p)}

ImplementsPortFifo == Fifo!Spec

(* A sender that sleeps goes on at last when the servers keep receiving,   *)
(* unless the receive right of the port is itself in a blocked message.    *)
SenderReleased ==
    \A t \in Senders :
        th[t].pc = "blocked" ~> \/ th[t].pc # "blocked"
                                \/ ip[th[t].kmsg.port].right = "limbo"

(* The messages of a port are received at last, also when the set they     *)
(* were queued in dies.                                                    *)
QueueDrains ==
    \A p \in Ports : Queued(p) # <<>> ~> Queued(p) = <<>> \/ ip[p].right = "limbo"
=============================================================================
