-------------------------------- MODULE Srr --------------------------------
(***************************************************************************)
(* The simple request-response transport of the network message server:    *)
(* srr.c, srr_handler.c, the host records of srr_utils.c and the timers of *)
(* timer.c they are retransmitted by.                                      *)
(*                                                                         *)
(* One network server, the client, makes requests of others, one at a time *)
(* for each destination.  A request carries a uid (incarnation of the      *)
(* client, sequence number); it is sent again until it is answered, fails  *)
(* to be encrypted or decrypted, or has been tried srr_max_tries times.  A *)
(* server remembers the last uid it answered, and the answer.              *)
(*                                                                         *)
(* The network is the set of all packets ever sent: a packet may arrive    *)
(* late, more than once, in any order or not at all.  One action is what a *)
(* thread does under shi_lock; srr_retry and srr_handle_response leave it  *)
(* while they call their client and go on in a second action.  The servers *)
(* have one thread each.                                                   *)
(***************************************************************************)
EXTENDS Naturals, Sequences, SequencesExt

CONSTANTS
    Hosts,        \* the servers
    Broadcast,    \* the broadcast address
    Dests,        \* the addresses the client sends to
    None,
    Encrypted,    \* the requests that are to be encrypted
    MaxTries,     \* param.srr_max_tries
    MaxEvents     \* bound: requests and faults together

ASSUME SrrAssumption ==
    /\ Dests \subseteq Hosts \cup {Broadcast}
    /\ Broadcast \notin Hosts
    /\ None \notin Dests \cup Hosts
    /\ MaxTries \in Nat \ {0}
    /\ MaxEvents \in Nat
    /\ Encrypted \subseteq Nat

VARIABLES
    host,         \* the client's record of each destination
    incarnation,  \* current_incarnation of the client
    timer_queue,  \* the destinations whose timers are queued
    timer,        \* the timer thread of the client
    listen,       \* the thread of the client in srr_main
    net,          \* the packets sent so far
    response,     \* response[h][d]: what server h last answered
    sent,         \* the requests made so far, which numbers them
    faults,       \* restarts and answers that could not be encrypted so far
    told,         \* what the maker of each request was told
    executed      \* executed[h][d]: the log of server h, of what it executed

vars == <<host, incarnation, timer_queue, timer, listen, net, response, sent,
          faults, told, executed>>

client  == <<host, incarnation, timer_queue, timer, listen, sent, told>>
servers == <<response, executed>>

(* A fault: a restart, or an answer that cannot be encrypted.              *)
Fault == sent + faults < MaxEvents /\ faults' = faults + 1

(* The servers that receive what is sent to d.  A server keeps apart what  *)
(* was sent to it and what was broadcast.                                  *)
Reach(d) == IF d = Broadcast THEN Hosts ELSE {d}

NewHost == [q |-> <<>>, status |-> "INACTIVE", tries |-> 0, seq |-> 0,
            zero |-> FALSE]
Sleeping == [pc |-> "idle", dest |-> None, id |-> 0]
Listening == [pc |-> "idle", dest |-> None, id |-> 0, answer |-> 0]
Unanswered == [inc |-> 0, seq |-> 0, id |-> 0]

(* The entries of a server's log: a request was executed and its answer    *)
(* kept or not, or the server started again.                               *)
Execution(uid, kept) ==
    [inc |-> uid.inc, seq |-> uid.seq, id |-> uid.id, kept |-> kept]
Restarted == Execution(Unanswered, FALSE)

Init ==
    /\ host = [d \in Dests |-> NewHost]
    /\ incarnation = 1
    /\ timer_queue = <<>>
    /\ timer = Sleeping
    /\ listen = Listening
    /\ net = {}
    /\ response = [h \in Hosts |-> [d \in Dests |-> Unanswered]]
    /\ sent = 0
    /\ faults = 0
    /\ told = [r \in 1 .. MaxEvents |-> {}]
    /\ executed = [h \in Hosts |-> [d \in Dests |-> <<>>]]

-----------------------------------------------------------------------------
(* Timers.                                                                 *)

(* lq_insert_macro: a timer goes behind all others, unless its interval is *)
(* zero.  One that is on the queue already is linked a second time, and    *)
(* the timers from its old to its new place are no longer reached.         *)
Inserted(queue, d, zero) ==
    LET n == Len(queue)
        old == {i \in 1 .. n : queue[i] = d}
        new == IF zero THEN 1 .. n + 1 ELSE {n + 1}
    IN IF old = {}
       THEN {InsertAt(queue, j, d) : j \in new}
       ELSE UNION {{SubSeq(queue, 1, i) \o SubSeq(queue, j, n) :
                      j \in {k \in new : k > i}} : i \in old}

(* lq_remove_macro.                                                        *)
OnQueue(queue, d) == \E i \in 1 .. Len(queue) : queue[i] = d

TakenOff(queue, d) ==
    IF OnQueue(queue, d)
    THEN RemoveAt(queue, CHOOSE i \in 1 .. Len(queue) : queue[i] = d)
    ELSE queue

timer_start(d, zero) == timer_queue' \in Inserted(timer_queue, d, zero)

\* Mutant: the timer is not taken off first.
timer_restart_linked(d, zero) == timer_queue' \in Inserted(timer_queue, d, zero)

timer_restart(d, zero) ==
    timer_queue' \in Inserted(TakenOff(timer_queue, d), d, zero)

(* timer_run reads the head of the queue and finds it expired.             *)
TimerExpires ==
    /\ timer.pc = "idle" /\ timer_queue # <<>>
    /\ timer' = [Sleeping EXCEPT !.pc = "expired", !.dest = Head(timer_queue)]
    /\ UNCHANGED <<host, incarnation, timer_queue, listen, net, servers, sent,
                   faults, told>>

(* It then takes it off, if it is still there, and calls its action.       *)
TimerRemove ==
    LET d == timer.dest IN
    /\ timer.pc = "expired"
    /\ timer_queue' = TakenOff(timer_queue, d)
    /\ timer' = IF OnQueue(timer_queue, d)
                THEN [timer EXCEPT !.pc = "retry"] ELSE Sleeping
    /\ UNCHANGED <<host, incarnation, listen, net, servers, sent, faults, told>>

-----------------------------------------------------------------------------
(* Requests.                                                               *)

RequestPacket(d, seq, id) ==
    [type |-> "REQUEST", host |-> None, dest |-> d, inc |-> incarnation,
     seq |-> seq, id |-> id]

(* srr_process_queued_request for destination d, whose record is now h:    *)
(* the head of its queue is sent, fails to be encrypted, or was aborted.   *)
srr_process_queued_request(d, h) ==
    LET r == Head(h.q)
        seq == h.seq + 1
    IN \/ /\ r.packet
          /\ host' = [host EXCEPT ![d] =
                        [h EXCEPT !.q[1].seq = seq, !.seq = seq, !.tries = 1,
                                  !.status = "AWAITING_RESPONSE"]]
          /\ net' = net \cup {RequestPacket(d, seq, r.id)}
          /\ timer_restart(d, h.zero)
       \/ /\ r.packet /\ r.id \in Encrypted
          /\ host' = [host EXCEPT ![d] =
                        [h EXCEPT !.q[1].packet = FALSE, !.seq = seq,
                                  !.status = "LOCAL_CRYPT_FAILURE",
                                  !.zero = TRUE]]
          /\ timer_restart(d, TRUE)
          /\ UNCHANGED net
       \/ /\ ~r.packet
          /\ host' = [host EXCEPT ![d] = h]
          /\ UNCHANGED <<net, timer_queue>>

(* The next request, if there is one, is sent.                             *)
NextRequest(d, h) ==
    \/ h.q # <<>> /\ srr_process_queued_request(d, h)
    \/ /\ h.q = <<>>
       /\ host' = [host EXCEPT ![d] = h]
       /\ UNCHANGED <<net, timer_queue>>

(* srr_send: srr_enqueue, and off if the request is the only one.          *)
srr_send(d) ==
    LET r == [id |-> sent + 1, packet |-> TRUE, seq |-> 0]
        h == [host[d] EXCEPT !.q = Append(@, r)]
    IN /\ sent + faults < MaxEvents
       /\ sent' = sent + 1
       /\ \/ host[d].q = <<>> /\ srr_process_queued_request(d, h)
          \/ /\ host[d].q # <<>>
             /\ host' = [host EXCEPT ![d] = h]
             /\ UNCHANGED <<net, timer_queue>>
       /\ UNCHANGED <<incarnation, timer, listen, servers, faults, told>>

-----------------------------------------------------------------------------
(* The client dies and starts again, with nothing but a later incarnation. *)

StartAgain ==
    /\ host' = [d \in Dests |-> NewHost]
    /\ incarnation' = incarnation + 1
    /\ timer_queue' = <<>>
    /\ timer' = Sleeping
    /\ listen' = Listening

ClientRestart ==
    /\ Fault
    /\ StartAgain
    /\ UNCHANGED <<net, servers, sent, told>>

-----------------------------------------------------------------------------
(* Retransmission: srr_retry, called by the timer thread.                  *)

\* Mutant: one try too many.
Tried_once_more(h) == h.tries > MaxTries

Tried(h) == h.tries >= MaxTries
Dequeued(h, status) == [h EXCEPT !.q = Tail(@), !.status = status]

\* Mutant: the tries are not counted.
RetrySends_uncounted(d, h) ==
    \/ /\ h.status = "HAVE_RESPONSE"
       /\ UNCHANGED <<host, timer_queue, net>>
    \/ /\ h.status # "HAVE_RESPONSE" /\ ~Tried(h)
       /\ h.q # <<>> /\ Head(h.q).packet
       /\ net' = IF h.status = "AWAITING_RESPONSE"
                 THEN net \cup {RequestPacket(d, Head(h.q).seq, Head(h.q).id)}
                 ELSE net
       /\ timer_start(d, h.zero)
       /\ UNCHANGED host

(* The request is sent again, or was answered in the meantime.             *)
RetrySends(d, h) ==
    \/ /\ h.status = "HAVE_RESPONSE"
       /\ UNCHANGED <<host, timer_queue, net>>
    \/ /\ h.status # "HAVE_RESPONSE" /\ ~Tried(h)
       /\ h.q # <<>> /\ Head(h.q).packet
       /\ host' = [host EXCEPT ![d].tries = @ + 1]
       /\ net' = IF h.status = "AWAITING_RESPONSE"
                 THEN net \cup {RequestPacket(d, Head(h.q).seq, Head(h.q).id)}
                 ELSE net
       /\ timer_start(d, h.zero)

(* The request is dequeued: it was tried often enough, or was aborted.     *)
RetryGivesUp(d, h) ==
    /\ h.status # "HAVE_RESPONSE"
    /\ Tried(h) \/ (h.q # <<>> /\ ~Head(h.q).packet)
    /\ \/ h.q = <<>> /\ UNCHANGED <<host, timer_queue, net>>
       \/ /\ h.q # <<>> /\ ~Head(h.q).packet
          /\ NextRequest(d, Dequeued(h, "INACTIVE"))

srr_retry ==
    LET d == timer.dest IN
    /\ timer.pc = "retry"
    /\ RetrySends(d, host[d]) \/ RetryGivesUp(d, host[d])
    /\ timer' = Sleeping
    /\ UNCHANGED <<incarnation, listen, servers, sent, faults, told>>

\* Mutant: is not marked inactive before the lock is left.
srr_retry_fails_active ==
    LET d == timer.dest
        h == host[d]
    IN /\ timer.pc = "retry"
       /\ h.status # "HAVE_RESPONSE" /\ Tried(h)
       /\ h.q # <<>> /\ Head(h.q).packet
       /\ host' = [host EXCEPT ![d] = Dequeued(h, h.status)]
       /\ timer' = [timer EXCEPT !.pc = "cleanup", !.id = Head(h.q).id]
       /\ UNCHANGED <<incarnation, timer_queue, listen, net, servers, sent,
                      faults, told>>

(* A request that is not aborted fails: the lock is left for srq_cleanup.  *)
srr_retry_fails ==
    LET d == timer.dest
        h == host[d]
    IN /\ timer.pc = "retry"
       /\ h.status # "HAVE_RESPONSE" /\ Tried(h)
       /\ h.q # <<>> /\ Head(h.q).packet
       /\ host' = [host EXCEPT ![d] = Dequeued(h, "INACTIVE")]
       /\ timer' = [timer EXCEPT !.pc = "cleanup", !.id = Head(h.q).id]
       /\ UNCHANGED <<incarnation, timer_queue, listen, net, servers, sent,
                      faults, told>>

(* srq_cleanup(TR_FAILURE), and what follows it under the lock again.      *)
srr_retry_cleanup ==
    /\ timer.pc = "cleanup"
    /\ told' = [told EXCEPT ![timer.id] = @ \cup {"failure"}]
    /\ NextRequest(timer.dest, host[timer.dest])
    /\ timer' = Sleeping
    /\ UNCHANGED <<incarnation, listen, servers, sent, faults>>

(* srr_retry looks at the head of an empty queue: the process dies.        *)
srr_retry_null ==
    /\ timer.pc = "retry"
    /\ host[timer.dest].status # "HAVE_RESPONSE" /\ ~Tried(host[timer.dest])
    /\ host[timer.dest].q = <<>>
    /\ StartAgain
    /\ UNCHANGED <<net, servers, sent, faults, told>>

-----------------------------------------------------------------------------
(* Packets that arrive at the client.                                      *)

\* Mutant: any answer to this incarnation will do.
Current_incarnation(d, p) ==
    p.inc = incarnation /\ host[d].status = "AWAITING_RESPONSE"

(* Packet p is about the request that the record of destination d awaits.  *)
Current(d, p) ==
    /\ p.inc = incarnation /\ p.seq = host[d].seq
    /\ host[d].status = "AWAITING_RESPONSE"

(* srr_handle_response, up to disp_indata_simple.                          *)
srr_handle_response(p) ==
    /\ listen.pc = "idle" /\ p.type = "RESPONSE"
    /\ Current(p.dest, p)
    /\ listen' = [pc |-> "indata", dest |-> p.dest,
                  id |-> Head(host[p.dest].q).id, answer |-> p.id]
    /\ UNCHANGED <<host, incarnation, timer_queue, timer, net, servers, sent,
                   faults, told>>

(* disp_indata_simple gave the answer to the client; the head of the queue *)
(* is dequeued, whatever it is by now.                                     *)
srr_handle_response_done ==
    LET d == listen.dest IN
    /\ listen.pc = "indata"
    /\ told' = [told EXCEPT ![listen.id] = @ \cup {"response"}]
    /\ \/ /\ host[d].q = <<>>
          /\ UNCHANGED <<host, net, timer_queue>>
       \/ /\ host[d].q # <<>>
          /\ NextRequest(d, Dequeued(host[d], "HAVE_RESPONSE"))
    /\ listen' = Listening
    /\ UNCHANGED <<incarnation, timer, servers, sent, faults>>

(* disp_indata_simple failed: the request stays.                           *)
srr_handle_response_refused ==
    /\ listen.pc = "indata"
    /\ listen' = Listening
    /\ UNCHANGED <<host, incarnation, timer_queue, timer, net, servers, sent,
                   faults, told>>

(* srr_handle_crypt_failure: the record is that of the sender.             *)
srr_handle_crypt_failure(p) ==
    LET d == p.host IN
    /\ listen.pc = "idle" /\ p.type = "CRYPT_FAILURE"
    /\ d \in Dests /\ Current(d, p)
    /\ host' = [host EXCEPT ![d].status = "REMOTE_CRYPT_FAILURE",
                            ![d].q[1].packet = FALSE]
    /\ UNCHANGED <<incarnation, timer_queue, timer, listen, net, servers, sent,
                   faults, told>>

-----------------------------------------------------------------------------
(* Servers.                                                                *)

\* Mutant: whatever is not the last request is new.
Newer_different(p, stored) ==
    \/ stored.inc = 0
    \/ stored.inc < p.inc
    \/ stored.inc = p.inc /\ stored.seq # p.seq

Newer(p, stored) ==
    \/ stored.inc = 0
    \/ stored.inc < p.inc
    \/ stored.inc = p.inc /\ stored.seq < p.seq

ResponsePacket(h, d, uid) ==
    [type |-> "RESPONSE", host |-> h, dest |-> d, inc |-> uid.inc,
     seq |-> uid.seq, id |-> uid.id]

(* srr_handle_request at server h.  A new request is executed and its      *)
(* answer kept, unless the answer cannot be encrypted: then nothing is     *)
(* sent or kept.  A duplicate is answered again; an obsolete request is    *)
(* ignored, as is one that the dispatcher declines.                        *)
srr_handle_request(h, p) ==
    LET d == p.dest
        stored == response[h][d]
        uid == [inc |-> p.inc, seq |-> p.seq, id |-> p.id]
    IN /\ p.type = "REQUEST" /\ h \in Reach(d)
       /\ \/ /\ Newer(p, stored)
             /\ executed' = [executed EXCEPT ![h][d] = Append(@, Execution(uid, TRUE))]
             /\ response' = [response EXCEPT ![h][d] = uid]
             /\ net' = net \cup {ResponsePacket(h, d, uid)}
             /\ UNCHANGED faults
          \/ /\ Newer(p, stored) /\ p.id \in Encrypted
             /\ Fault
             /\ executed' = [executed EXCEPT ![h][d] = Append(@, Execution(uid, FALSE))]
             /\ UNCHANGED <<response, net>>
          \/ /\ ~Newer(p, stored)
             /\ stored.inc = p.inc /\ stored.seq = p.seq
             /\ net' = net \cup {ResponsePacket(h, d, stored)}
             /\ UNCHANGED <<response, executed, faults>>
       /\ UNCHANGED client

(* srr_send_crypt_failure: the server cannot decrypt the packet.           *)
srr_send_crypt_failure(h, p) ==
    /\ p.type = "REQUEST" /\ h \in Reach(p.dest) /\ p.id \in Encrypted
    /\ net' = net \cup {[p EXCEPT !.type = "CRYPT_FAILURE", !.host = h]}
    /\ UNCHANGED <<client, servers, faults>>

(* The server starts again with an empty table of host records.            *)
ServerRestart(h) ==
    /\ Fault
    /\ response' = [response EXCEPT ![h] = [d \in Dests |-> Unanswered]]
    /\ executed' = [executed EXCEPT ![h] =
                      [d \in Dests |-> Append(executed[h][d], Restarted)]]
    /\ UNCHANGED <<client, net>>

-----------------------------------------------------------------------------
TimerThread ==
    \/ TimerExpires \/ TimerRemove
    \/ srr_retry \/ srr_retry_fails \/ srr_retry_cleanup \/ srr_retry_null

ListenThread == srr_handle_response_done \/ srr_handle_response_refused

Next ==
    \/ \E d \in Dests : srr_send(d)
    \/ TimerThread
    \/ ListenThread
    \/ \E p \in net : srr_handle_response(p) \/ srr_handle_crypt_failure(p)
    \/ \E h \in Hosts, p \in net :
         srr_handle_request(h, p) \/ srr_send_crypt_failure(h, p)
    \/ ClientRestart
    \/ \E h \in Hosts : ServerRestart(h)

Spec == Init /\ [][Next]_vars

(* The threads of the client run.  Nothing is assumed of the network and   *)
(* of the servers.                                                         *)
FairSpec == Spec /\ WF_vars(TimerThread) /\ WF_vars(ListenThread)

-----------------------------------------------------------------------------
(* Properties.                                                             *)

Requests == 1 .. MaxEvents
Status == {"INACTIVE", "AWAITING_RESPONSE", "HAVE_RESPONSE",
           "LOCAL_CRYPT_FAILURE", "REMOTE_CRYPT_FAILURE"}
Queued == [id : Requests, packet : BOOLEAN, seq : Nat]
Packets == [type : {"REQUEST", "RESPONSE", "CRYPT_FAILURE"},
            host : Hosts \cup {None}, dest : Dests, inc : Nat, seq : Nat,
            id : Requests]
Log == [inc : Nat, seq : Nat, id : 0 .. MaxEvents, kept : BOOLEAN]

(* Every variable has its type.                                            *)
TypeOK ==
    /\ host \in [Dests -> [q : Seq(Queued), status : Status,
                           tries : 0 .. MaxTries, seq : Nat, zero : BOOLEAN]]
    /\ incarnation \in Nat \ {0}
    /\ timer_queue \in Seq(Dests)
    /\ timer \in [pc : {"idle", "expired", "retry", "cleanup"},
                  dest : Dests \cup {None}, id : Nat]
    /\ listen \in [pc : {"idle", "indata"}, dest : Dests \cup {None},
                   id : Nat, answer : Nat]
    /\ net \subseteq Packets
    /\ response \in [Hosts -> [Dests -> [inc : Nat, seq : Nat, id : Nat]]]
    /\ sent \in 0 .. MaxEvents
    /\ faults \in 0 .. MaxEvents
    /\ told \in [Requests -> SUBSET {"response", "failure"}]
    /\ executed \in [Hosts -> [Dests -> Seq(Log)]]

(* While an answer is awaited the head of the queue is the request it is   *)
(* awaited for, not aborted: srr_handle_response, srr_handle_crypt_failure *)
(* and the retransmission of srr_retry dereference it on the strength of   *)
(* the status alone.  (srr_retry has read the head before, to see whether  *)
(* it was aborted, without the status: srr_retry_null.)                    *)
AwaitsHead ==
    \A d \in Dests : host[d].status = "AWAITING_RESPONSE" =>
        /\ host[d].q # <<>>
        /\ Head(host[d].q).packet
        /\ Head(host[d].q).seq = host[d].seq

(* A client is given the answer to its own request, though answers come    *)
(* late and twice, servers forget and clients start again.                 *)
AnswerMatches == listen.pc = "indata" => listen.answer = listen.id

(* From i to j a server's log is of one life.                              *)
OneLife(log, i, j) == \A k \in i .. j : log[k] # Restarted
Earlier(u, v) == u.inc < v.inc \/ (u.inc = v.inc /\ u.seq < v.seq)
Ordered(log) ==
    \A i, j \in 1 .. Len(log) :
        i < j /\ log[i].kept /\ OneLife(log, i, j) =>
            Earlier(log[i], log[j]) /\ log[i].id <= log[j].id

(* What srr_handle_request executes after a request that it has answered,  *)
(* and until the server starts again, was sent and made later: no packet   *)
(* is executed a second time, and none that was given up and arrives late. *)
InOrder == \A h \in Hosts, d \in Dests : Ordered(executed[h][d])

(* "We only call cleanup if the request-response interaction failed."      *)
(* (srr.c)                                                                 *)
CleanupOnlyOnFailure ==
    \A r \in Requests : ~({"response", "failure"} \subseteq told[r])

(* A destination whose requests wait has its timer queued, or srr_retry is *)
(* at it; otherwise nothing but a late answer will ever send them.         *)
Timed(d) == \/ OnQueue(timer_queue, d)
            \/ timer.pc \in {"retry", "cleanup"} /\ timer.dest = d
Stranded(d) == host[d].q # <<>> /\ ~Timed(d)

(* srr_retry calls timer_start for a timer that is queued.                 *)
Relinks(d) == /\ timer.pc = "retry" /\ timer.dest = d
              /\ OnQueue(timer_queue, d)
              /\ timer_start(d, host[d].zero)

(* Whatever srr_send, the two threads and the handlers do, no destination  *)
(* is left with requests and without a timer, but for one case: srr_retry  *)
(* calls timer_start for another destination's timer that is queued.       *)
TimersKept ==
    [][\A d \in Dests : Stranded(d)' =>
         Stranded(d) \/ \E e \in Dests \ {d} : Relinks(e)]_vars

(* A request leaves the queue of its destination at last (answered, given  *)
(* up, aborted or dropped), whatever the network does, unless the timer of *)
(* the destination is lost.                                                *)
Waits(d, r) == \E i \in 1 .. Len(host[d].q) : host[d].q[i].id = r
RequestLeaves ==
    \A d \in Dests, r \in Requests :
        Waits(d, r) ~> (~Waits(d, r) \/ Stranded(d))
=============================================================================
