------------------------------ MODULE PortFifo ------------------------------
(***************************************************************************)
(* What Mach message passing promises of a port: a first-in first-out     *)
(* channel.  A message that is accepted is delivered, in its turn, into    *)
(* the hands of one receiver, or is destroyed with the port; the sequence  *)
(* number of the port counts its deliveries.  Nothing is said of queues,   *)
(* port sets, limits or sleeping threads.                                  *)
(***************************************************************************)
EXTENDS Queue

CONSTANTS Ports, Messages

VARIABLES
    chan,    \* chan[p]: the messages accepted and not delivered, oldest first
    hand,    \* hand[p]: the messages delivered and not yet accounted for
    seqno,   \* seqno[p]: the deliveries since the number was last reset
    alive    \* the ports that are not dead

vars == <<chan, hand, seqno, alive>>

Init == /\ chan = [p \in Ports |-> <<>>]
        /\ hand = [p \in Ports |-> {}]
        /\ seqno = [p \in Ports |-> 0]
        /\ alive = Ports

(* At most one message is accepted, which then waits or is in a hand, and  *)
(* the k oldest ones are delivered.                                        *)
Transfer(p) ==
    /\ p \in alive
    /\ \E new \in {<<>>} \cup {<<m>> : m \in Members(chan'[p]) \cup hand'[p]} :
         LET all == chan[p] \o new IN
         \E k \in 0 .. Len(all) :
           /\ chan' = [chan EXCEPT ![p] = SubSeq(all, k + 1, Len(all))]
           /\ hand' = [hand EXCEPT ![p] = @ \cup Members(SubSeq(all, 1, k))]
           /\ seqno' = [seqno EXCEPT ![p] = @ + k]
           /\ \A i \in 1 .. Len(new) :
                /\ new[i] \in Messages /\ new[i].port = p
                /\ new[i] \notin Members(chan[p]) \cup hand[p]
    /\ UNCHANGED alive

(* The receiver of a message accounts for it.                              *)
Account(p) ==
    /\ \E m \in hand[p] : hand' = [hand EXCEPT ![p] = @ \ {m}]
    /\ UNCHANGED <<chan, seqno, alive>>

(* The sequence number starts again, and the port may die.                 *)
Reset(p) ==
    /\ p \in alive
    /\ seqno' = [seqno EXCEPT ![p] = 0]
    /\ \/ UNCHANGED <<chan, alive>>
       \/ /\ alive' = alive \ {p}
          /\ chan' = [chan EXCEPT ![p] = <<>>]
    /\ UNCHANGED hand

Next == \E p \in Ports : Transfer(p) \/ Account(p) \/ Reset(p)

Spec == Init /\ [][Next]_vars
=============================================================================
