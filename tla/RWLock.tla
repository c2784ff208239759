------------------------------- MODULE RWLock -------------------------------
(***************************************************************************)
(* What a read/write lock with upgrades promises its clients: shared read  *)
(* holds, exclusive write holds, and an upgrade that lets nobody write     *)
(* between the read hold and the write hold it becomes.  No queues, no     *)
(* bits, no sleeping: only which holds each thread has.                    *)
(***************************************************************************)
EXTENDS Naturals

CONSTANT Threads

VARIABLES rd,    \* number of read holds of each thread
          wr     \* number of write holds of each thread

rwvars == <<rd, wr>>

NoOtherWriter(t) == \A u \in Threads \ {t} : wr[u] = 0
NoOtherHolder(t) == \A u \in Threads \ {t} : wr[u] = 0 /\ rd[u] = 0

Init == rd = [t \in Threads |-> 0] /\ wr = [t \in Threads |-> 0]

AcquireRead(t) ==
    /\ NoOtherWriter(t)
    /\ rd' = [rd EXCEPT ![t] = @ + 1]
    /\ UNCHANGED wr

AcquireWrite(t) ==
    /\ NoOtherHolder(t)
    /\ wr' = [wr EXCEPT ![t] = @ + 1]
    /\ UNCHANGED rd

ReleaseRead(t) ==
    /\ rd[t] > 0
    /\ rd' = [rd EXCEPT ![t] = @ - 1]
    /\ UNCHANGED wr

ReleaseWrite(t) ==
    /\ wr[t] > 0
    /\ wr' = [wr EXCEPT ![t] = @ - 1]
    /\ UNCHANGED rd

Upgrade(t) ==
    /\ rd[t] > 0
    /\ NoOtherHolder(t)
    /\ rd' = [rd EXCEPT ![t] = @ - 1]
    /\ wr' = [wr EXCEPT ![t] = @ + 1]

Downgrade(t) ==
    /\ wr[t] > 0
    /\ NoOtherWriter(t)
    /\ rd' = [rd EXCEPT ![t] = @ + 1]
    /\ wr' = [wr EXCEPT ![t] = @ - 1]

Next == \E t \in Threads :
           \/ AcquireRead(t) \/ AcquireWrite(t)
           \/ ReleaseRead(t) \/ ReleaseWrite(t)
           \/ Upgrade(t) \/ Downgrade(t)

Spec == Init /\ [][Next]_rwvars
=============================================================================
