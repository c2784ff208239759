------------------------------- MODULE Queue -------------------------------
(***************************************************************************)
(* The queues of kern/queue.h and ipc/ipc_thread.c, as sequences.          *)
(***************************************************************************)
EXTENDS Naturals, Sequences, FiniteSets

\* The first and the j-th of a set of positions.
FirstOf(I) == CHOOSE i \in I : \A k \in I : i <= k
Nth(K, j) == CHOOSE i \in K : Cardinality({k \in K : k <= i}) = j

\* q without the entries at the positions I.
Without(q, I) ==
    LET kept == DOMAIN q \ I
    IN  [j \in 1 .. Cardinality(kept) |-> q[Nth(kept, j)]]

\* q without the element x: ipc_thread_rmqueue.
Unlinked(q, x) == Without(q, {i \in DOMAIN q : q[i] = x})

Members(q) == {q[i] : i \in DOMAIN q}
=============================================================================
