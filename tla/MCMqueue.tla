------------------------------ MODULE MCMqueue ------------------------------
(* Instances of Mqueue for TLC.                                            *)
EXTENDS Mqueue, TLC

CONSTANTS p1, p2, s1, r1, r2

(* r1 serves the first port, r2 the set.                                   *)
OneServerEach == r1 :> {p1} @@ r2 :> {s1}

Symmetry == Permutations(Senders)
=============================================================================
