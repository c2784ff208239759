------------------------------- MODULE MCSrr -------------------------------
(* Instances of Srr for TLC.                                               *)
EXTENDS Srr, TLC

(* The servers that a broadcast reaches are alike.                         *)
Symmetry == Permutations(Hosts)
=============================================================================
