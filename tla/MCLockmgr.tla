----------------------------- MODULE MCLockmgr -----------------------------
(* Instances of Lockmgr for TLC.                                           *)
EXTENDS Lockmgr, TLC

Symmetry == Permutations(Threads)
=============================================================================
