--------------------------- MODULE MCComplexLock ---------------------------
(* Instances of ComplexLock for TLC.                                       *)
EXTENDS ComplexLock, TLC

Symmetry == Permutations(Threads)
=============================================================================
