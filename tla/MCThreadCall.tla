---------------------------- MODULE MCThreadCall ----------------------------
(* Instances of ThreadCall for TLC.                                        *)
EXTENDS ThreadCall, TLC

Symmetry == Permutations(Internal) \cup Permutations(External)
              \cup Permutations(Jobs)
=============================================================================
