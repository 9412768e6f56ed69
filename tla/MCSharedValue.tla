--------------------------- MODULE MCSharedValue ---------------------------
(* Instances of SharedValue for TLC.                                       *)
EXTENDS SharedValue, TLC

CONSTANTS o1, o2, o3, c1, c2, t1, t2

Symmetry == Permutations(Objects) \cup Permutations(Cells) \cup Permutations(Threads)
=============================================================================
