--------------------------- MODULE MCMSSemaphore ---------------------------
(* Instances of MSSemaphore for TLC.                                       *)
EXTENDS MSSemaphore, TLC

Symmetry == Permutations(Threads)
=============================================================================
