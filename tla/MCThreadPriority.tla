------------------------- MODULE MCThreadPriority -------------------------
(* Instances of ThreadPriority for TLC.                                    *)
EXTENDS ThreadPriority, TLC

CONSTANTS h1, h2, k1, k2

Symmetry == Permutations(Callers) \cup Permutations(Threads)
=============================================================================
