--------------------------- MODULE MCScopedLock ---------------------------
(* Instances of ScopedLock for TLC.                                        *)
EXTENDS ScopedLock, TLC

CONSTANTS t1, t2, s1, s2

Symmetry == Permutations(Threads) \cup Permutations(Slots)
=============================================================================
