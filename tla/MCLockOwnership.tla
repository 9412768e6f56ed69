--------------------------- MODULE MCLockOwnership ---------------------------
(* Instances of LockOwnership for TLC.                                     *)
EXTENDS LockOwnership, TLC

Symmetry == Permutations(Threads)
=============================================================================
