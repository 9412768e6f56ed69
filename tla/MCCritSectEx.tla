---------------------------- MODULE MCCritSectEx ----------------------------
(* Instances of CritSectEx for TLC.                                        *)
EXTENDS CritSectEx, TLC

Symmetry == Permutations(Threads)
=============================================================================
