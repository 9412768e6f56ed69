----------------------------- MODULE MCMSEvent -----------------------------
(* Instances of MSEvent, and of EventWakeUps over it, for TLC.             *)
EXTENDS EventWakeUps, TLC

Symmetry ==
    Permutations(Setters) \cup Permutations(Resetters) \cup Permutations(Waiters)
=============================================================================
