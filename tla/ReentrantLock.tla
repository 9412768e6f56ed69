--------------------------- MODULE ReentrantLock ---------------------------
(***************************************************************************)
(* What scoped locks promise: the scopes that hold the lock at one time    *)
(* all belong to one thread.                                               *)
(***************************************************************************)
CONSTANTS Threads, Slots  (* a scope is a thread and a place on its stack   *)

VARIABLE held  (* the scopes that hold the lock                             *)

Init == held = {}

Take(t, s) ==
    /\ <<t, s>> \notin held /\ held \subseteq {t} \X Slots
    /\ held' = held \cup {<<t, s>>}

Drop(t, s) == <<t, s>> \in held /\ held' = held \ {<<t, s>>}

Next == \E t \in Threads, s \in Slots : Take(t, s) \/ Drop(t, s)

Spec == Init /\ [][Next]_held
=============================================================================
