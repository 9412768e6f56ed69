-------------------------- MODULE MCWorkerThread --------------------------
(* The Thread class with its owner.                                       *)
EXTENDS ExitCodes

CONSTANT c1  (* the owner *)
=============================================================================
