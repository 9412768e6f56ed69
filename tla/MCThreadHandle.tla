-------------------------- MODULE MCThreadHandle --------------------------
(* The thread HANDLE with a controller and another thread that waits on it. *)
EXTENDS ThreadHandle

CONSTANTS c1, c2  (* the callers *)
=============================================================================
