------------------------- MODULE MCHandleRegistry -------------------------
(* Instances of HandleRegistry for TLC.                                    *)
EXTENDS HandleRegistry, TLC

CONSTANTS p, q, h1, h2, h3, n1, n2
=============================================================================
