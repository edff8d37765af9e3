--------------------------- MODULE MCClientSession ---------------------------
(* ClientSession for TLC: connections whose names are all different, and       *)
(* connections of which two have the same one.                                 *)
EXTENDS ClientSession

CONSTANTS k1, k2, k3

Distinct == [k \in Conns |-> k]
Reused == [k \in Conns |-> IF k = k2 THEN k1 ELSE k]
=============================================================================
