--------------------------- MODULE MCCardLimits ---------------------------
(* A small instance of CardLimits for TLC. *)
EXTENDS CardLimits, TLC

CONSTANTS q1, q2, q3
Prices == (q1 :> 1) @@ (q2 :> 1) @@ (q3 :> 2)
Symmetric == Permutations({q1, q2})
=============================================================================
