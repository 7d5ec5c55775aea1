----------------------------- MODULE MCCardTopUp -----------------------------
(* Small instances of CardTopUp. *)
EXTENDS CardTopUp, TLC

CONSTANTS c1, c2, h1, h2, w1, w2, w3

MCWorth == [h \in Hashes |-> IF h = h1 THEN 1 ELSE 2]

Symmetric == Permutations(Workers)
===============================================================================
