---------------------------- MODULE MCCardWithdraw ----------------------------
(* Small instances of CardWithdraw. *)
EXTENDS CardWithdraw, TLC

CONSTANTS c1, c2, h1, h2, k1, k2, q1, q2, r1, r2

MCAmount == (h1 :> 1) @@ (h2 :> 2)
MCAmountOne == (h1 :> 1)

Symmetric ==
    Permutations(Cards) \cup Permutations(Requests) \cup Permutations(Taps)
        \cup Permutations(Passes)
===============================================================================
