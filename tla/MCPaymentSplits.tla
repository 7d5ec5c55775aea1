--------------------------- MODULE MCPaymentSplits ---------------------------
(* Small instances of PaymentSplits for TLC. *)
EXTENDS PaymentSplits, TLC

Symmetric == Permutations(Tasks)

(* No tip; percentages with an amount of 0 among them and a remainder; and what *)
(* is stored for three recipients without shares: the sat goes out twice, and   *)
(* the negative remainder is skipped.                                        *)
StoredSplits ==
    {[tip |-> 0, shares |-> <<>>], [tip |-> 2, shares |-> <<50, 25, 25>>],
     [tip |-> 1, shares |-> <<100, 100, 100>>]}
===============================================================================
