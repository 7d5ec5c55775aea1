------------------------------ MODULE MCVoucher ------------------------------
(* Small instances of Voucher. *)
EXTENDS Voucher, TLC

CONSTANTS v1, v2, v3, r1, r2, r3

MCAmount == [v \in Vouchers |-> 1]

Symmetric == Permutations(Vouchers) \cup Permutations(Callbacks)
===============================================================================
