-------------------------- MODULE MCCardLifecycle --------------------------
(* Small instances of CardLifecycle for TLC. *)
EXTENDS CardLifecycle, TLC

Symmetric == Permutations(Tasks) \cup Permutations(Links) \cup Permutations(Owners)
=============================================================================
