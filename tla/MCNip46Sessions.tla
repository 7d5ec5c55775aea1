-------------------------- MODULE MCNip46Sessions --------------------------
(* A small instance of Nip46Sessions for TLC. *)
EXTENDS Nip46Sessions, TLC

CONSTANTS s1, s2, ip1
Clients == (s1 :> ip1) @@ (s2 :> ip1)
=============================================================================
