------------------------------- MODULE MCKeygen -------------------------------
(* Bounded instances of key generation. *)
EXTENDS Keygen, TLC

Symmetry == Permutations(Runs)
=============================================================================
