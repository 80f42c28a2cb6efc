------------------------------- MODULE MCStore -------------------------------
(* Bounded instances of the store: interchangeable processes, callers, heads. *)
EXTENDS StoreSafety, TLC

Symmetry == Permutations(Instances) \union Permutations(Callers)
              \union Permutations(Heads) \union Permutations(Origins)
=============================================================================
