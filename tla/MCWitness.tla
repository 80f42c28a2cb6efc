------------------------------ MODULE MCWitness ------------------------------
(***************************************************************************)
(* Bounded instances of the witness.  The heads are: the empty tree, a     *)
(* size-0 head with another root, and two logs that fork at size 1.        *)
(***************************************************************************)
EXTENDS WitnessSafety, TLC

CONSTANTS e0, z0, a1, a2, b1, b2, log, k1

MCHeads == {e0, z0, a1, a2, b1, b2}
ForkHeads == {e0, a1, a2, b1}

MCSize == (e0 :> 0) @@ (z0 :> 0) @@ (a1 :> 1) @@ (b1 :> 1) @@ (a2 :> 2) @@ (b2 :> 2)
ForkSize == [h \in ForkHeads |-> MCSize[h]]

MCConsistent ==
    {<<h, h>> : h \in MCHeads} \union {<<e0, h>> : h \in MCHeads \ {z0}}
      \union {<<a1, a2>>, <<b1, b2>>}
ForkConsistent == MCConsistent \intersect (ForkHeads \X ForkHeads)

\* A well-formed, well-signed request.
Good(o, h, old, proof) ==
    [parses |-> TRUE, origin |-> o, head |-> h, old |-> old, proof |-> proof,
     signers |-> {k1}, forged |-> {}]

\* The steps of an honest log and of one that forks.
Growth(o, h) == {Good(o, h, 0, "empty"), Good(o, h, MCSize[h], "empty")}
ForkSubmissions ==
    UNION {Growth(log, h) : h \in ForkHeads} \union {Good(log, a2, 1, "valid")}

OneLog == {log}
NoManual == [o \in OneLog |-> {}]
AlwaysAllowed == {[o \in OneLog |-> {k1}]}

Signed(s, signers, forged) == [s EXCEPT !.signers = signers, !.forged = forged]

\* Every old size and proof for every head, and the bodies that are refused
\* before the store is reached.
AllSubmissions ==
    {Good(log, h, old, proof) : h \in MCHeads, old \in 0..2, proof \in {"empty", "valid", "bogus"}}
      \union {[Good(log, a1, 0, "empty") EXCEPT !.parses = FALSE],
              Signed(Good(log, a1, 0, "empty"), {}, {}),
              Signed(Good(log, a1, 0, "empty"), {k1}, {k1})}

\* The witness of an operator who loses the state file.
LosingSpec == WitnessInit /\ [][WitnessNext \/ StateLost]_witnessVars

Symmetry == Permutations(Instances) \union Permutations(Callers)
=============================================================================
