------------------------------ MODULE MCRebase -------------------------------
(* Bounded instances of honest clients: an empty tree and two heads after it. *)
EXTENDS Rebase, TLC

CONSTANTS e0, a1, a2, log, other, k1, k2

MCHeads == {e0, a1, a2}
MCSize == (e0 :> 0) @@ (a1 :> 1) @@ (a2 :> 2)
MCConsistent == {<<g, h>> \in MCHeads \X MCHeads : MCSize[g] <= MCSize[h]}

MCOrigins == {log, other}
NoManual == [o \in MCOrigins |-> {}]

\* The feed lists the log, or only another one.
Feeds == {(log :> {k1}) @@ (other :> {}), (log :> {}) @@ (other :> {k2})}

HonestSubmissions ==
    {[parses |-> TRUE, origin |-> log, head |-> h, old |-> old, proof |-> proof,
      signers |-> {k1}, forged |-> {}] :
        h \in MCHeads, old \in 0..2, proof \in {"empty", "valid"}}
=============================================================================
