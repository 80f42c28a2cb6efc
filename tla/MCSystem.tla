------------------------------ MODULE MCSystem -------------------------------
(* Bounded instances of the whole: a relayed log that changes keys and goes, and *)
(* one of the operator's that the feed tries to take over.                       *)
EXTENDS System, TLC

CONSTANTS e0, a1, a2, b1, log, own, k1, k2

MCHeads == {e0, a1, a2, b1}
MCSize == (e0 :> 0) @@ (a1 :> 1) @@ (b1 :> 1) @@ (a2 :> 2)
MCConsistent ==
    {<<h, h>> : h \in MCHeads} \union {<<e0, h>> : h \in MCHeads} \union {<<a1, a2>>}

MCOrigins == {log, own}
Pinned   == (log :> {}) @@ (own :> {k2})
Relayed  == (log :> {k1}) @@ (own :> {})
Rotated  == (log :> {k2}) @@ (own :> {k1})
Dropped  == (log :> {}) @@ (own :> {k1})
Sets     == {Relayed, Rotated, Dropped}

Nothing  == [o \in MCOrigins |-> {}]
AllSets  == Sets \union {Nothing}

Body(o, h, old, proof, signers, forged) ==
    [parses |-> TRUE, origin |-> o, head |-> h, old |-> old, proof |-> proof,
     signers |-> signers, forged |-> forged]
MCSubmissions ==
    {Body(log, a1, 0, "empty", {k1}, {}), Body(log, b1, 0, "empty", {k2}, {}),
     Body(log, a2, 1, "valid", {k2}, {}), Body(own, b1, 0, "empty", {k1}, {})}

\* The poller, on a feed that changes and with a managed file that may get lost.
Following ==
    [setup : {{"poller"}}, sets : {Sets},
     faults : {{"file_lost"}}, maxFaults : {1}, maxChanges : {1}]

\* The timer with its restarts, on the same feed.
Restarting ==
    [setup : {{"timer"}}, sets : {Sets},
     faults : {{}}, maxFaults : {1}, maxChanges : {1}]

\* The poller in a process that dies anywhere.
Crashing ==
    [setup : {{"poller"}}, sets : {Sets}, faults : {{"kill"}}, maxFaults : {1}, maxChanges : {0}]

MCScenarios == Following \union Restarting \union Crashing
=============================================================================
