----------------------------- MODULE MCDiscovery -----------------------------
(* Bounded instances of discovery: a log of the operator's, and two relayed    *)
(* ones that come, go and change keys.                                         *)
EXTENDS Discovery, TLC

CONSTANTS own, x, y, k1, k2

MCOrigins == {own, x, y}
Pinned == (own :> {k1}) @@ (x :> {}) @@ (y :> {})
OnlyX  == (own :> {}) @@ (x :> {k1}) @@ (y :> {})
OnlyY  == (own :> {k2}) @@ (x :> {}) @@ (y :> {k1})
Rotated == (own :> {}) @@ (x :> {k2}) @@ (y :> {})

Sets == {OnlyX, OnlyY, Rotated}

\* The poller or the timer on a feed that changes, breaks and changes back.
Following ==
    [setup : {{"poller"}, {"timer"}}, sets : {Sets},
     faults : {{"feed_down", "disk_full", "file_lost"}}, maxFaults : {2}, maxChanges : {3}]

\* The poller in a witness that dies anywhere, on a feed that has settled.
Crashing ==
    [setup : {{"poller"}}, sets : {Sets},
     faults : {{"kill", "feed_down", "disk_full", "etag_lost", "file_lost"}},
     maxFaults : {3}, maxChanges : {0}]

\* The poller or the timer on a machine that goes down.
GoingDown ==
    [setup : {{"poller"}, {"timer"}}, sets : {{OnlyX, OnlyY}},
     faults : {{"power_loss", "disk_full"}}, maxFaults : {2}, maxChanges : {2}]

\* The poller and the timer at once.
Racing ==
    [setup : {{"poller", "timer"}}, sets : {{OnlyX, OnlyY}},
     faults : {{"kill", "disk_full"}}, maxFaults : {2}, maxChanges : {1}]

MCScenarios == Following \union Crashing \union GoingDown \union Racing
=============================================================================
