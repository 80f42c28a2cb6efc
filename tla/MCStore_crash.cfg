\* Kills inside and between writes, power loss, failing fsyncs: two processes, two callers.
SPECIFICATION StoreSpec
CONSTANTS
    Origins = {o1, o2}
    NoOrigin = NoOrigin
    Heads = {h1, h2}
    NoHead = NoHead
    Instances = {w1, w2}
    NoInstance = NoInstance
    Callers = {c1, c2}
    NoCaller = NoCaller
    Faults = {"kill", "tear", "power_loss", "fsync_fail"}
    MaxFaults = 3
    MaxLines = 4
SYMMETRY Symmetry
INVARIANTS StoreTypeOK StoredSurvives RunningIsCurrent SingleWriter AlwaysReopens
PROPERTY CheckedStateHolds
\* A witness whose state file is not readable stays down for good.
CHECK_DEADLOCK FALSE
