\* Writes that fail part-way, failing fsyncs, kills, a state file that is lost: two callers.
SPECIFICATION StoreSpec
CONSTANTS
    Origins = {o1, o2}
    NoOrigin = NoOrigin
    Heads = {h1, h2}
    NoHead = NoHead
    Instances = {w1}
    NoInstance = NoInstance
    Callers = {c1, c2}
    NoCaller = NoCaller
    Faults = {"kill", "fsync_fail", "short_write", "lose_state"}
    MaxFaults = 3
    MaxLines = 4
SYMMETRY Symmetry
INVARIANT LosesOneAtMost
\* A witness whose state file is not readable stays down for good.
CHECK_DEADLOCK FALSE
