\* One forking log: kills inside and between writes, power loss, failing fsyncs.
SPECIFICATION WitnessSpec
CONSTANTS
    e0 = e0  z0 = z0  a1 = a1  a2 = a2  b1 = b1  b2 = b2
    log = log  k1 = k1
    Origins <- OneLog
    NoOrigin = NoOrigin
    Heads <- ForkHeads
    NoHead = NoHead
    Size <- ForkSize
    EmptyHead = e0
    Consistent <- ForkConsistent
    Keys = {k1}
    Manual <- NoManual
    ManagedSets <- AlwaysAllowed
    Submissions <- ForkSubmissions
    Instances = {w1, w2}
    NoInstance = NoInstance
    Callers = {c1, c2}
    NoCaller = NoCaller
    Faults = {"kill", "tear", "power_loss", "fsync_fail"}
    MaxFaults = 3
    MaxLines = 4
SYMMETRY Symmetry
INVARIANTS WitnessTypeOK NoConflict CosignedIsDurable NeverResumesBehind
PROPERTIES ResponsesAppendOnly ReleasesExtendCurrent
\* A witness whose state file is not readable stays down for good.
CHECK_DEADLOCK FALSE
