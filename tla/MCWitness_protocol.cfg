\* All old sizes, proofs and heads and every rejection; power loss, failing fsyncs, clock and signer.
SPECIFICATION WitnessSpec
CONSTANTS
    e0 = e0  z0 = z0  a1 = a1  a2 = a2  b1 = b1  b2 = b2
    log = log  k1 = k1
    Origins <- OneLog
    NoOrigin = NoOrigin
    Heads <- MCHeads
    NoHead = NoHead
    Size <- MCSize
    EmptyHead = e0
    Consistent <- MCConsistent
    Keys = {k1}
    Manual <- NoManual
    ManagedSets <- AlwaysAllowed
    Submissions <- AllSubmissions
    Instances = {w1}
    NoInstance = NoInstance
    Callers = {c1}
    NoCaller = NoCaller
    Faults = {"fsync_fail", "power_loss", "clock_or_signer"}
    MaxFaults = 2
    MaxLines = 3
INVARIANTS NoConflict NeverServesOlder
PROPERTY EverythingAppendOnly
\* A witness whose state file is not readable stays down for good.
CHECK_DEADLOCK FALSE
