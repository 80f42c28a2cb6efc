\* Requests on the allowlist that poller or timer bring from the feed, crashes and restarts between.
SPECIFICATION SystemSpec
CONSTANTS
    e0 = e0  a1 = a1  a2 = a2  b1 = b1
    log = log  own = own  k1 = k1  k2 = k2
    Origins <- MCOrigins
    NoOrigin = NoOrigin
    Heads <- MCHeads
    NoHead = NoHead
    Size <- MCSize
    EmptyHead = e0
    Consistent <- MCConsistent
    Keys = {k1, k2}
    Manual <- Pinned
    ManagedSets <- AllSets
    Submissions <- MCSubmissions
    Instances = {w1}
    TheWitness = w1
    NoInstance = NoInstance
    Callers = {c1}
    NoCaller = NoCaller
    Faults = {"kill", "tear", "fsync_fail"}
    MaxFaults = 1
    MaxLines = 2
    FeedSets <- Sets
    Bad = Bad
    NoFile = NoFile
    Corrupt = Corrupt
    NoTag = NoTag
    Poller = poller
    OneShots = {s1}
    Scenarios <- MCScenarios
INVARIANTS SystemTypeOK OnlyOfferedCosigned NeverServesOlder
PROPERTY RevocationTakesHold
\* A feed that has settled and a witness whose file is not readable: nothing is left to do.
CHECK_DEADLOCK FALSE
