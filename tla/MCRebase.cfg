\* Two honest clients of one log; kills, lost answers, failing writes, a lost state file, an origin that goes and comes.
SPECIFICATION RebaseSpec
CONSTANTS
    e0 = e0  a1 = a1  a2 = a2
    log = log  other = other  k1 = k1  k2 = k2
    Origins <- MCOrigins
    NoOrigin = NoOrigin
    Heads <- MCHeads
    NoHead = NoHead
    Size <- MCSize
    EmptyHead = e0
    Consistent <- MCConsistent
    Keys = {k1, k2}
    Manual <- NoManual
    ManagedSets <- Feeds
    Submissions <- HonestSubmissions
    Instances = {w1}
    NoInstance = NoInstance
    Callers = {c1, c2}
    NoCaller = NoCaller
    Faults = {"kill", "lose_state", "short_write", "fsync_fail"}
    MaxFaults = 2
    MaxLines = 9
    LogOrigin = log
    LogKey = k1
    Goals <- MCHeads
    MaxLosses = 1
INVARIANTS RebaseTypeOK HonestNeverRefused
PROPERTIES Resyncs ConflictNamesCurrentSize ReleasesExtendCurrent
\* A witness whose state file is not readable stays down for good.
CHECK_DEADLOCK FALSE
