\* A process dies inside write_all, between the bytes of an em dash.
SPECIFICATION StoreSpec
CONSTANTS
    Origins = {o1}
    NoOrigin = NoOrigin
    Heads = {h1, h2}
    NoHead = NoHead
    Instances = {w1}
    NoInstance = NoInstance
    Callers = {c1, c2}
    NoCaller = NoCaller
    Faults = {"kill", "tear"}
    MaxFaults = 1
    MaxLines = 3
INVARIANT RefusedOnlyForCorruption
\* A witness whose state file is not readable stays down for good.
CHECK_DEADLOCK FALSE
