\* The poller, the timer, both: a feed that changes, breaks and changes back, crashes, failing writes, power loss.
SPECIFICATION DiscoverySpec
CONSTANTS
    own = own  x = x  y = y  k1 = k1  k2 = k2
    Origins <- MCOrigins
    Keys = {k1, k2}
    Manual <- Pinned
    FeedSets <- Sets
    Bad = Bad
    NoFile = NoFile
    Corrupt = Corrupt
    NoTag = NoTag
    Poller = poller
    OneShots = {s1}
    Scenarios <- MCScenarios
INVARIANTS DiscoveryTypeOK ManagedWasOffered MemoryMatchesFile OnlyVetted
PROPERTIES AllowlistFollows NotModifiedMeansCurrent
\* A feed that has settled and syncs that nobody runs any more: nothing is left to do.
CHECK_DEADLOCK FALSE
