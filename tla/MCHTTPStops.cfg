SPECIFICATION Spec
CONSTANTS
    Poller = poller
    Getters = {poller}
    Workers = {w1, w2}
    qcap = 1
    Posts <- MCAllPosts
    Messages <- MCMessages
    Keys <- MCKeys
    overridingKey <- MCOverridingKey
    Values <- MCValues
    NoValue = none
    MaxPuts = 9
    IntMax = 9
CHECK_DEADLOCK FALSE
INVARIANTS
    OwnAnswer OneInFlight NoneStranded
