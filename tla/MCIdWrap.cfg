SPECIFICATION Spec
CONSTANTS
    Poller = poller
    Getters = {poller}
    Workers = {w1}
    qcap = 1
    Posts <- MCGoodPosts
    Messages <- MCMessages
    Keys <- MCKeys
    overridingKey <- MCOverridingKey
    Values <- MCValues
    NoValue = none
    MaxPuts = 9
    IntMax = 1
CHECK_DEADLOCK FALSE
INVARIANTS
    OwnAnswer
