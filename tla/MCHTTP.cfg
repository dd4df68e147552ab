SPECIFICATION Spec
CONSTANTS
    Poller = poller
    Getters = {poller}
    Workers = {w1, w2}
    qcap = 1
    Posts <- MCPosts
    Messages <- MCMessages
    Keys <- MCKeys
    overridingKey <- MCOverridingKey
    Values <- MCValues
    NoValue = none
    MaxPuts = 9
    IntMax = 1
CHECK_DEADLOCK FALSE
INVARIANTS
    HTTPTypeOK NoLostWakeup ErrorOnce
PROPERTIES
    AllAnswered Shutdown ListenerStops
