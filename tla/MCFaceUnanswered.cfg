SPECIFICATION FaceSpec
CONSTANTS
    Poller = poller
    Getters = {poller}
    Workers = {w1, w2}
    qcap = 1
    Posts <- MCPosts
    Messages <- MCMessages
    Keys <- MCKeys
    overridingKey <- MCOverridingKey
    Values <- MCValues
    NoValue = none
    MaxPuts = 9
    IntMax = 9
CHECK_DEADLOCK FALSE
PROPERTIES
    AllAnswered
