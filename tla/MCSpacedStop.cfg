SPECIFICATION Spec
CONSTANTS
    Poller = poller
    Getters = {poller}
    Workers = {w1}
    qcap = 1
    Posts <- MCSpacedStop
    Messages <- MCMessages
    Keys <- MCKeys
    overridingKey <- MCOverridingKey
    Values <- MCValues
    NoValue = none
    MaxPuts = 9
    IntMax = 9
CHECK_DEADLOCK FALSE
PROPERTIES
    ListenerStops
