SPECIFICATION ServerSpec
CONSTANTS
    Workers = {w1, w2}
    qcap = 2
    Messages <- MCMessages
CHECK_DEADLOCK FALSE
INVARIANTS
    TypeOK InOnePlace NothingLeftBehind
PROPERTIES
    StopEnds Serves
