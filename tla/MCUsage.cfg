SPECIFICATION Spec
CONSTANTS
    Programs <- MCPrograms
    Workers = {w1, w2}
    RequestQueues <- MCUsage
    NumberOf <- MCNumberOf
    Images <- MCImages
INVARIANTS StaysUp
CHECK_DEADLOCK FALSE
