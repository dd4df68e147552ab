SPECIFICATION Spec
CONSTANTS
    Programs <- MCPrograms
    Workers = {w1, w2}
    RequestQueues <- MCQueues
    NumberOf <- MCNumberOf
    Images <- MCImages
SYMMETRY MCSymmetry
INVARIANTS TypeOK TextsAreTrue OutputIsOwn
CHECK_DEADLOCK FALSE
