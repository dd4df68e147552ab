SPECIFICATION Spec
CONSTANTS
    Programs <- MCPrograms
    Workers = {w1}
    RequestQueues <- MCPairs
    NumberOf <- MCNumberOf
    Images <- MCImages
INVARIANTS ErrorIsOfThisRequest SelectedAnswers
CHECK_DEADLOCK FALSE
