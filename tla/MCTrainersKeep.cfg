SPECIFICATION MCSpec
CONSTANTS
    Programs = {p1}
    Commands <- MCCommands
    Files = {1, 2}
    Names = {"m"}
    MaxRuns = 4
CHECK_DEADLOCK FALSE
PROPERTY
    TrainersKeepPatterns
INVARIANT
    PositionsMatchAnyTraining
