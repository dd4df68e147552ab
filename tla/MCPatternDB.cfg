SPECIFICATION MCSpec
CONSTANTS
    Programs = {p1, p2}
    Commands <- MCCommands
    Files = {1, 2}
    Names = {"m"}
    MaxRuns = 4
SYMMETRY MCSymmetry
CHECK_DEADLOCK FALSE
INVARIANTS
    TypeOK PositionsUnique PositionsMatchTraining ToldIsSaved
