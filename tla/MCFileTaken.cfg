SPECIFICATION Spec
CONSTANTS
    Programs <- MCPrograms
    Trainers <- MCTrainers
    Singles <- MCSingles
    IdOf <- MCIdOf
    MaxLoads = 3
    MaxRestarts = 1
INVARIANT FilesStay
CHECK_DEADLOCK FALSE
