SPECIFICATION FairSpec
CONSTANTS
    Programs <- MCPrograms
    Trainers <- MCTrainers
    Singles <- MCSingles
    IdOf <- MCIdOf
    MaxLoads = 3
    MaxRestarts = 1
INVARIANTS GivesWhatWasAsked LossNeedsPending NothingLeftBehind
PROPERTY Joins
CHECK_DEADLOCK FALSE
