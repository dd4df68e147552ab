SPECIFICATION Spec
CONSTANTS
    Workers = {w1, w2}
    RequestQueues <- MCTwoWorkers
    Trainers <- MCTrainers
    Scenes = {1}
    Patterns = {10}
    cacheMaxSize = 2
    life = 1
    loadingTimeWeight = 2
    discardLessValuable = TRUE
    scenesCacheMaxSize = 1
    slife = 1
    LoadSeconds = {0, 1}
    UndefinedLives <- MCUndefinedLives
    MaxLife = 100
CHECK_DEADLOCK FALSE
INVARIANT StatusAddsUp
