SPECIFICATION MCSpec
CONSTANTS
    Trainers <- MCTrainers
    Scenes <- MCNone
    Patterns = {10}
    cacheMaxSize = 0
    life = 1
    loadingTimeWeight = 2
    discardLessValuable = TRUE
    scenesCacheMaxSize = 2
    slife = 2
    LoadSeconds = {0, 1}
    UndefinedLives <- MCUndefinedLives
    MaxLife = 3
INVARIANT WithinCacheSize
