CONSTANTS
    W = 8
    DivMax = 255
    TimeoutLimit = 200
    Items <- SomeItems
SPECIFICATION FairSpec
INVARIANTS TypeOK ScoreboardPasses NoTimeout EveryItemChecked
PROPERTIES ItemsComplete
