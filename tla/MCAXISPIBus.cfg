CONSTANTS
    W = 2
    DivMax = 3
    Writes <- SomeWrites
    ReadAddrs = {2}
SPECIFICATION Spec
INVARIANTS TypeOK PollTellsTheTruth DamageContained
PROPERTIES AnswerStands
