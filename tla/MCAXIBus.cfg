CONSTANTS
    Lanes = {0, 1}
    Bytes = {0, 1}
    Writes <- SomeWrites
    ReadAddrs = {0, 2, 3}
    Statuses <- SomeStatuses
    RxWords <- SomeRx
    MaxReads = 1
SPECIFICATION FairSpec
INVARIANTS TypeOK WriteAnswersMatch ReadsAnswered
PROPERTIES RegistersSpec Answered
