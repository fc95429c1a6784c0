CONSTANTS
    W = 3
    DivMax = 3
    Controls <- AllControls
    TxWords <- OneWord
    Reprogram = FALSE
SPECIFICATION TimingSpec
INVARIANTS FrameBounded
PROPERTIES HalfPeriodsExact FirstHalfExact
