CONSTANTS
    W = 8
    DivMax = 7
    Polarities = {0, 1}
    CPHA = 0
    Divs = {2, 4}
    TxWords <- TwoWords
    Replies <- SlaveWords
SPECIFICATION Spec
INVARIANTS TypeOK MasterGotReply SlaveGotWord
PROPERTIES TransferSpec
