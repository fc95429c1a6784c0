CONSTANTS
    W = 3
    DivMax = 255
    Controls <- FirmwareControls
    TxWords <- OneWord
    Reprogram = TRUE
SPECIFICATION TimingSpec
PROPERTIES FirstHalfExact
