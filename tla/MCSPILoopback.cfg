CONSTANTS
    W = 3
    DivMax = 1
    Controls <- AllControls
    TxWords <- SmallTxWords
SPECIFICATION FairSpec
INVARIANTS TypeOK EchoIntegrity FrameClocking FrameInv
PROPERTIES TransferSpec FrameEnds
