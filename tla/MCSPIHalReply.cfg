CONSTANTS
    W = 8
    DivMax = 255
    Divs = {4}
    Data = {166, 0}
    Replies = {77, 178}
    MaxGap = 3
SPECIFICATION Spec
INVARIANTS ExecuteReturnsReply
