SPECIFICATION Spec
CONSTANTS
    SpinHard = 1
    SpinYield = 2
    SpinSoft = 3
    FifoDepth = 2
    Lens = {1, 3}
    Formats <- PlainFormat
    InitRawSize = 2
    MaxCalls = 3
INVARIANT FullCountMeansTransferDone
