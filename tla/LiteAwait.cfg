SPECIFICATION Spec
CONSTANTS
    FifoDepth = 2
    SpinLimit = 1
    Lens = {1, 4}
    MaxCalls = 3
INVARIANT PushFitsFifo
PROPERTY ImplementsService
CHECK_DEADLOCK FALSE
