SPECIFICATION Spec
CONSTANTS
    SpinHard = 1
    SpinYield = 2
    SpinSoft = 3
    FifoDepth = 2
    Lens = {1, 2, 4}
    Formats <- AllFormats
    InitRawSize = 2
    MaxCalls = 3
INVARIANTS TypeOK FreshWhenQuiet CleanUntilTimeout WithinRawBuffer DeliversRequest
PROPERTIES CallReturns ImplementsService
