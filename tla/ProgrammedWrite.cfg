SPECIFICATION Spec
CONSTANTS
    SpinHard = 1
    SpinYield = 2
    SpinSoft = 3
    FifoDepth = 2
    Lens = {1, 2, 4}
    MaxCalls = 4
INVARIANTS TypeOK OnlyOwnWordsSent DoneMeansSent LeftoverBounded
PROPERTIES CallReturns ImplementsService
CHECK_DEADLOCK FALSE
