SPECIFICATION Spec
CONSTANTS
    SpinHard = 1
    SpinYield = 2
    SpinSoft = 3
    Lens = {1, 2}
    Bases = {0}
    AddrSpace = 3
    MaxCalls = 2
PROPERTY WriteReturns
CHECK_DEADLOCK FALSE
