SPECIFICATION Spec
CONSTANTS
    SpinHard = 1
    SpinYield = 2
    SpinSoft = 3
    Lens = {1, 3}
    Bases = {0, 1}
    AddrSpace = 3
    MaxCalls = 2
INVARIANTS SamplesInOrder WordsInOrder IdleBetweenCalls
PROPERTY ReadReturns
CHECK_DEADLOCK FALSE
