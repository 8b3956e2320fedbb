SPECIFICATION Spec
CONSTANTS
    FifoDepth = 2
    Lens = {1, 3}
    Ratios <- MCRatios
    Channels = {0, 1, 15}
    MaxCalls = 2
INVARIANTS OwnWordsMoved SuccessMeansMoved ChannelZeroFree
PROPERTY CallReturns
CHECK_DEADLOCK FALSE
