SPECIFICATION Spec
CONSTANTS
    Devices = {0, 1, 4}
    Widths = {8, 16}
    MaxSteps = 6
INVARIANTS BufferHeld ClockRuns SyncedMeansConfigured ReadAsUnpacked
PROPERTIES DivideWhileStopped ClockInitEnds
CHECK_DEADLOCK FALSE
