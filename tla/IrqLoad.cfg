SPECIFICATION LoadSpec
CONSTANTS
    Openers = {c1, c2}
    MaxLoads = 3
INVARIANTS NothingHeldWhenOut ReleasesWhatIsHeld HandlerHasDevice
CHECK_DEADLOCK FALSE
