SPECIFICATION Spec
CONSTANTS
    Clients = {c1}
    Kinds = {"read", "write"}
    Serial = TRUE
    MaxCalls = 4
INVARIANTS OneEventPerTransfer StartTakesEffect PolledReadReady
PROPERTY NoLostWakeUp
