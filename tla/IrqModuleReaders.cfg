SPECIFICATION Spec
CONSTANTS
    Clients = {c1, c2}
    Kinds = {"read"}
    Serial = TRUE
    MaxCalls = 3
INVARIANT OneEventPerRead
