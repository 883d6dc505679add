SPECIFICATION Spec
CONSTANTS
    Tools = {"get", "put", "copyto", "copyfrom", "ps2kinst"}
    Source <- MCSource
    MaxOld = 5
    Buffer = 2
INVARIANTS
    OnlyRefusedStaysOpen
    WritesPrefix
    ResultTellsTheTruth
CHECK_DEADLOCK FALSE
