SPECIFICATION Spec
CONSTANTS
    Threads = {t1, t2}
    Handles = {h1, h2}
    Files = {f}
    Values = {0, 1}
    MaxSize = 2
    IntMax = 2
    MayLackSeek64 = TRUE
    Ops = {"read", "write", "ftruncate", "create", "unlink", "chmod", "utimens"}
    Modes = {{32768, 1024, 256, 2}}
    Times = {20}
    Now = 3
    SharedHandles = FALSE
PROPERTY
    ImplementsPosix
CHECK_DEADLOCK FALSE
