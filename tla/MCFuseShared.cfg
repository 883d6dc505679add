SPECIFICATION Spec
CONSTANTS
    Threads = {t1, t2}
    Handles = {h1, h2}
    Files = {f}
    Values = {0, 1}
    MaxSize = 3
    IntMax = 2
    MayLackSeek64 = FALSE
    Ops = {"read", "write"}
    Modes = {{32768, 1024, 256, 2}}
    Times = {20}
    Now = 3
    SharedHandles = TRUE
INVARIANT
    IoAtOffsetAsked
CHECK_DEADLOCK FALSE
