SPECIFICATION MkpartSpec
CONSTANTS
    Requests = {0, 7, 8, 128, 384, 1000, 3072, 4100, 9000}
    MaxSubs = 4
INVARIANTS
    TypeOK
    SizeConserved
    SubsFitMain
    NothingLeftOver
    MainIsLargest
    ClosedBeforeFormat
PROPERTY
    Terminates
CHECK_DEADLOCK FALSE
