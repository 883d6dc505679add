SPECIFICATION FairSpec
CONSTANTS
    Clients = {c1, c2}
    NoClient = NoClient
    Calls <- TwoKinds
    MaxCalls = 2
    MaxStarts = 3
    MaxRestarts = 1
INVARIANTS
    TypeOK
    LockConserved
    ReplyAnswersCall
    CopiesOwnResult
    OneRequestAtATime
PROPERTIES
    ExecutesOwnData
    EveryCallEnds
CHECK_DEADLOCK FALSE
