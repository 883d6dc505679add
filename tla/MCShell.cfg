SPECIFICATION Spec
CONSTANTS
    Parts = {net, opl}
    SysParts = {net}
    Net = net
    NoPart = NoPart
    Names = {a, b}
    MaxPath = 2
    MaxArg = 2
    MaxEntries = 2
INVARIANTS
    ContextMatchesDriver
    PathNamesDirectory
PROPERTY
    ChangesWhatIsNamed
    CdUpReachesParent
CHECK_DEADLOCK FALSE
SYMMETRY AnyName
