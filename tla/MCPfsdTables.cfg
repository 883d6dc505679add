SPECIFICATION Spec
CONSTANTS
    Pids = {p1, p2}
    NoPid = NoPid
    Fds = {f1, f2, f3}
    Devs = {d1, d2}
    NoDev = NoDev
    NMount = 2
    NOpen = 2
    NPoll = 3
SYMMETRY Symmetry
INVARIANTS
    TypeOK
    FilesOnTheirMounts
    FilesMatchDriver
    NamesReachTheirDevice
    NoOrphans
PROPERTY
    OnlyRequesterChanges
