SPECIFICATION FairSpec
CONSTANTS
    Pids = {p1, p2}
    NoPid = NoPid
    Fds = {f1, f2}
    Devs = {d1}
    NoDev = NoDev
    NMount = 1
    NOpen = 2
    NPoll = 3
PROPERTY
    CleanupEnds
