SPECIFICATION Spec
CONSTANTS
    Pids = {p1}
    NoPid = NoPid
    Fds = {f1}
    Devs = {d1}
    NoDev = NoDev
    NMount = 1
    NOpen = 1
    NPoll = 2
INVARIANT
    NoLeakedUnit
