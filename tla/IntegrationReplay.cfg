SPECIFICATION Spec
CONSTANTS
    o1 = o1
    o2 = o2
    p1 = p1
    p2 = p2
    Ops = {o1}
    Procs = {p1}
    NoProc = NoProc
    NoOp = NoOp
    Rewrites = 1
    Payloads = 1
    OrphanChild = FALSE
    MaxForeign = 0
    MaxFaults = 1
PROPERTY
    ReplayNeverDeniesLanding
