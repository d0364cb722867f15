SPECIFICATION FairSpec
CONSTANTS
    o1 = o1
    o2 = o2
    p1 = p1
    p2 = p2
    Ops = {o1}
    Procs = {p1}
    NoProc = NoProc
    NoOp = NoOp
    Rewrites = 1
    Payloads = 2
    OrphanChild = TRUE
    MaxForeign = 2
    MaxFaults = 3
INVARIANT
    OwnUpdatesSettle
PROPERTIES
    SettledIsUntouched
    Closes
