SPECIFICATION FairSpec
CONSTANTS
    h1 = h1
    h2 = h2
    p1 = p1
    p2 = p2
    r1 = r1
    r2 = r2
    r3 = r3
    r4 = r4
    Requests = {r1, r3, r4}
    NoReq = NoReq
    Handles = {h1, h2}
    Child <- ChildOf
    Id <- IdOf
    NoCleanup <- Safely
    Tracked = {h2}
    Procs = {p1}
    NoProc = NoProc
    MaxForeign = 0
    MaxFaults = 3
PROPERTIES
    AcknowledgedBecomesReady
