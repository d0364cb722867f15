SPECIFICATION Spec
CONSTANTS
    h1 = h1
    h2 = h2
    p1 = p1
    p2 = p2
    r1 = r1
    r2 = r2
    r3 = r3
    r4 = r4
    Requests = {r1, r2}
    NoReq = NoReq
    Handles = {h1}
    Child <- ChildOf
    Id <- IdOf
    NoCleanup <- Safely
    Tracked = {h1}
    Procs = {p1, p2}
    NoProc = NoProc
    MaxForeign = 2
    MaxFaults = 1
SYMMETRY Symmetric
INVARIANTS
    TypeOK
    AckBindsOwnAdd
    AddedOnce
    CleanupSparesEvidence
PROPERTIES
    ReadyIsTrue
    ReadyIsOwn
    NotCreatedIsTrue
