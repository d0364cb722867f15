SPECIFICATION Spec
CONSTANTS
    main = main
    a = a
    b = b
    d = d
    p1 = p1
    p2 = p2
    c1 = c1
    c2 = c2
    c3 = c3
    Order <- RowsABD
    Main = main
    Alien = {d}
    Above <- Stacked
    Changes = {c1, c2, c3}
    Named = {}
    Starts <- Scenes
    Procs = {p1, p2}
    Current <- InMain
INVARIANTS
    OnlyAgreedWorkIsLost
    StoppedBatchReportsTruly
    GreedyBatchIsMaximal
PROPERTIES
    ClosedWorkSurvives
    RevocationStopsTidy
    AsideIsNeverAutomatic
CHECK_DEADLOCK FALSE
