SPECIFICATION Spec
CONSTANTS
    p1 = p1
    p2 = p2
    main = main
    side = side
    Procs = {p1, p2}
    Root <- InMain
    Roots = {main, side}
    Edits = {"e"}
    Count = 1
    Taken = {}
    Kinds = {"stack", "line", "move", "undo", "alloc"}
    MaxOps = 4
    MaxRuns = 3
    MaxFaults = 1
INVARIANTS
    TypeInv
PROPERTIES
    UndoUndoesOneCommand
    HonouredOnce
    EarlierEditsSurvive
SYMMETRY Alike
CHECK_DEADLOCK FALSE
