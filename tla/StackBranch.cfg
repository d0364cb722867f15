SPECIFICATION Spec
CONSTANTS
    Workspaces = {"main", "a", "b"}
    Target = "main"
    Starts <- Branching
INVARIANT
    PayloadAlwaysArrives
CHECK_DEADLOCK FALSE
