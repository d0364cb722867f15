SPECIFICATION Spec
CONSTANTS
    Workspaces = {"main", "a", "b"}
    Target = "main"
    Starts <- Scenes
INVARIANTS
    PayloadArrives
    OwnWorkStays
    CursorsAreReady
    InputsAreSpared
PROPERTIES
    NothingIsLost
CHECK_DEADLOCK FALSE
