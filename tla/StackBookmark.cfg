SPECIFICATION Spec
CONSTANTS
    Workspaces = {"main", "a", "b"}
    Target = "main"
    Starts <- Pinned
INVARIANT
    BookmarksNeverMove
CHECK_DEADLOCK FALSE
