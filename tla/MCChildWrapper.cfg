\* A wrapper that exits when its stdin is closed, and the server it started.
CONSTANTS
    Homes = {"group"}
    Cancels = FALSE
    Hangs = TRUE
    Unprompted = FALSE
    PipeIn = 1
    PipeOut = 2
    MaxOutput = 0
SPECIFICATION Spec
INVARIANT GroupStopped
\* The session may be over, and everything with it.
CHECK_DEADLOCK FALSE
