\* The stream ends and the server does not read its stdin.
CONSTANTS
    Homes = {}
    Cancels = FALSE
    Hangs = TRUE
    Unprompted = TRUE
    PipeIn = 1
    PipeOut = 2
    MaxOutput = 0
SPECIFICATION FairSpec
PROPERTY ClosingStreamStops
\* The session may be over, and everything with it.
CHECK_DEADLOCK FALSE
