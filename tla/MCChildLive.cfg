\* A server that writes once, with a helper out of reach; nobody need do anything.
CONSTANTS
    Homes = {"session"}
    Cancels = TRUE
    Hangs = TRUE
    Unprompted = TRUE
    PipeIn = 1
    PipeOut = 2
    MaxOutput = 1
SPECIFICATION FairSpec
INVARIANTS NoZombieLeft OutputRelayed
PROPERTIES ImplementsSession StreamEndsSession CancelEndsSession ExitEndsSession NoGoroutineLeft
\* The session may be over, and everything with it.
CHECK_DEADLOCK FALSE
