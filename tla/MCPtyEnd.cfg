\* Two sessions that type, and a program that need not read.
CONSTANTS
    v1 = v1
    v2 = v2
    None = None
    Viewers = {v1, v2}
    Readers = {}
    Typists = {v1, v2}
    Closers = {}
    QueueFrames = 1
    TtyOut = 1
    TtyIn = 1
    Exits = {"fail"}
    Shutdown = {"stop"}
    MaxOutput = 0
SPECIFICATION FairSpec
INVARIANTS FramesWhole StopReturnsAfterExit
PROPERTIES ExitEndsSessions StopReturns
\* The program may end, and everything with it.
CHECK_DEADLOCK FALSE
