\* A program that writes and exits, one session whose peer reads.
CONSTANTS
    v1 = v1
    v2 = v2
    None = None
    Viewers = {v1}
    Readers = {v1}
    Typists = {}
    Closers = {}
    QueueFrames = 1
    TtyOut = 1
    TtyIn = 1
    Exits = {"ok", "fail"}
    Shutdown = {}
    MaxOutput = 1
SPECIFICATION FairSpec
PROPERTY OutputShown
\* The program may end, and everything with it.
CHECK_DEADLOCK FALSE
