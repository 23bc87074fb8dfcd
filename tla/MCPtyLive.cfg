\* One peer that reads and one that may not; the program writes three times: one
\* frame in the stalled session's Write, one in its channel, one in the pump's hand.
CONSTANTS
    v1 = v1
    v2 = v2
    None = None
    Viewers = {v1, v2}
    Readers = {v1}
    Typists = {}
    Closers = {}
    QueueFrames = 1
    TtyOut = 1
    TtyIn = 1
    Exits = {}
    Shutdown = {}
    MaxOutput = 3
SPECIFICATION FairSpec
PROPERTIES PtyAlwaysRead ReaderCatchesUp EndedReturns
\* The program may end, and everything with it.
CHECK_DEADLOCK FALSE
