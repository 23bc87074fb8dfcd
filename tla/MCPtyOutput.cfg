\* Two sessions that only watch, one of which may hang up; a queue of one frame,
\* two reads (one in a channel, one in the pump's hand), an exit and a cancelled
\* context.
CONSTANTS
    v1 = v1
    v2 = v2
    None = None
    Viewers = {v1, v2}
    Readers = {}
    Typists = {}
    Closers = {v1}
    QueueFrames = 1
    TtyOut = 1
    TtyIn = 1
    Exits = {"ok"}
    Shutdown = {"cancel"}
    MaxOutput = 2
SPECIFICATION Spec
INVARIANTS TypeOK NoGapWhileAttached
PROPERTY ImplementsRelay
\* The program may end, and everything with it.
CHECK_DEADLOCK FALSE
