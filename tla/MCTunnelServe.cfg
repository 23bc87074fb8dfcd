\* The one slot the commands use, and three streams.
CONSTANTS
    Slots = {a}
    Streams = {s, t, u}
    Answers = {"101", "401", "429", "503"}
    Cancels = TRUE
    DurationBits = 7
    MaxAttempt = 6
SPECIFICATION FairSpec
INVARIANTS TypeOK NothingLeftBehind
PROPERTIES ImplementsRun StopEndsRun KeepsConnected
\* Once Run has returned there may be nothing left to do.
CHECK_DEADLOCK FALSE
