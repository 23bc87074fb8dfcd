\* A dial that is refused while the context is cancelled.
CONSTANTS
    Slots = {a}
    Streams = {}
    Answers = {"101", "401"}
    Cancels = TRUE
    DurationBits = 7
    MaxAttempt = 1
SPECIFICATION Spec
PROPERTY CancelIsClean
\* Once Run has returned there may be nothing left to do.
CHECK_DEADLOCK FALSE
