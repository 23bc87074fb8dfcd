\* Two sessions paste files of one plain name, or of one that is not.
CONSTANTS
    s1 = s1
    s2 = s2
    a = a
    dots = dots
    None = None
    Sessions = {s1, s2}
    Names = {a, dots}
    Plain = {a}
    Sizes = {0, 2}
    Frame = 2
    Faults = {"open", "write", "finish", "remove"}
    MaxFiles = 2
    MaxCrashes = 1
SPECIFICATION FairSpec
INVARIANTS TypeOK FilesWhole PartsOwned
PROPERTIES ImplementsStore GoneReturns
\* Every session may end.
CHECK_DEADLOCK FALSE
