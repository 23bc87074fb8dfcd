\* Three processes that store or look up, two tunnels.
CONSTANTS
    Procs = {p1, p2, p3}
    Tunnels = {t1, t2}
    OldToken = OldToken
    NoToken = NoToken
SYMMETRY ProcSymmetry
SPECIFICATION Spec
INVARIANTS FileWhole TokenAnswers TempsGone
PROPERTIES KeepsOthers
\* A process ends.
CHECK_DEADLOCK FALSE
