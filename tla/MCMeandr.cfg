\* Both commands, two signals, every answer of --env-url, two other processes.
\* A Duration of 6 bits overflows after 4 failures in a row.
CONSTANTS
    Commands = {"tunnel", "pty"}
    Chars <- MCChars
    Letters <- MCLetters
    Digits = {"1"}
    Names <- MCNames
    Unset = Unset
    EnvToken <- MCToken
    Secret = "s"
    Environs <- MCEnvirons
    Loads <- MCLoads
    Args <- MCArgs
    MaxSignals = 2
    Procs <- MCProcs
    Mines <- MCMines
    d1 = d1
    d2 = d2
    Patience = 3
    AttemptTimeout = 1
    FetchBase = 2
    FetchCap = 4
    DurationBits = 6
    MaxFailures = 6
SPECIFICATION FairSpec
INVARIANTS TypeOK PatienceHolds ExpandsAsMeant SecretKept
INVARIANT LeftoversStopped
PROPERTIES ExitCodeTells ProgramReaped EndsWhenDue StartsOrEnds
\* Once meandr has ended there is nothing left to do.
CHECK_DEADLOCK FALSE
