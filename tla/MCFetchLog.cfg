SPECIFICATION Spec
CONSTANTS
    u1 = u1
    u2 = u2
    b1 = b1
    w1 = w1
    w2 = w2
    Err = Err
    None = None
    Url <- MCUrl
    Body <- MCBody
    Worker <- MCWorker
    MaxAttempts = 2
    MaxEntries = 4
    MaxRuns = 2
SYMMETRY Symmetry
INVARIANTS
    LogIsSound
    ReplaysTheCrawl
CHECK_DEADLOCK FALSE
