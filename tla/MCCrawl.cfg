SPECIFICATION FairSpec
CONSTANTS
    w1 = w1
    w2 = w2
    s = s
    a = a
    b = b
    None = None
    Worker <- MCWorker
    Url <- MCUrl
    Seeds <- MCSeeds
    Links <- MCLinks
    Outcomes <- MCOutcomes
    MaxRetries <- MCMaxRetries
    MaxDepth = 1
    MaxRequests = 3
    ZeroBackoff = FALSE
    IdleStreak = 3
    MaxPutBacks = 1
INVARIANTS
    IdleCloseIsSound
    CompleteAtEnd
PROPERTIES
    PageOnce
    Terminates
