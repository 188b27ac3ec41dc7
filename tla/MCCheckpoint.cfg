SPECIFICATION FairCheckpointSpec
CONSTANTS
    w1 = w1
    s = s
    a = a
    None = None
    NoFile = NoFile
    Worker <- MCOneWorker
    Url <- MCUrl
    Seeds <- MCSeeds
    Links <- MCLinks
    Outcomes <- MCOutcomes
    MaxRetries <- MCMaxRetries
    MaxDepth = 1
    MaxRequests = 0
    ZeroBackoff = FALSE
    IdleStreak = 2
    MaxPutBacks = 1
    MaxRestarts = 1
INVARIANTS
    LossOnlyInGaps
    ResumeCompletes
PROPERTIES
    OnceAndForAll
