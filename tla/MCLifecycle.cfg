SPECIFICATION FairSpec
CONSTANTS
    w1 = w1
    w2 = w2
    c1 = c1
    c2 = c2
    None = None
    Worker <- MCWorker
    Caller <- MCCaller
    Requests = 2
    MaxCalls = 3
INVARIANTS
    NoStaleGate
    PauseTakesHold
PROPERTIES
    NobodyWaitsForGood
CHECK_DEADLOCK FALSE
