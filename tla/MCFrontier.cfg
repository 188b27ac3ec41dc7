SPECIFICATION FairSpec
CONSTANTS
    w1 = w1
    w2 = w2
    a = a
    b = b
    slow = slow
    None = None
    Worker <- MCWorker
    Req <- MCReq
    Domain <- MCDomain
    Host <- MCHost
    Priority <- MCPriority
    Throttled <- MCThrottled
    LowPriority = 3
    MaxRetries <- MCMaxRetries
INVARIANTS
    NoLostWakeup
PROPERTIES
    ImplementsPool
    NobodyWaitsForGood
