SPECIFICATION FairSpec
CONSTANTS
    d1 = d1
    d2 = d2
    d3 = d3
    w1 = w1
    w2 = w2
    w3 = w3
    None = None
    Domain <- MCDomain
    Worker <- MCWorker
    Threshold = 2
    MaxSize = 2
INVARIANTS
    HalfOpenIsOneProbe
PROPERTIES
    ProbeIsAnswered
