SPECIFICATION MCSpec
CONSTANTS
    r1 = r1
    r2 = r2
    r3 = r3
    r4 = r4
    r5 = r5
    c1 = c1
    key = key
    None = None
    Request <- MCRequest
    Client <- MCClient
    KeyOf <- MCKeyOf
    Kind <- MCKind
    Watches <- MCWatches
    Urls = 2
    MaxItems = 2
    Burst = 2
    PageSize = 1
    MaxBusy = 1
    MaxRestarts = 1
    m1 = m1
    m2 = m2
    m3 = m3
    m4 = m4
    Call <- MCCall
    Asks <- MCAsks
    Transport = {"stdio", "http"}
    BatchUrls = 2
    PageItems = 1
    NoAnswer = NoAnswer
INVARIANTS
    CountAccountsForRows
    AnswersAreWhole
    StreamFollowsTable
    StreamHasNoGap
    AdmittedWithinBurst
    StatusIsWhole
PROPERTIES
    JobsSettle
CHECK_DEADLOCK FALSE
