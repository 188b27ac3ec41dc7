SPECIFICATION MCSpec
CONSTANTS
    w1 = w1
    w2 = w2
    u1 = u1
    u2 = u2
    u3 = u3
    u4 = u4
    h1 = h1
    h2 = h2
    h3 = h3
    d1 = d1
    d2 = d2
    None = None
    Unread = Unread
    Worker = {w1, w2}
    Url = {u1, u2, u3, u4}
    Host = {h1, h2, h3}
    Domain = {d1, d2}
    Letter = {"a", "b", "c", "*", "$"}
    HostOf <- MCHostOf
    PathOf <- MCPathOf
    Labels <- MCLabels
    DomainOf <- MCDomainOf
    AllowedDomains = {}
    DisallowedDomains <- MCDisallowed
    PublicSuffix <- MCPublicSuffix
    RobotsFile <- MCRobotsFile
    Exchange <- MCExchange
    MaxSlots = 1
    Delay = 2
    Schemes = {"http", "https"}
    Exempt = {}
    AllowPrivate = FALSE
    MaxRedirects = 2
    FollowRedirects = TRUE
    MaxBody = 4
    MaxRatio = 3
    MinRatioCheck = 1
    Address <- MCAddress
    Lower <- MCLower
    Bracketed <- MCBracketed
    ParamOrder <- MCParamOrder
    HashA <- MCHashA
    HashB <- MCHashB
    Word = 32
    NumBits = 7
    NumHash = 2
SYMMETRY Symmetry
INVARIANTS
    RobotsAreObeyed
    SpacedOrForgotten
    BodyIsWholeOrCut
    ConnectionsArePublic
    OneClaimPerPage
