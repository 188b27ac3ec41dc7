SPECIFICATION MCSpec
CONSTANTS
    u1 = u1
    u2 = u2
    v1 = v1
    v2 = v2
    None = None
    Url <- MCUrl
    Version <- MCVersion
    Seed = {u1}
    Link <- MCLink
    Validated = {u1, u2}
    Parsed = {u1}
    HeaderSays <- MCHeaderSays
    PageSays <- MCPageSays
    RobotsTxt <- MCRobotsTxt
    Format = {"jsonl", "parquet"}
    MaxCommands = 4
    MaxChanges = 1
    MaxListed = 1
    Nowhere = Nowhere
    Byte <- MCByte
    Rune <- MCRune
    Continuation = {"T", "N"}
    Space <- MCSpace
    Quote = {"q"}
    NonText = {"s"}
    Unescape <- MCUnescape
    MaxEntityLen = 4
    Fragment <- MCFragment
    MaxFragments = 2
INVARIANTS
    SpansRender
CHECK_DEADLOCK FALSE
