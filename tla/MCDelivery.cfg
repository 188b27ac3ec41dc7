\* The crawl ends, or stops behind a subscriber that gave up: no deadlock check.
SPECIFICATION MCSpec
CHECK_DEADLOCK FALSE
CONSTANTS
    w1 = w1
    w2 = w2
    i1 = i1
    i2 = i2
    i3 = i3
    i4 = i4
    s1 = s1
    s2 = s2
    Nil = Nil
    Worker = {w1, w2}
    Item = {i1, i2, i3, i4}
    Subscriber = {s1, s2}
    Early <- MCEarly
    Pages <- MCPages
    Verdict <- NoDrops
    Capacity = 1
    BatchSize = 2
    Match <- MCMatch
    Structured <- MCStructured
    Name = {5, 6, 7, 8, 9}
    Value <- MCValue
    Joined <- MCJoined
    Json <- MCJson
    StorageType = {"json", "jsonl", "ordered", "csv"}
    Url_ = 1
    Spider_ = 2
    Timestamp_ = 3
    Unset = Unset
INVARIANTS
    StoredInOrder
    SubscriberSeesAll
    SendsWhileOpen
    OutputIsDetermined
PROPERTIES
    StopFreesWorkers
    EndsWhileRead
