CONSTANTS
    Items = {i1, i2}
    i1 = i1
    q2 = q2
    Mixes = {"feed", "routes"}
    Requests = {q1, q2}
    Rotators = {k1}
    Devices = {d1}
    Routes = {"push", "put", "delete"}
    PageLimit = 1
    MayRestart = TRUE
    MaxSeq = 3
    MaxGen = 2
    NoRow = NoRow
    Idle = Idle
SPECIFICATION MCSpec
INVARIANTS TypeOK FeedComplete
PROPERTIES QueuePerDevice FeedAnnounces FeedCatchesUp
