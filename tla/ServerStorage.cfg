SPECIFICATION FairSpec
INVARIANTS OnceComplete RoundTrip  
 
CONSTANTS
    u1 = u1
    u2 = u2
    w1 = w1
    f1 = f1
    Users = {u1, u2}
    Workers = {w1}
    SharedFiles = {f1}
    Account <- MCAccount
    Slots = {1, 2}
    MAX_CHUNKS = 2
    Quota = 3
    Jobs = {1, 2}
    Keys = {"k1", "k2"}
    MaxRuns = 3
    MaxItems = 1
    Mixes <- MCMixes
    None = None
CHECK_DEADLOCK FALSE
