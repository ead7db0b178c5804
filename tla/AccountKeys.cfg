CONSTANTS
    Sessions = {s1, s2}
    RecTokens = {t1, t2}
    Creds = {k1}
    Rounds = {r1, r2}
    Calls = {c1, c2}
    Kinds = {"register", "login", "status", "rotate", "rekey", "recover", "reclaim", "delete", "enrol", "assert"}
    MaxRequests = 5
    MaxFresh = 6
    MaxCounter = 1
    MaxRestarts = 1
    None = None
    Gone = Gone
    Phones = {p1, p2}
    Passwords = {w1, w2}
    MaxDrawn = 4
    MaxCalls = 3
    MaxFaults = 1
    Sides = {"server", "phones"}
SYMMETRY AccountSymmetry
SPECIFICATION MCSpec
CHECK_DEADLOCK FALSE
INVARIANTS
    RecoverySignsOut
    
    RecoverySingleUse
    PhoneMatchesServer
    KitWorks
