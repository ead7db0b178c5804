CONSTANTS
    Users = {u1, u2}
    Orgs = {o1, o2}
    Projects = {p1}
    Groups = {g1}
    Calls = {c1, c2}
    AskedRoles = {"Owner", "Admin"}
    AskedPerms = {"CanManage"}
    MaxRequests = 4
    MaxRestarts = 1
    None = None
    Sides = {"people", "machines"}
    Staff = {m1, m2}
    Vaults = {x1, x2}
    Owner = m1
    Accounts = {a1}
    Tokens = {t1}
    Secrets = {s1}
    Values = {v1}
    MaxMachineRequests = 3
SYMMETRY AccessSymmetry
SPECIFICATION MCSpec
CHECK_DEADLOCK FALSE
INVARIANTS
    OneOwner
    OffboardComplete
    ResolversAgree
    
