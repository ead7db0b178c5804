SPECIFICATION Spec
INVARIANTS   OnlyMeantReaders
CONSTANTS
    u1 = u1
    Users = {u1, u2, u3}
    Items = {i1}
    Groups = {g1}
    Slots = {1, 2}
    MaxKeys = 4
    MaxSiks = 4
    None = None
    Mixes <- MCMixes
CHECK_DEADLOCK FALSE
