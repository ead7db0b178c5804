CONSTANTS
    Life = {l1}
    Users = {t1, t2}
    Keys = {k1, k2}
    Handles = {h1, h2}
    Ops = {"lock", "password", "raw", "recover", "complete", "rotate"}
    None = None
    Idle = Idle
SPECIFICATION Spec
INVARIANTS TypeOK LockedEmpty 
SYMMETRY Symmetry
