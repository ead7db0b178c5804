CONSTANTS
    Calls = {c1, c2}
    Handles = {h1}
    Tokens = {p1, p2}
    Secrets = {s1}
    Codes = {k1}
    Steps = {t1}
    MaxAttempts = 1
    MaxFails = 1
    MaxRestarts = 1
    SecurityKey = FALSE
    None = None
SYMMETRY LoginSymmetry
SPECIFICATION Spec
CHECK_DEADLOCK FALSE
INVARIANTS
    BackupCodeOnce
    FactorHonoured
    GuessesBounded
PROPERTIES
    SingleUse
