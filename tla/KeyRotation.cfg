CONSTANTS
    Items = {i1, i2, i3}
    i1 = i1
    d1 = d1
    Mixes = {"clean", "faults"}
    Unsynced = {}
    Devices = {d1, d2}
    Rotators = {d1, d2}
    BatchSize = 2
    RotationOps = {"edit", "delete", "save", "sync"}
    MaxKeys = 2
    MaxEdits = 2
    MaxFailures = 1
    MaxCrashes = 1
    NoRow = NoRow
    NoTask = NoTask
CHECK_DEADLOCK FALSE
SPECIFICATION MCSpec
INVARIANTS RotationTyped CleanReadable
 
