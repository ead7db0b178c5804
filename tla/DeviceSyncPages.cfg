CONSTANTS
    Items = {i1, i2}
    Own = {}
    PageLimit = 1
    Ops = {}
    MaxSeq = 4
    MaxEdits = 0
    MaxFailures = 2
    MaxRestarts = 0
    NoRow = NoRow
    Idle = Idle
SPECIFICATION FairSpec
INVARIANTS CursorSound
PROPERTIES Converges
