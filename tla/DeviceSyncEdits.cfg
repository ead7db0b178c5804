CONSTANTS
    Items = {i1}
    Own = {}
    PageLimit = 1
    Ops = {"save", "delete", "push", "resolve"}
    MaxSeq = 3
    MaxEdits = 1
    MaxFailures = 1
    MaxRestarts = 1
    NoRow = NoRow
    Idle = Idle
SPECIFICATION Spec
INVARIANTS TypeOK
PROPERTIES NoUnseenOverwrite
