SPECIFICATION Spec
CONSTANTS
    r1 = r1
    r2 = r2
    Requests = {r1, r2}
    None = None
    MaxHistory = 1
    MaxPositions = 1
    MaxWrites = 1
    MaxComps = 2
    MaxDay = 1
INVARIANTS
    HistoryMemoFresh
CHECK_DEADLOCK FALSE
