CONSTANTS
    t1 = t1 t2 = t2 c1 = c1 u1 = u1 u2 = u2 b1 = b1 b2 = b2
    None = None Lost = Lost
    Trades = {t1, t2}
    Cfds = {c1}
    Brokers = {"mbank", "bossa"}
    Contents = {u1, u2}
    Batches = {b1, b2}
    Statements <- MCStatements
    InboxLimit = 1
    MaxCopies = 2
    MaxHands = 1
SYMMETRY BatchSymmetry
SPECIFICATION MCSpec
INVARIANTS TypeOK ImportedTradesCovered UnknownRowsKept OverlapsDoNotSum PositionsCountedOnce
PROPERTY DecidedRowsStayDecided
