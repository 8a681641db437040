CONSTANTS
    t1 = t1 t2 = t2 c1 = c1 u1 = u1 u2 = u2 b1 = b1 b2 = b2
    None = None Lost = Lost
    Trades = {t1, t2}
    Cfds = {c1}
    Brokers = {"mbank", "bossa"}
    Contents = {}
    Batches = {b1}
    Statements <- MCStatements
    InboxLimit = 1
    MaxCopies = 2
    MaxHands = 0
SPECIFICATION MCSpec
PROPERTY ReimportKeepsCount
