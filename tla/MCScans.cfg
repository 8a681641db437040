SPECIFICATION MCSpec
CONSTANTS
    timer = timer user = user
    None = None Idle = Idle
    Listed <- MCListed
    Bare <- MCBare
    Events <- MCEvents
    Entries <- MCEntries
    Deals <- MCDeals
    Brokers = {"bossa", "mbank"}
    Stamping = {"bossa"}
    Odd = {}
    MaxTrades = 2
    ExA = 1
    ExB = 1
    Callers = {timer, user}
    Window = 1
    Deposit = 2
    MaxDay = 3
    MaxRows = 2
    Grace = 2
    Lookback = 2
    MonthDays = 2
    Rates = {1, 2}
    Scale = 2
    Cap = 0
    TaxDivisor = 2
SYMMETRY CallerSymmetry
INVARIANT IInv
PROPERTIES BesideOnlyWhatCameMeanwhile MarkedDayIsComplete SecondInterestScanIsQuiet
