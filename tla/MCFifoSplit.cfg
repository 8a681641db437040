SPECIFICATION MCSpec
CONSTANTS
    Deals <- MCDeals
    Manual <- MCManual
    Options = {"O"}
    Expiry <- MCExpiry
    Parent = "M"
    Child = "C"
    Ex = 1
    PerShare = 1
    Part = 2
    InMap = FALSE
    Window = 0
    KnownRatios = {2, 3}
    Tolerance = 2
    TicksPerDay = 2
    MaxDay = 2
    MaxTable = 4
    MaxOf <- MCMaxOf
INVARIANT ShortSaleIsNoSplit
