SPECIFICATION MCSpec
CONSTANTS
    k1 = k1
    k2 = k2
    page = page
    ShortTime = 5
    StoreMayFail = TRUE
    None = None
    Keys = {k1, k2, page}
    Structural = {page}
    BlockThreshold = 2
    Backoff = 2
    NotifyAfter = 2
    MissWindow = 2
    DistinctMisses = 2
    StructuralMisses = 2
    Grace = 3
    Dedup = 3
    Throttle = 2
    MaxTime = 7
    MaxBlocks = 4
    MaxMisses = 2
SYMMETRY TickerSymmetry
INVARIANTS
    OpenForAReason
    EpisodesSpanBackoffs
    MailsSpaced
    StoredSuccessIsRecent
    IInv
PROPERTIES
    RefinesBreaker
    BlockMailOnlyIfItLasted
    MarkupMailNotWhileParsing
