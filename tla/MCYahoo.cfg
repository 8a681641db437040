SPECIFICATION MCSpec
CONSTANTS
    q1 = q1
    q2 = q2
    c1 = c1
    s1 = s1
    Callers = {q1, q2, c1, s1}
    MaxConcurrent = 2
    Kind <- MCKind
    BlockThreshold = 2
    Names <- MCNames
    None = None
    MaxRotations = 1
INVARIANTS
    RequestsInv
    SlotsAccounted
    NoIdleSlotWhileWaiting
    ABlockIsARefusal
    LateFetchesAreFew
PROPERTIES
    EveryRequestEnds
    RefinesFifoSemaphore
