SPECIFICATION MCSpec
CONSTANTS
    NDATA = 2
    DesiredIstr = 5
    Records = {r1, r2}
    Marked = r2
    NoRecord = NoRecord
    ServerFirst = FALSE
INVARIANTS
    SectorExclusive
    InOrder
    NoStatusError
    NoDeadlock
    LossBounded
PROPERTIES
    ImplementsStream
    CallReturns
    ServerFinishes
    GuestFreezes
CHECK_DEADLOCK FALSE
