SPECIFICATION FairSpec
CONSTANTS
    p1 = p1
    p2 = p2
    NoTx = NoTx
    Positions = {p1, p2}
    Profiles <- TwoPositions
    Market = {p1}
    MaxInFlight = 2
INVARIANTS
    TypeOK
    HandledOnce
PROPERTIES
    ImplementsSweep
    RiskyIsForced
    UrgentIsClaimed
