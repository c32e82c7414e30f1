SPECIFICATION Spec
CONSTANTS
    p1 = p1
    p2 = p2
    NoTx = NoTx
    Positions = {p1}
    Profiles <- OnePosition
    Market = {}
    MaxInFlight = 1
PROPERTIES
    RecheckSeesClaim
