SPECIFICATION FairSpec
CONSTANTS
    v1 = v1
    v2 = v2
    o1 = o1
    o2 = o2
    Sync = Sync
    NoTx = NoTx
    Nobody = Nobody
    Validators = {v1, v2}
    Oracles = {o1, o2}
    Threshold = 2
    FirstShown <- OneShort
    MaxListed = 2
    Interval = 2
    MaxWait = 1
    MaxTransit = 2
    MaxInFlight = 1
INVARIANTS
    TypeOK
PROPERTIES
    TasksRunAlone
    NoSecondSync
    PriceIsRefreshed
    ValidatorsExit
