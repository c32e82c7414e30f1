SPECIFICATION FairSpec
CONSTANTS
    v1 = v1
    v2 = v2
    NoTx = NoTx
    NoUser = NoUser
    Vaults <- TwoVaults
    Users = {u1, u2}
    MaxInFlight = 2
INVARIANTS
    TypeOK
PROPERTIES
    ImplementsSweep
    MaxUserIsTracked
