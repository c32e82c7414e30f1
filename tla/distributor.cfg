SPECIFICATION FairSpec
CONSTANTS
    s1 = s1
    s1b = s1b
    s2 = s2
    NoVote = NoVote
    NoTx = NoTx
    Oracles = {1, 2}
    Servers = {s1, s1b, s2}
    Endpoints <- TwoOracles
    Bodies <- TwoRoots
    FirstRoot = "a"
    FirstVotes <- LastRound
    MinOracles = {2, 3}
    Delay = 1
    MaxNonce = 2
    MaxTime = 1
    MaxInFlight = 1
INVARIANTS
    TypeOK
    SpoiledByOthersOnly
PROPERTIES
    LaggardsHideNothing
    QuorumIsSubmitted
