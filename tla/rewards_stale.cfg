SPECIFICATION Spec
CONSTANTS
    s1 = s1
    s1b = s1b
    s2 = s2
    NoVote = NoVote
    NoTx = {}
    Oracles = {1, 2}
    Servers = {s1, s2}
    OracleOf <- TwoOracles
    Bodies <- TwoBodies
    Signatures = {"one"}
    Genuine = {"one"}
    SignaturesOf <- OneSignature
    Threshold = 2
    CacheSize = 2
    OtherKeepers = FALSE
    MaxNonce = 1
    MaxInFlight = 1
PROPERTIES
    SubmitsCurrentVotes
