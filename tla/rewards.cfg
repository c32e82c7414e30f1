SPECIFICATION FairSpec
CONSTANTS
    s1 = s1
    s1b = s1b
    s2 = s2
    NoVote = NoVote
    NoTx = {}
    Oracles = {1, 2}
    Servers = {s1, s1b, s2}
    OracleOf <- TwoEndpoints
    Bodies <- TwoBodies
    Signatures = {"one", "bad"}
    Genuine = {"one"}
    SignaturesOf <- TwoSignatures
    Threshold = 2
    CacheSize = 1
    OtherKeepers = TRUE
    MaxNonce = 1
    MaxInFlight = 2
INVARIANTS
    TypeOK
    LeftoverQuorumMeansRaise
    RefusalHasCause
PROPERTIES
    NoVoteForgotten
    QuorumIsSubmitted
