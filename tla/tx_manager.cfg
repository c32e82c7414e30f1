SPECIFICATION Spec
CONSTANTS
    Tasks = {rewards, ltv}
    NoTask = NoTask
    NoFees = NoFees
    NoTx = NoTx
    MaxFeePerGas = 55
    CarrySet <- MCCarry
    FreshFees <- MCFresh
    DefaultFees <- MCDefault
    CallOptions <- AllCalls
    Attempts = 2
    MaxMined = 1
    MaxLoose = 1
SYMMETRY TaskSymmetry
INVARIANTS
    TypeOK
    OneCallInside
    NobodyForgotten
    OneNonceInFlight
    NeverUnderpriced
PROPERTIES
    AwaitedNotReplaced
    EscalationRises
    CallsRunDown
    GivesUpOnlyWhenHopeless
    ImplementsWallet
    SeenAsOutbox
