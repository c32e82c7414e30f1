SPECIFICATION Spec
CONSTANTS
    Tasks = {rewards}
    NoTask = NoTask
    NoFees = NoFees
    NoTx = NoTx
    MaxFeePerGas = 55
    CarrySet <- MCCarry
    FreshFees <- MCFreshOne
    DefaultFees <- MCDefault
    CallOptions <- PlainCalls
    Attempts = 2
    MaxMined = 1
    MaxLoose = 1
PROPERTIES
    GivenUpHasPending
