SPECIFICATION PersistentSpec
CONSTANTS
    Tasks = {rewards, ltv}
    NoTask = NoTask
    NoFees = NoFees
    NoTx = NoTx
    MaxFeePerGas = 55
    CarrySet <- MCCarry
    FreshFees <- MCFreshOne
    DefaultFees <- MCDefaultTwo
    CallOptions <- PlainCalls
    Attempts = 1
    MaxMined = 0
    MaxLoose = 0
PROPERTIES
    CallReturns
    StuckIsOutbid
