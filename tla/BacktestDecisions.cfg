CONSTANTS
    Asset = {1, 2}
    Scale = 100
    Band = 5
    CashBuffer = 30
    MinTrade = 20
    LotSize = 2
    FeeRate = 2
    FeeMinimum = 3
    TaxRate <- Taxes
    LastDay = 4
    Bars <- SomeBars
    NoBar = NoBar
    Targets <- SomeTargets
    InitialCash = 300
    Slippage = 10
SPECIFICATION Spec
INVARIANTS TypeOK NoLookAhead BufferKept PurchasesNeverOverdraw CurveEndsWithTheBooks TestsAreUnseen
CHECK_DEADLOCK FALSE
