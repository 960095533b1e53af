SPECIFICATION Spec
CONSTANTS
    Spots = {"spot"}
    Perps = {}
    Prices = {1, 2}
    MaxQty = 2
    MaxFills = 3
    MaxOrders = 2
    MaxSignals = 0
    MaxClock = 0
    MaxRuns = 2
    Targets <- NoTargets
    Requests = {"r1"}
    Overlap = FALSE
    Initial = 52
    Unit = 10
    TakerFee = 1
    MakerFee = 2
    Maintenance = 2
    LiquidationFee = 1
    Cap = 1
    Grid = 1
    Rates = {1}
    RateGaps = FALSE
INVARIANTS TypeOK LedgerExplainsCash PositionsFollowFills LocksCoverOrders RestingOrdersCanFill
