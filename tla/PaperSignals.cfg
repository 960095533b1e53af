SPECIFICATION FairSpec
CONSTANTS
    Spots = {}
    Perps = {"perp"}
    Prices = {1, 2}
    MaxQty = 1
    MaxFills = 1
    MaxOrders = 0
    MaxSignals = 1
    MaxClock = 1
    MaxRuns = 1
    Targets <- LongOnly
    Requests = {"r1"}
    Overlap = TRUE
    Initial = 10
    Unit = 10
    TakerFee = 1
    MakerFee = 1
    Maintenance = 2
    LiquidationFee = 1
    Cap = 1
    Grid = 1
    Rates = {1}
    RateGaps = FALSE
PROPERTIES FundingReaches
