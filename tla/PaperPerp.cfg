SPECIFICATION Spec
CONSTANTS
    Spots = {}
    Perps = {"perp"}
    Prices = {1, 4}
    MaxQty = 2
    MaxFills = 2
    MaxOrders = 1
    MaxSignals = 0
    MaxClock = 2
    MaxRuns = 1
    Targets <- NoTargets
    Requests = {"r1"}
    Overlap = FALSE
    Initial = 40
    Unit = 10
    TakerFee = 1
    MakerFee = 2
    Maintenance = 2
    LiquidationFee = 1
    Cap = 1
    Grid = 1
    Rates = {1}
    RateGaps = TRUE
INVARIANTS LedgerExplainsCash RebuildsExactly FundingComplete
