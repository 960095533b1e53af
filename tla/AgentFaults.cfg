\* Two orders, every fault, an operator, manual trades.
SPECIFICATION Spec
CONSTANTS
    MaxLease = 2
    MaxQty = 1
    Sides = {1}
    MaxOpen = 1
    Faults = {"crash", "control", "timeout", "read", "manual", "operator"}
INVARIANTS TypeOK QuarantineHolds
PROPERTIES RestartResolves UnresolvedStopsPlacing MismatchLatched KeepsPromise
CHECK_DEADLOCK FALSE
