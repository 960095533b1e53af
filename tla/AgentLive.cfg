\* Two orders of up to two lots, no fault.
SPECIFICATION FairSpec
CONSTANTS
    MaxLease = 2
    MaxQty = 2
    Sides <- BothSides
    MaxOpen = 1
    Faults = {}
PROPERTY EveryLeaseIsAnswered
CHECK_DEADLOCK FALSE
