\* README: "Timeout or ambiguous 503 becomes `UNKNOWN`".
SPECIFICATION Spec
CONSTANTS
    MaxLease = 1
    MaxQty = 1
    Sides = {1}
    MaxOpen = 1
    Faults = {"timeout", "read"}
INVARIANT RejectedIsNotWorking
CHECK_DEADLOCK FALSE
