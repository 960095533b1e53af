\* Four summaries by two workers, tasks queued twice, late and killed.
SPECIFICATION Spec
CONSTANTS
    MaxMessages = 3
    MaxSnapshots = 4
    MaxDeliveries = 2
    MaxStale = 1
    Keep = 3
    Workers = {w1, w2}
    Kinds = {"respond"}
    Requests = {"regenerate"}
    Faults = {"restart", "deepcancel", "killed"}
INVARIANTS NothingForgotten
PROPERTIES SummaryGrows
SYMMETRY AnyWorker
CHECK_DEADLOCK FALSE
