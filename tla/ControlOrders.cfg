\* The order ledger: one lease, an order of up to two lots, every report, kill switches.
SPECIFICATION Spec
CONSTANTS
    NoAgent = NoAgent
    Agents = {a1}
    NumSignals = 1
    MaxAttempt = 1
    MaxOpen = 1
    MaxQty = 2
    Trades = {1, 2}
    Statuses = {"submitted", "partially_filled", "cancelled", "rejected", "unknown"}
    Verdicts = {"ok", "mismatch"}
    KillScopes = {"account", a1}
INVARIANTS TypeOK FilledIsComplete ConsumedIsExecuted
PROPERTY SettledIsFinal
