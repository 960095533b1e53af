\* The claim protocol: two agents, two signals, re-leasing.  No order fills.
SPECIFICATION Spec
CONSTANTS
    Agents = {a1, a2}
    NoAgent = NoAgent
    NumSignals = 2
    MaxAttempt = 2
    MaxOpen = 1
    MaxQty = 1
    Trades = {}
    Statuses = {}
    Verdicts = {}
    KillScopes = {}
SYMMETRY AgentSymmetry
INVARIANTS  OpenOrdersBounded
