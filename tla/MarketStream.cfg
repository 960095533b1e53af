\* One symbol through every fault: messages, bars, connections.
SPECIFICATION FairSpec
CONSTANTS
    Symbols = {a}
    Channels = {"quotes", "bars"}
    Limit = 0
    Capacity = 1
    StaleAfter = 1
    MaxTime = 5
    MaxDelay = 1
    Faults = {"drop", "silence", "connect", "subscribe", "error", "reject", "stop"}
INVARIANTS TypeOK EmittedOnce
PROPERTIES TrackedIsSubscribed SilenceEnds 
CHECK_DEADLOCK FALSE
