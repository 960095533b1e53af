\* The turns of a conversation, and whether each of them ends.
SPECIFICATION FairSpec
CONSTANTS
    MaxMessages = 4
    MaxSnapshots = 1
    MaxDeliveries = 1
    MaxStale = 0
    Keep = 1
    Workers = {w1}
    Kinds = {"stream", "respond"}
    Requests = {"regenerate", "stop", "delete", "archive"}
    Faults = {}
INVARIANTS TypeOK OneGeneration
PROPERTIES FinalStays EveryAnswerEnds
CHECK_DEADLOCK FALSE
