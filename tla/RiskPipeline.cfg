CONSTANTS
    MaxAttempts = 3
    MaxLosses = 4
SPECIFICATION Spec
CHECK_DEADLOCK FALSE
INVARIANTS
    ProgressIsOrdered
    PollIsConsistent
PROPERTIES
    ImplementsFeed
    CompletedStreamEnds
