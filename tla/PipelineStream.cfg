SPECIFICATION StreamSpec
CHECK_DEADLOCK FALSE
INVARIANTS
    ClosedStreamTells
PROPERTIES
    StreamImplementsFeed
    StreamEnds
