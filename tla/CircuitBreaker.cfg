CONSTANTS
    Thread = {t1, t2, t3}
    FailureThreshold = 2
    SuccessThreshold = 2
SPECIFICATION Spec
INVARIANTS
    NoTripLost
PROPERTY
    Recovers
