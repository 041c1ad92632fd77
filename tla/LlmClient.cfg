CONSTANTS
    Caller = {c1, c2}
    Provider = {own}
    Platform = platform
    Nobody = nobody
    Slots = 1
    MaxRetries = 1
    ToolCallers = {t1, t2}
    FailureThreshold = 2
    SuccessThreshold = 2
    MaxToolCalls = 2
    MaxOpened = 2
SPECIFICATION CallSpec
CHECK_DEADLOCK FALSE
INVARIANTS
    SlotsConserved
    StreamedAnswersOwn
PROPERTIES
    CallsReturn
    SandboxedCallsEnd
