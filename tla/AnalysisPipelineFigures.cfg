SPECIFICATION Spec
CONSTANTS
    None = None
    NoReply = NoReply
    Bucket <- MCBucket
    FullMetrics = 8
    LogOddsSeverity <- MCLogOddsSeverity
    OhlsonPd <- MCOhlsonPd
    RuleDocs <- MCRuleDocs
    StoredGraphs <- MCStoredGraphs
    BenchmarkTable <- MCBenchmarkTable
    Resembles <- MCResembles
    Keywords <- MCKeywords
    Requests <- MCRequests
    RuleBases <- MCRuleBases
    MaxRuleChanges = 1
    Replies <- MCReplies
    Refinements = {None}
    RagAnswers <- MCRagAnswers
INVARIANT InventedFiguresMarked
CHECK_DEADLOCK FALSE
