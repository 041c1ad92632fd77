SPECIFICATION Spec
CONSTANTS
    None = None
    NoReply = NoReply
    Bucket <- MCBucket
    FullMetrics = 8
    LogOddsSeverity <- MCLogOddsSeverity
    OhlsonPd <- MCOhlsonPd
    RuleDocs <- MCRuleDocs
    StoredGraphs <- MCStoredGraphs
    BenchmarkTable <- MCBenchmarkTable
    Resembles <- MCResembles
    Keywords <- MCKeywords
    Requests <- MCRequests
    RuleBases <- MCRuleBases
    MaxRuleChanges = 1
    Replies <- MCReplies
    Refinements <- MCRefinements
    RagAnswers <- MCRagAnswers
INVARIANT VetoIsFinal
INVARIANT BadNewsNeverFavours
INVARIANT AttributionExplainsScore
INVARIANT GapsReachReport
 
INVARIANT ContagionOnlyRaises
CHECK_DEADLOCK FALSE
