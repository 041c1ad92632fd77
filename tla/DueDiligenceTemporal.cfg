CONSTANTS
    Grade <- MCGrade
    ReviewRequiredGrades <- MCReviewRequiredGrades
    NoGrade = NoGrade
    Update = {u1, u2}
    Run = Run
    MaxAttempts = 1
    MaxLosses = 1
    MaxRequests = 4
    Start = {s1, s2}
    Call = {c1, c2}
    MaxQueries = 1
SPECIFICATION TemporalSpec
CHECK_DEADLOCK FALSE
SYMMETRY Symmetry
INVARIANTS
    HighRiskDraftIsFlagged
    SubmissionsBacked
    MirrorNeverAhead
    SubmitAnswersRecorded
    AnswerHasRow
PROPERTIES
    ImplementsGate
