CONSTANTS
    Grade <- MCGrade
    ReviewRequiredGrades <- MCReviewRequiredGrades
    NoGrade = NoGrade
    MaxExports = 3
SPECIFICATION Spec
INVARIANTS
    TypeOK
    HighRiskDraftIsFlagged
    AnalysedIsComplete
    SubmissionsBacked
PROPERTIES
    ExportFollowsApproval
    ImplementsGate
