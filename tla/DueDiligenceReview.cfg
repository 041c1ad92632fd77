CONSTANTS
    Grade <- MCGrade
    ReviewRequiredGrades <- MCReviewRequiredGrades
    NoGrade = NoGrade
    MaxExports = 1
SPECIFICATION Spec
PROPERTY
    HighRiskSubmitReviewed
