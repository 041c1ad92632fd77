--------------------------- MODULE MCDueDiligence ---------------------------
(* Grades for model checking DueDiligence: one that needs a review, two    *)
(* that do not.                                                            *)
EXTENDS DueDiligence

MCGrade == {"GREEN", "ORANGE", "UNRATED"}
MCReviewRequiredGrades == {"ORANGE"}
=============================================================================
