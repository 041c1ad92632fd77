---------------------------- MODULE DueDiligence ----------------------------
(***************************************************************************)
(* The synchronous pre-loan due-diligence engine,                          *)
(* packages/bizatlas/workflow/due_diligence.py, on one workflow row.       *)
(*                                                                         *)
(* The workflow endpoints are coroutines without an await, so requests on  *)
(* a row never overlap; company data and rules are written by endpoints    *)
(* that run on the thread pool and do change while a request is being      *)
(* served.  A request reads the row, works, and saves the row last: an     *)
(* exception or a crash before that save drops everything but the export   *)
(* rows and files already written.                                         *)
(***************************************************************************)
EXTENDS Naturals

CONSTANTS
    Grade,                  \* the risk grades (contracts.models.RiskGrade)
    ReviewRequiredGrades,   \* REVIEW_REQUIRED_GRADES
    NoGrade,                \* no analysis on file
    MaxExports              \* bound on the submit requests that pass the gate

ASSUME GradeAssumption ==
    /\ ReviewRequiredGrades \subseteq Grade
    /\ NoGrade \notin Grade

ASSUME BoundAssumption == MaxExports \in Nat

VARIABLES
    named, metrics,         \* company row: has a name, has stored metrics
    fixture,                \* payload.fixture_id is set
    kernel,                 \* the grade run_analyze would return now
    stage,                  \* workflows.stage; "absent" before the row exists
    analysis,               \* payload.analyze.summary.grade
    report,                 \* payload.report.status
    requires_review, review_passed,
    review,                 \* payload.review.status
    submits,                \* submit entries of payload.history
    step, result,           \* the request being served, the grade it computed
    rows, bundles           \* reports rows with status exported, file bundles

company == <<named, metrics, fixture, kernel>>
row     == <<stage, analysis, report, requires_review, review_passed, review, submits>>
request == <<step, result>>
exports == <<rows, bundles>>
vars    == <<company, row, request, exports>>

Stages    == {"checklist", "ready", "analyzed", "reported", "awaiting_human", "submitted"}
Decisions == {"approve", "reject", "return"}

(* The decisions and the status each one files. *)
review_status_Verbatim == [d \in Decisions |-> d]                   \* mutant
review_status == [approve |-> "approved", reject |-> "rejected", return |-> "returned"]

(* Only an approval passes the review; the other decisions withdraw it. *)
Passes_Sticky(decision) == review_passed \/ decision = "approve"    \* mutant
Passes(decision) == decision = "approve"

(* _checklist_status and _required_ready: the two required items of the    *)
(* template are the metrics and the company name.                          *)
RequiredReady_Any == named \/ metrics                               \* mutant
RequiredReady == named /\ metrics

ChecklistStage == IF RequiredReady THEN "ready" ELSE "checklist"

Idle == stage # "absent" /\ step = "idle"
-----------------------------------------------------------------------------
Init ==
    /\ named \in BOOLEAN
    /\ metrics \in BOOLEAN
    /\ fixture = FALSE
    /\ kernel \in Grade
    /\ stage = "absent"
    /\ analysis = NoGrade
    /\ report = "none"
    /\ requires_review = FALSE
    /\ review_passed = FALSE
    /\ review = "none"
    /\ submits = 0
    /\ step = "idle"
    /\ result = NoGrade
    /\ rows = 0
    /\ bundles = 0

(* create_due_diligence: a fixture names its company and seeds its metrics. *)
Start(f) ==
    /\ stage = "absent"
    /\ fixture' = f
    /\ named' = (named \/ f)
    /\ metrics' = (metrics \/ f)
    /\ stage' = IF RequiredReady' THEN "ready" ELSE "checklist"
    /\ UNCHANGED <<kernel, analysis, report, requires_review, review_passed,
                   review, submits, request, exports>>

(* advance(sync) and advance(mark): only the stage is derived again. *)
Sync ==
    /\ Idle
    /\ stage' = ChecklistStage
    /\ UNCHANGED <<company, analysis, report, requires_review, review_passed,
                   review, submits, request, exports>>

(* advance(analyze): the checklist guard, the scoring of the data as it is *)
(* now, and the save of the row.                                           *)
BeginAnalyze ==
    /\ Idle
    /\ RequiredReady
    /\ step' = "analyze"
    /\ result' = kernel
    /\ UNCHANGED <<company, row, exports>>

SaveAnalyze ==
    /\ step = "analyze"
    /\ analysis' = result
    /\ stage' = "analyzed"
    /\ step' = "idle"
    /\ result' = NoGrade
    /\ UNCHANGED <<company, report, requires_review, review_passed, review,
                   submits, exports>>

(* advance(report): generate_onepager_report scores the data again; the    *)
(* review flag is raised by the grade of the analysis on file.             *)
ReportAllowed ==
    \/ stage \in {"analyzed", "reported", "awaiting_human"}
    \/ analysis # NoGrade

(* The analysis on file, not the fresh one, decides whether a review is due. *)
ReviewDue_Fresh == result \in ReviewRequiredGrades                  \* mutant
ReviewDue == analysis \in ReviewRequiredGrades

BeginReport ==
    /\ Idle
    /\ ReportAllowed
    /\ step' = "report"
    /\ result' = kernel
    /\ UNCHANGED <<company, row, exports>>

SaveReport ==
    /\ step = "report"
    /\ report' = "generated"
    /\ stage' = "awaiting_human"
    /\ requires_review' = (requires_review \/ ReviewDue)
    /\ step' = "idle"
    /\ result' = NoGrade
    /\ UNCHANGED <<company, analysis, review_passed, review, submits, exports>>

(* advance(submit, confirm): the gate; the export, whose reports row is    *)
(* committed before its files are written; the save of the row.            *)
SubmitAllowed_DraftOnly == report # "none"                          \* mutant
SubmitAllowed ==
    /\ report # "none"
    /\ requires_review => review_passed

BeginSubmit ==
    /\ Idle
    /\ SubmitAllowed
    /\ rows < MaxExports
    /\ step' = "submit"
    /\ result' = kernel
    /\ UNCHANGED <<company, row, exports>>

SaveExportRow ==
    /\ step = "submit"
    /\ rows' = rows + 1
    /\ step' = "export"
    /\ UNCHANGED <<company, row, result, bundles>>

WriteExportFiles_Swallowed ==                                       \* mutant
    /\ step = "export"
    /\ bundles' \in {bundles, bundles + 1}
    /\ step' = "exported"
    /\ UNCHANGED <<company, row, result, rows>>

WriteExportFiles ==
    /\ step = "export"
    /\ bundles' = bundles + 1
    /\ step' = "exported"
    /\ UNCHANGED <<company, row, result, rows>>

SaveSubmit ==
    /\ step = "exported"
    /\ report' = "exported"
    /\ stage' = "submitted"
    /\ submits' = submits + 1
    /\ step' = "idle"
    /\ result' = NoGrade
    /\ UNCHANGED <<company, analysis, requires_review, review_passed, review, exports>>

(* review_due_diligence: allowed in every stage, for every decision. *)
Review(decision) ==
    /\ Idle
    /\ review' = review_status[decision]
    /\ review_passed' = Passes(decision)
    /\ stage' = IF decision = "return" THEN "analyzed" ELSE stage
    /\ UNCHANGED <<company, analysis, report, requires_review, submits, request, exports>>

(* An exception, or the end of the process, before the row is saved. *)
Abort ==
    /\ step # "idle"
    /\ step' = "idle"
    /\ result' = NoGrade
    /\ UNCHANGED <<company, row, exports>>

(* Other endpoints: replace_metrics never stores an empty list and does    *)
(* not touch the data a fixture is scored on; a rule may change any score. *)
ReplaceMetrics(g) ==
    /\ stage # "absent"
    /\ metrics' = TRUE
    /\ kernel' = IF fixture THEN kernel ELSE g
    /\ UNCHANGED <<named, fixture, row, request, exports>>

ChangeRules(g) ==
    /\ kernel' = g
    /\ UNCHANGED <<named, metrics, fixture, row, request, exports>>

Next ==
    \/ \E f \in BOOLEAN : Start(f)
    \/ Sync
    \/ BeginAnalyze \/ SaveAnalyze
    \/ BeginReport \/ SaveReport
    \/ BeginSubmit \/ SaveExportRow \/ WriteExportFiles \/ SaveSubmit
    \/ \E d \in Decisions : Review(d)
    \/ Abort
    \/ \E g \in Grade : ReplaceMetrics(g) \/ ChangeRules(g)

Spec == Init /\ [][Next]_vars
-----------------------------------------------------------------------------
TypeOK ==
    /\ named \in BOOLEAN
    /\ metrics \in BOOLEAN
    /\ fixture \in BOOLEAN
    /\ kernel \in Grade
    /\ stage \in Stages \cup {"absent"}
    /\ analysis \in Grade \cup {NoGrade}
    /\ report \in {"none", "generated", "exported"}
    /\ requires_review \in BOOLEAN
    /\ review_passed \in BOOLEAN
    /\ review \in {"none", "approved", "rejected", "returned"}
    /\ submits \in Nat
    /\ step \in {"idle", "analyze", "report", "submit", "export", "exported"}
    /\ result \in Grade \cup {NoGrade}
    /\ rows \in Nat
    /\ bundles \in Nat

(* A draft that waits for a human never shows a high-risk analysis without *)
(* the review flag: whatever was analysed, returned, rejected or refreshed *)
(* since, the flag the submit gate reads agrees with the analysis on file. *)
HighRiskDraftIsFlagged ==
    stage = "awaiting_human" /\ analysis \in ReviewRequiredGrades => requires_review

(* An analysis exists only for a company whose required items were         *)
(* complete, and completeness is not lost: a workflow that has an analysis *)
(* is never sent back to the checklist, neither by sync nor by a review.   *)
AnalysedIsComplete ==
    analysis # NoGrade => named /\ metrics /\ stage # "checklist"

(* Every submission in the history has a report row and a complete file    *)
(* bundle of its own, and a submitted workflow shows the exported report,  *)
(* whatever requests failed or died between the row, the files and the     *)
(* save of the workflow.                                                   *)
SubmissionsBacked ==
    /\ submits <= bundles
    /\ bundles <= rows
    /\ stage = "submitted" => submits > 0 /\ report = "exported"

(* No export begins for a flagged workflow unless the latest decision in   *)
(* its audit trail is an approval: a rejection or a return after an        *)
(* approval takes effect, in whatever stage it is filed.                   *)
ExportFollowsApproval ==
    [][rows' > rows => report # "none" /\ (requires_review => review = "approved")]_vars

(* The engine implements the gate: its one submitter is the request being  *)
(* served, which holds the permit from the guard to the save of the row.   *)
Gate == INSTANCE SubmissionGate WITH
    Submitter <- {"request"},
    drafted <- report # "none",
    required <- requires_review,
    approved <- review_passed,
    permits <- {s \in {"request"} : step \in {"submit", "export", "exported"}},
    exports <- rows,
    submissions <- submits

ImplementsGate == Gate!Spec
-----------------------------------------------------------------------------
(* What the code says of itself and does not keep. *)

(* advance(report): "run the risk analysis first".  A report draft exists  *)
(* only when an analysis is on file.                                       *)
ReportFollowsAnalysis == report # "none" => analysis # NoGrade

(* advance(submit): a high-risk conclusion is submitted only after a human *)
(* approved it.  The conclusion is the grade of the analysis on file.      *)
HighRiskSubmitReviewed ==
    [][submits' > submits /\ analysis \in ReviewRequiredGrades => review_passed]_vars

(* review(reject): "blocks submission (terminal; the process starts over)". *)
RejectionBlocksSubmission ==
    [][submits' > submits => review # "rejected"]_vars
=============================================================================
