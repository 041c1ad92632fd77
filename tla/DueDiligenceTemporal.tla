------------------------ MODULE DueDiligenceTemporal ------------------------
(***************************************************************************)
(* The Temporal pre-loan due-diligence workflow,                           *)
(* packages/bizatlas/temporal/workflows/due_diligence.py with its          *)
(* activities.                                                             *)
(*                                                                         *)
(* The workflow is a set of coroutines on one event loop: run() and the    *)
(* handlers of the advance and review updates.  They interleave at every   *)
(* await of an activity.  The workflow's own state survives crashes, being *)
(* replayed from the event history; an activity runs at least once: when   *)
(* its worker dies, or its timeout passes, after the work and before the   *)
(* result is recorded, the work is done again.                             *)
(*                                                                         *)
(* A handler refuses with a ValueError.  Before its first await that is a  *)
(* request the workflow never records.  After an await it is not one of    *)
(* the SDK's failures: it fails the workflow task, and every replay of it. *)
(***************************************************************************)
EXTENDS Naturals, FiniteSets

CONSTANTS
    Grade, ReviewRequiredGrades, NoGrade,
    Update,                 \* the update handlers that may run at once
    Run,                    \* the coroutine of run()
    MaxAttempts,            \* _ACT_RETRY.maximum_attempts
    MaxLosses,              \* bound on the attempts that are lost
    MaxRequests             \* bound on the updates that are accepted

ASSUME GradeAssumption ==
    /\ ReviewRequiredGrades \subseteq Grade
    /\ NoGrade \notin Grade

ASSUME CoroutineAssumption == Run \notin Update

ASSUME BoundAssumption ==
    /\ MaxAttempts \in Nat \ {0}
    /\ MaxLosses \in Nat
    /\ MaxRequests \in Nat

VARIABLES
    complete,               \* the company's required items are on file
    stage, analysis, report, requires_review, review_passed,  \* self.payload
    submits,                \* submit entries of payload.history
    pc,                     \* what each coroutine awaits
    activity,               \* the state of the activity it awaits
    attempts,               \* attempts of that activity lost so far
    ready, grade, image,    \* its result, or the arguments it was given
    mirror,                 \* the stage column of its workflows row
    exports,                \* reports exported
    losses,                 \* attempts lost in all
    requests,               \* updates accepted in all
    closed,                 \* run() has returned
    stuck                   \* the workflow task fails whenever it is replayed

Coroutine == Update \cup {Run}

payload   == <<stage, analysis, report, requires_review, review_passed, submits>>
activities == <<activity, attempts, ready, grade, image>>
world     == <<complete, mirror, exports>>
counters  == <<losses, requests>>
fate      == <<closed, stuck>>
vars      == <<payload, pc, activities, world, counters, fate>>

(* Coroutines run until the workflow is over, or its task cannot complete. *)
Runs == ~closed /\ ~stuck

Stages    == {"checklist", "ready", "analyzed", "reported", "awaiting_human", "submitted"}
Decisions == {"approve", "reject", "return"}
Awaited   == {"create", "refresh", "sync", "check", "analyze", "report", "export", "mirror"}

(* Only the two activities with _ACT_RETRY give up; the others use the     *)
(* default policy, which retries without end.                              *)
LimitedRetry == {"analyze", "report", "export"}

ChecklistStage(done) == IF done THEN "ready" ELSE "checklist"
-----------------------------------------------------------------------------
Init ==
    /\ complete \in BOOLEAN
    /\ stage = "checklist"
    /\ analysis = NoGrade
    /\ report = "none"
    /\ requires_review = FALSE
    /\ review_passed = FALSE
    /\ submits = 0
    /\ pc = [c \in Coroutine |-> IF c = Run THEN "create" ELSE "idle"]
    /\ activity = [c \in Coroutine |-> IF c = Run THEN "scheduled" ELSE "none"]
    /\ attempts = [c \in Coroutine |-> 0]
    /\ ready = [c \in Coroutine |-> FALSE]
    /\ grade = [c \in Coroutine |-> NoGrade]
    /\ image = [c \in Coroutine |-> "checklist"]
    /\ mirror = "checklist"
    /\ exports = 0
    /\ losses = 0
    /\ requests = 0
    /\ closed = FALSE
    /\ stuck = FALSE

(* wait_condition of run(), at p: it returns in the activation that sets   *)
(* the stage, or in the one that brings run() to the wait.                 *)
SettleRun(p) ==
    /\ closed' = (p = "wait" /\ stage' = "submitted")
    /\ UNCHANGED stuck

(* Coroutine c awaits activity p next.  An activity asked for in the       *)
(* activation that closes the workflow is never dispatched.                *)
Await(c, p) ==
    /\ pc' = [pc EXCEPT ![c] = p]
    /\ activity' = [activity EXCEPT ![c] = IF closed' THEN "none" ELSE "scheduled"]
    /\ attempts' = [attempts EXCEPT ![c] = 0]
    /\ ready' = [ready EXCEPT ![c] = FALSE]
    /\ grade' = [grade EXCEPT ![c] = NoGrade]

AwaitActivity(c, p) == Await(c, p) /\ UNCHANGED image

(* _mirror: the arguments are taken now, the row is written later. *)
AwaitMirror(c) ==
    /\ Await(c, "mirror")
    /\ image' = [image EXCEPT ![c] = stage']

(* Coroutine c stops at p and awaits no activity. *)
Rest(c, p) ==
    /\ pc' = [pc EXCEPT ![c] = p]
    /\ activity' = [activity EXCEPT ![c] = "none"]
    /\ attempts' = [attempts EXCEPT ![c] = 0]
    /\ ready' = [ready EXCEPT ![c] = FALSE]
    /\ grade' = [grade EXCEPT ![c] = NoGrade]
    /\ image' = [image EXCEPT ![c] = "checklist"]
-----------------------------------------------------------------------------
(* The handlers, up to their first await.  They wait until run() knows the *)
(* workflow's row.                                                         *)
Accepts(u) ==
    /\ pc[u] = "idle"
    /\ pc[Run] # "create"
    /\ Runs
    /\ requests < MaxRequests
    /\ requests' = requests + 1

BeginSync(u) ==
    /\ Accepts(u)
    /\ UNCHANGED <<payload, world, losses, fate>>
    /\ AwaitActivity(u, "sync")

BeginAnalyze(u) ==
    /\ Accepts(u)
    /\ UNCHANGED <<payload, world, losses, fate>>
    /\ AwaitActivity(u, "check")

ReportAllowed ==
    \/ stage \in {"analyzed", "reported", "awaiting_human"}
    \/ analysis # NoGrade

BeginReport(u) ==
    /\ Accepts(u)
    /\ ReportAllowed
    /\ UNCHANGED <<payload, world, losses, fate>>
    /\ AwaitActivity(u, "report")

SubmitAllowed_NoReview == report # "none"                            \* mutant
SubmitAllowed ==
    /\ report # "none"
    /\ requires_review => review_passed

Exporting == {u \in Update : pc[u] = "export"}

BeginSubmit_Announced(u) ==                                          \* mutant
    /\ Accepts(u)
    /\ SubmitAllowed
    /\ stage' = "submitted"
    /\ UNCHANGED <<analysis, report, requires_review, review_passed,
                   submits, world, losses, fate>>
    /\ AwaitActivity(u, "export")

BeginSubmit(u) ==
    /\ Accepts(u)
    /\ SubmitAllowed
    /\ UNCHANGED <<payload, world, losses, fate>>
    /\ AwaitActivity(u, "export")

BeginReview(u, decision) ==
    /\ Accepts(u)
    /\ review_passed' = (decision = "approve")
    /\ stage' = IF decision = "return" THEN "analyzed" ELSE stage
    /\ SettleRun(pc[Run])
    /\ AwaitMirror(u)
    /\ UNCHANGED <<analysis, report, requires_review, submits, world, losses>>
-----------------------------------------------------------------------------
(* The worker.                                                             *)
(* Work scheduled before the workflow closed may still be done after it.   *)
Done(c, p) ==
    /\ pc[c] = p
    /\ activity[c] = "scheduled"
    /\ p \in LimitedRetry => attempts[c] < MaxAttempts
    /\ activity' = [activity EXCEPT ![c] = "executed"]

(* start_dd_activity inserts a row, after a fixture seeded its metrics. *)
CreateWorkflow ==
    /\ Done(Run, "create")
    /\ complete' \in {complete, TRUE}
    /\ ready' = [ready EXCEPT ![Run] = complete']
    /\ mirror' = ChecklistStage(complete')
    /\ UNCHANGED <<payload, pc, attempts, grade, image, exports, counters, fate>>

ComputeChecklist(c) ==
    /\ \E p \in {"refresh", "sync", "check"} : Done(c, p)
    /\ ready' = [ready EXCEPT ![c] = complete]
    /\ UNCHANGED <<payload, pc, attempts, grade, image, world, counters, fate>>

(* The data and the rules may change at any time: any grade may come out. *)
ScoreCompany(c) ==
    /\ Done(c, "analyze")
    /\ \E g \in Grade : grade' = [grade EXCEPT ![c] = g]
    /\ UNCHANGED <<payload, pc, attempts, ready, image, world, counters, fate>>

WriteReport(c) ==
    /\ Done(c, "report")
    /\ UNCHANGED <<payload, pc, attempts, ready, grade, image, world, counters, fate>>

ExportReport(c) ==
    /\ Done(c, "export")
    /\ exports' = exports + 1
    /\ UNCHANGED <<payload, pc, attempts, ready, grade, image, complete, mirror,
                   counters, fate>>

WriteMirror(c) ==
    /\ Done(c, "mirror")
    /\ mirror' = image[c]
    /\ UNCHANGED <<payload, pc, attempts, ready, grade, image, complete, exports,
                   counters, fate>>

(* The worker dies, or the attempt times out, before its result is         *)
(* recorded: the service schedules the activity again.                     *)
LoseAttempt(c) ==
    /\ activity[c] # "none"
    /\ pc[c] \in LimitedRetry => attempts[c] < MaxAttempts
    /\ ~closed
    /\ losses < MaxLosses
    /\ losses' = losses + 1
    /\ attempts' = [attempts EXCEPT ![c] = @ + 1]
    /\ activity' = [activity EXCEPT ![c] = "scheduled"]
    /\ UNCHANGED <<payload, pc, ready, grade, image, world, requests, fate>>

(* Retries exhausted: the update fails, what the attempts did remains. *)
GiveUp(u) ==
    /\ pc[u] \in LimitedRetry
    /\ activity[u] = "scheduled"
    /\ attempts[u] = MaxAttempts
    /\ Runs
    /\ Rest(u, "idle")
    /\ UNCHANGED <<payload, world, counters, fate>>
-----------------------------------------------------------------------------
(* The coroutines, from the result of an activity to their next await. *)
Returned(c, p) == pc[c] = p /\ activity[c] = "executed" /\ Runs

CreateReturned ==
    /\ Returned(Run, "create")
    /\ stage' = ChecklistStage(ready[Run])
    /\ UNCHANGED <<analysis, report, requires_review, review_passed,
                   submits, world, counters, fate>>
    /\ AwaitActivity(Run, "refresh")

RefreshReturned ==
    /\ Returned(Run, "refresh")
    /\ UNCHANGED <<stage, analysis, report, requires_review, review_passed,
                   submits, world, counters, fate>>
    /\ AwaitMirror(Run)

SyncReturned(u) ==
    /\ Returned(u, "sync")
    /\ stage' = ChecklistStage(ready[u])
    /\ UNCHANGED <<analysis, report, requires_review, review_passed, submits, world, counters>>
    /\ SettleRun(pc[Run])
    /\ AwaitMirror(u)

(* Complete data are analysed; for incomplete data the handler raises. *)
CheckReturned(u) ==
    /\ Returned(u, "check")
    /\ ready[u]
    /\ UNCHANGED <<payload, world, counters, fate>>
    /\ AwaitActivity(u, "analyze")

CheckRefused(u) ==
    /\ Returned(u, "check")
    /\ ~ready[u]
    /\ stuck' = TRUE
    /\ UNCHANGED <<payload, pc, activities, world, counters, closed>>

AnalyzeReturned(u) ==
    /\ Returned(u, "analyze")
    /\ analysis' = grade[u]
    /\ stage' = "analyzed"
    /\ UNCHANGED <<report, requires_review, review_passed, submits, world, counters>>
    /\ SettleRun(pc[Run])
    /\ AwaitMirror(u)

(* The grade on file when the report is ready decides on the review. *)
ReviewDue_Undecided == analysis \in ReviewRequiredGrades /\ ~review_passed \* mutant
ReviewDue == analysis \in ReviewRequiredGrades

ReportReturned(u) ==
    /\ Returned(u, "report")
    /\ report' = "generated"
    /\ stage' = "awaiting_human"
    /\ requires_review' = (requires_review \/ ReviewDue)
    /\ UNCHANGED <<analysis, review_passed, submits, world, counters>>
    /\ SettleRun(pc[Run])
    /\ AwaitMirror(u)

SubmitReturned_Unawaited(u) ==                                       \* mutant
    /\ pc[u] = "export"
    /\ Runs
    /\ report' = "exported"
    /\ stage' = "submitted"
    /\ submits' = submits + 1
    /\ UNCHANGED <<analysis, requires_review, review_passed, world, counters>>
    /\ SettleRun(pc[Run])
    /\ AwaitMirror(u)

(* The gate is not looked at again. *)
SubmitReturned(u) ==
    /\ Returned(u, "export")
    /\ report' = "exported"
    /\ stage' = "submitted"
    /\ submits' = submits + 1
    /\ UNCHANGED <<analysis, requires_review, review_passed, world, counters>>
    /\ SettleRun(pc[Run])
    /\ AwaitMirror(u)

MirrorReturned(c) ==
    /\ Returned(c, "mirror")
    /\ Rest(c, IF c = Run THEN "wait" ELSE "idle")
    /\ UNCHANGED <<payload, world, counters>>
    /\ SettleRun(pc'[Run])

Request(u) ==
    \/ BeginSync(u) \/ BeginAnalyze(u) \/ BeginReport(u) \/ BeginSubmit(u)
    \/ \E d \in Decisions : BeginReview(u, d)

Work(c) ==
    \/ ComputeChecklist(c) \/ ScoreCompany(c) \/ WriteReport(c)
    \/ ExportReport(c) \/ WriteMirror(c)
    \/ c = Run /\ CreateWorkflow

Resume(c) ==
    \/ c = Run /\ (CreateReturned \/ RefreshReturned)
    \/ c \in Update /\ (SyncReturned(c) \/ CheckReturned(c) \/ CheckRefused(c)
                          \/ AnalyzeReturned(c) \/ ReportReturned(c)
                          \/ SubmitReturned(c) \/ GiveUp(c))
    \/ MirrorReturned(c)

(* Metrics of the company are uploaded; they are never removed. *)
CompleteData ==
    /\ complete' = TRUE
    /\ UNCHANGED <<payload, pc, activities, mirror, exports, counters, fate>>

Next ==
    \/ \E u \in Update : Request(u)
    \/ \E c \in Coroutine : Work(c) \/ Resume(c) \/ LoseAttempt(c)
    \/ CompleteData

(* The worker is restarted when it dies and polls the task queue, and the  *)
(* service delivers every result: what can proceed does.  Requests, lost   *)
(* attempts and uploads may never happen.                                  *)
Fairness == \A c \in Coroutine : WF_vars(Work(c)) /\ WF_vars(Resume(c))

Spec == Init /\ [][Next]_vars /\ Fairness
-----------------------------------------------------------------------------
TypeOK ==
    /\ complete \in BOOLEAN
    /\ stage \in Stages
    /\ analysis \in Grade \cup {NoGrade}
    /\ report \in {"none", "generated", "exported"}
    /\ requires_review \in BOOLEAN
    /\ review_passed \in BOOLEAN
    /\ submits \in Nat
    /\ pc \in [Coroutine -> Awaited \cup {"idle", "wait"}]
    /\ activity \in [Coroutine -> {"none", "scheduled", "executed"}]
    /\ attempts \in [Coroutine -> Nat]
    /\ ready \in [Coroutine -> BOOLEAN]
    /\ grade \in [Coroutine -> Grade \cup {NoGrade}]
    /\ image \in [Coroutine -> Stages]
    /\ mirror \in Stages
    /\ exports \in Nat
    /\ losses \in Nat
    /\ requests \in Nat
    /\ closed \in BOOLEAN
    /\ stuck \in BOOLEAN

(* However the handlers interleave, a draft that waits for a human never   *)
(* shows a high-risk analysis without the flag the submit gate reads: the  *)
(* flag is taken from the grade on file when the report returns, not when  *)
(* it was asked for.                                                       *)
HighRiskDraftIsFlagged ==
    stage = "awaiting_human" /\ analysis \in ReviewRequiredGrades => requires_review

(* Every submission has an export of its own, however many attempts were   *)
(* lost, and run() returns only for a workflow that was submitted.         *)
SubmissionsBacked ==
    /\ submits <= exports
    /\ closed => submits > 0 /\ stage = "submitted" /\ report = "exported"

(* The list of workflows never announces a submission that has not         *)
(* happened: retried and delayed mirror writes are old, never false.       *)
MirrorNeverAhead ==
    /\ mirror = "submitted" => submits > 0
    /\ mirror = "awaiting_human" => report # "none"

(* The workflow implements the gate; a permit is held from the guard of    *)
(* submit to the return of its export, through every retry.                *)
Gate == INSTANCE SubmissionGate WITH
    Submitter <- Update,
    drafted <- report # "none",
    required <- requires_review,
    approved <- review_passed,
    permits <- Exporting,
    submissions <- submits

ImplementsGate == Gate!Spec

(* Every update the workflow accepts is answered, unless the workflow ends *)
(* first or its task gets stuck: losing attempts a finite number of times, *)
(* or giving up on an activity, delays an answer only.                     *)
UpdatesReturn ==
    \A u \in Update : pc[u] # "idle" ~> pc[u] = "idle" \/ closed \/ stuck
-----------------------------------------------------------------------------
(* What the code says of itself and does not keep. *)

(* "After a crash the workflow recovers from its history and does not      *)
(* export twice."  No more exports than submit requests that passed.       *)
NoDuplicateExport == exports <= submits + Cardinality(Exporting)

(* "A high-risk conclusion cannot be submitted without a review that       *)
(* passes."  A workflow that needs a review becomes submitted only while   *)
(* the review is passed.                                                   *)
FlaggedSubmitReviewed ==
    [][submits' > submits /\ requires_review => review_passed]_vars

(* "submit is final."  A submitted workflow stays submitted. *)
SubmittedIsFinal == [][stage = "submitted" => stage' = "submitted"]_vars

(* "advance goes through an update, its results do not change": the        *)
(* synchronous engine answers every request, if only with a refusal.       *)
UpdatesAnswered ==
    \A u \in Update : pc[u] # "idle" ~> pc[u] = "idle" \/ closed

(* "The mirror is written after every change of state."  When nothing is   *)
(* pending, the mirror shows the stage of the workflow.                    *)
Quiescent == \A c \in Coroutine : activity[c] = "none" \/ closed

MirrorIsCurrent == Quiescent => mirror = stage
=============================================================================
