------------------------- MODULE DueDiligenceProofs -------------------------
(***************************************************************************)
(* Theorems about the synchronous due-diligence engine, for every set of   *)
(* grades and every bound on the exports.                                  *)
(***************************************************************************)
EXTENDS DueDiligence, TLAPS

(* What the safety properties rest on.  A request that passed a guard      *)
(* still satisfies it: nothing but the request itself writes the row, and  *)
(* the company never becomes incomplete again.                             *)
RequestInv ==
    /\ step = "analyze" => named /\ metrics
    /\ step # "idle" => result \in Grade /\ stage # "absent"
    /\ step \in {"submit", "export", "exported"} => SubmitAllowed

(* The gate reads review_passed; the audit trail records review. *)
ReviewInv == review_passed <=> review = "approved"

(* The export in flight is the one its rows and bundles are ahead by. *)
LedgerInv ==
    /\ SubmissionsBacked
    /\ step = "export" => bundles < rows
    /\ step = "exported" => submits < bundles

Inv ==
    /\ TypeOK
    /\ RequestInv
    /\ ReviewInv
    /\ LedgerInv
    /\ HighRiskDraftIsFlagged
    /\ AnalysedIsComplete
-----------------------------------------------------------------------------
(* Every variable keeps its type. *)
LEMMA InitTypeOK == Init => TypeOK
<1> SUFFICES ASSUME Init PROVE TypeOK
    OBVIOUS
<1>1. /\ fixture \in BOOLEAN
      /\ requires_review \in BOOLEAN
      /\ review_passed \in BOOLEAN
    BY Zenon DEF Init
<1> QED
    BY <1>1 DEF Init, TypeOK, Stages

(* Every handler, split where the code splits, preserves the types. *)
LEMMA NextTypeOK == TypeOK /\ [Next]_vars => TypeOK'
<1> SUFFICES ASSUME TypeOK, [Next]_vars PROVE TypeOK'
    OBVIOUS
<1> USE GradeAssumption DEF GradeAssumption, TypeOK, Stages, company, row, request, exports
<1>1. ASSUME NEW f \in BOOLEAN, Start(f) PROVE TypeOK'
    BY <1>1 DEF Start
<1>2. CASE Sync
    BY <1>2 DEF Sync, ChecklistStage
<1>3. CASE BeginAnalyze \/ BeginReport \/ BeginSubmit
    BY <1>3 DEF BeginAnalyze, BeginReport, BeginSubmit
<1>4. CASE SaveAnalyze
    BY <1>4 DEF SaveAnalyze
<1>5. CASE SaveReport
    BY <1>5 DEF SaveReport, ReviewDue
<1>6. CASE SaveExportRow \/ WriteExportFiles
    BY <1>6 DEF SaveExportRow, WriteExportFiles
<1>7. CASE SaveSubmit
    BY <1>7 DEF SaveSubmit
<1>8. ASSUME NEW d \in Decisions, Review(d) PROVE TypeOK'
    <2>1. review_passed' \in BOOLEAN
        <3>1. review_passed' = (d = "approve")
            BY <1>8 DEF Review, Passes
        <3>2. (d = "approve") \in BOOLEAN
            OBVIOUS
        <3> QED
            BY <3>1, <3>2, Zenon
    <2>2. review' \in {"none", "approved", "rejected", "returned"}
        BY <1>8 DEF Review, Decisions, review_status
    <2> QED
        BY <1>8, <2>1, <2>2 DEF Review
<1>9. CASE Abort
    BY <1>9 DEF Abort
<1>10. ASSUME NEW g \in Grade, ReplaceMetrics(g) PROVE TypeOK'
    <2>1. kernel' \in Grade
        BY <1>10 DEF ReplaceMetrics
    <2> QED
        BY <1>10, <2>1 DEF ReplaceMetrics
<1>11. ASSUME NEW g \in Grade, ChangeRules(g) PROVE TypeOK'
    BY <1>11 DEF ChangeRules
<1>12. CASE UNCHANGED vars
    BY <1>12 DEF vars
<1> QED
    BY <1>1, <1>2, <1>3, <1>4, <1>5, <1>6, <1>7, <1>8, <1>9, <1>10, <1>11,
       <1>12 DEF Next

(* The engine is type-correct in every run. *)
THEOREM TypeCorrect == Spec => []TypeOK
<1>1. Init => TypeOK
    BY InitTypeOK
<1>2. TypeOK /\ [Next]_vars => TypeOK'
    BY NextTypeOK
<1> QED
    BY <1>1, <1>2, PTL DEF Spec
-----------------------------------------------------------------------------
(* A row that does not exist yet satisfies the inductive invariant. *)
LEMMA InitInv == Init => Inv
<1> SUFFICES ASSUME Init PROVE Inv
    OBVIOUS
<1>1. TypeOK
    BY InitTypeOK
<1> QED
    BY <1>1, GradeAssumption DEF GradeAssumption, Init, Inv, RequestInv, ReviewInv, LedgerInv,
        SubmissionsBacked, HighRiskDraftIsFlagged, AnalysedIsComplete

(* Every handler preserves the inductive invariant: a request that passed  *)
(* its guard relies on no other request writing the row meanwhile.         *)
LEMMA NextInv == Inv /\ [Next]_vars => Inv'
<1> SUFFICES ASSUME Inv, [Next]_vars PROVE Inv'
    OBVIOUS
<1>t. TypeOK'
    BY NextTypeOK DEF Inv
<1> USE <1>t, GradeAssumption DEF GradeAssumption, Inv, TypeOK, Stages, company, row, request, exports,
        RequestInv, ReviewInv, LedgerInv, SubmissionsBacked, SubmitAllowed,
        HighRiskDraftIsFlagged, AnalysedIsComplete
<1>1. ASSUME NEW f \in BOOLEAN, Start(f) PROVE Inv'
    BY <1>1 DEF Start, RequiredReady
<1>2. CASE Sync
    BY <1>2 DEF Sync, ChecklistStage, RequiredReady, Idle
<1>3. CASE BeginAnalyze
    BY <1>3 DEF BeginAnalyze, RequiredReady, Idle
<1>4. CASE SaveAnalyze
    BY <1>4 DEF SaveAnalyze
<1>5. CASE BeginReport
    BY <1>5 DEF BeginReport, Idle
<1>6. CASE SaveReport
    BY <1>6 DEF SaveReport, ReviewDue
<1>7. CASE BeginSubmit
    BY <1>7 DEF BeginSubmit, Idle
<1>8. CASE SaveExportRow
    BY <1>8 DEF SaveExportRow
<1>9. CASE WriteExportFiles
    BY <1>9 DEF WriteExportFiles
<1>10. CASE SaveSubmit
    BY <1>10 DEF SaveSubmit
<1>11. ASSUME NEW d \in Decisions, Review(d) PROVE Inv'
    <2>1. review_passed' <=> d = "approve"
        BY <1>11 DEF Review, Passes
    <2>2. review' = "approved" <=> d = "approve"
        BY <1>11 DEF Review, Decisions, review_status
    <2>3. ReviewInv'
        BY <2>1, <2>2
    <2>4. step = "idle" /\ step' = "idle" /\ stage' \in {stage, "analyzed"}
        BY <1>11 DEF Review, Idle
    <2> QED
        BY <1>11, <2>3, <2>4 DEF Review
<1>12. CASE Abort
    BY <1>12 DEF Abort
<1>13. ASSUME NEW g \in Grade, ReplaceMetrics(g) PROVE Inv'
    BY <1>13 DEF ReplaceMetrics
<1>14. ASSUME NEW g \in Grade, ChangeRules(g) PROVE Inv'
    BY <1>14 DEF ChangeRules
<1>15. CASE UNCHANGED vars
    BY <1>15 DEF vars
<1> QED
    BY <1>1, <1>2, <1>3, <1>4, <1>5, <1>6, <1>7, <1>8, <1>9, <1>10, <1>11,
       <1>12, <1>13, <1>14, <1>15 DEF Next

(* The strengthening the safety theorems below are read off from. *)
THEOREM InductiveInvariant == Spec => []Inv
<1>1. Init => Inv
    BY InitInv
<1>2. Inv /\ [Next]_vars => Inv'
    BY NextInv
<1> QED
    BY <1>1, <1>2, PTL DEF Spec

(* A high-risk analysis never waits for a human without the review flag.   *)
THEOREM HighRiskDraftAlwaysFlagged == Spec => []HighRiskDraftIsFlagged
<1>1. Inv => HighRiskDraftIsFlagged
    BY DEF Inv
<1> QED
    BY <1>1, InductiveInvariant, PTL

(* An analysed workflow never goes back to the checklist. *)
THEOREM AnalysedAlwaysComplete == Spec => []AnalysedIsComplete
<1>1. Inv => AnalysedIsComplete
    BY DEF Inv
<1> QED
    BY <1>1, InductiveInvariant, PTL

(* Every recorded submission has its row and its files. *)
THEOREM SubmissionsAlwaysBacked == Spec => []SubmissionsBacked
<1>1. Inv => SubmissionsBacked
    BY DEF Inv, LedgerInv
<1> QED
    BY <1>1, InductiveInvariant, PTL
-----------------------------------------------------------------------------
(* No export of a flagged workflow begins unless the latest decision on    *)
(* record approved it.                                                     *)
LEMMA ExportStep ==
    ASSUME Inv, [Next]_vars, rows' > rows
    PROVE  report # "none" /\ (requires_review => review = "approved")
<1>1. SaveExportRow
    BY DEF Inv, TypeOK, Next, vars, company, row, request, exports, Start, Sync, BeginAnalyze,
        SaveAnalyze, BeginReport, SaveReport, BeginSubmit, WriteExportFiles, SaveSubmit,
        Review, Abort, ReplaceMetrics, ChangeRules
<1>2. SubmitAllowed
    BY <1>1 DEF SaveExportRow, Inv, RequestInv
<1> QED
    BY <1>2 DEF SubmitAllowed, Inv, ReviewInv

(* The export of advance(submit) respects the latest decision filed, in    *)
(* every run: a rejection after an approval closes the gate again.         *)
THEOREM ExportAlwaysFollowsApproval == Spec => ExportFollowsApproval
<1>1. Inv /\ [Next]_vars =>
        [rows' > rows => report # "none" /\ (requires_review => review = "approved")]_vars
    BY ExportStep
<1> QED
    BY <1>1, InductiveInvariant, PTL DEF Spec, ExportFollowsApproval
-----------------------------------------------------------------------------
(* Every step of the engine is a step of the gate or leaves it unchanged.  *)
LEMMA GateInit == Init => Gate!Init
BY DEF Init, Gate!Init

(* Each handler is one step of the gate, or a step the gate does not see:  *)
(* the guard takes the permit, the row spends it, the save records it.     *)
LEMMA GateStep == Inv /\ Inv' /\ [Next]_vars => [Gate!Next]_(Gate!gateVars)
<1> SUFFICES ASSUME Inv, Inv', [Next]_vars PROVE [Gate!Next]_(Gate!gateVars)
    OBVIOUS
<1> USE DEF company, row, request, exports
<1>1. ASSUME NEW f \in BOOLEAN, Start(f) PROVE UNCHANGED Gate!gateVars
    BY <1>1 DEF Start, Gate!gateVars
<1>2. CASE Sync \/ BeginAnalyze \/ SaveAnalyze \/ BeginReport
    BY <1>2 DEF Sync, BeginAnalyze, SaveAnalyze, BeginReport, Idle, Gate!gateVars
<1>3. CASE SaveReport
    <2>1. requires_review' \in {requires_review, TRUE}
        BY <1>3 DEF SaveReport, Inv, TypeOK
    <2> QED
        BY <1>3, <2>1 DEF SaveReport, Gate!Next, Gate!Draft
<1>4. CASE BeginSubmit
    BY <1>4 DEF BeginSubmit, Idle, SubmitAllowed, Gate!Next, Gate!Grant
<1>5. CASE SaveExportRow
    BY <1>5 DEF SaveExportRow, Gate!Next, Gate!Export
<1>6. CASE WriteExportFiles
    BY <1>6 DEF WriteExportFiles, Gate!gateVars
<1>7. CASE SaveSubmit
    <2>1. submits < rows
        BY <1>7 DEF SaveSubmit, Inv, TypeOK, LedgerInv, SubmissionsBacked
    <2>2. report # "none"
        BY <1>7 DEF SaveSubmit, Inv, RequestInv, SubmitAllowed
    <2>3. Gate!Submit("request")
        BY <1>7, <2>1, <2>2 DEF SaveSubmit, Gate!Submit
    <2> QED
        BY <2>3 DEF Gate!Next
<1>8. ASSUME NEW d \in Decisions, Review(d) PROVE Gate!Next
    <2>1. review_passed' \in BOOLEAN
        BY DEF Inv, TypeOK
    <2> QED
        BY <1>8, <2>1 DEF Review, Idle, Gate!Next, Gate!Review
<1>9. CASE Abort
    <2>1. CASE step \in {"submit", "export", "exported"}
        BY <1>9, <2>1 DEF Abort, Gate!Next, Gate!Forfeit
    <2>2. CASE step \notin {"submit", "export", "exported"}
        BY <1>9, <2>2 DEF Abort, Gate!gateVars
    <2> QED
        BY <2>1, <2>2
<1>10. ASSUME NEW g \in Grade, ReplaceMetrics(g) \/ ChangeRules(g)
       PROVE  UNCHANGED Gate!gateVars
    BY <1>10 DEF ReplaceMetrics, ChangeRules, Gate!gateVars
<1>11. CASE UNCHANGED vars
    BY <1>11 DEF vars, Gate!gateVars
<1> QED
    BY <1>1, <1>2, <1>3, <1>4, <1>5, <1>6, <1>7, <1>8, <1>9, <1>10, <1>11 DEF Next

(* The engine keeps the promise of the gate. *)
THEOREM EngineImplementsGate == Spec => ImplementsGate
<1>1. Init => Gate!Init
    BY GateInit
<1>2. Inv /\ Inv' /\ [Next]_vars => [Gate!Next]_(Gate!gateVars)
    BY GateStep
<1> QED
    BY <1>1, <1>2, InductiveInvariant, PTL DEF Spec, ImplementsGate, Gate!Spec
=============================================================================
