---------------------- MODULE DueDiligenceTemporalProofs ----------------------
(***************************************************************************)
(* Theorems about the Temporal due-diligence workflow, for any number of   *)
(* concurrent updates, any grades and any bounds.  Updates interleave at   *)
(* every await, so that what a handler relies on when it resumes must be   *)
(* kept by all the others.  Below them, the gateway that starts the        *)
(* workflow and passes the calls of the pages on to it.                    *)
(***************************************************************************)
EXTENDS DueDiligenceTemporal, DueDiligenceGateway, FiniteSetTheorems, TLAPS

(* run() exports nothing itself. *)
RunInv == pc[Run] \in {"create", "refresh", "mirror", "wait"}

(* The exports that are done and whose handlers have not resumed yet. *)
Unclaimed == {u \in Update : pc[u] = "export" /\ activity[u] = "executed"}

(* Every one of them is an export no submission has been recorded for.     *)
LedgerInv ==
    /\ IsFiniteSet(Unclaimed)
    /\ submits + Cardinality(Unclaimed) <= exports

(* What a stage says, whether it is the workflow's, the row's, or on its   *)
(* way to the row.                                                         *)
Backed(s) ==
    /\ s = "submitted" => submits > 0
    /\ s = "awaiting_human" => report # "none"

StageInv ==
    /\ Backed(stage) /\ Backed(mirror)
    /\ \A c \in Coroutine : Backed(image[c])
    /\ stage = "submitted" => report = "exported"
    /\ closed => stage = "submitted"

Inv ==
    /\ TypeOK
    /\ RunInv
    /\ LedgerInv
    /\ StageInv
    /\ HighRiskDraftIsFlagged
-----------------------------------------------------------------------------
(* A coroutine that goes on to await something, or rests, keeps the types  *)
(* of what describes its wait.                                             *)
WaitTypeOK ==
    /\ pc \in [Coroutine -> Awaited \cup {"idle", "wait"}]
    /\ activity \in [Coroutine -> {"none", "scheduled", "executed"}]
    /\ attempts \in [Coroutine -> Nat]
    /\ ready \in [Coroutine -> BOOLEAN]
    /\ grade \in [Coroutine -> Grade \cup {NoGrade}]
    /\ image \in [Coroutine -> Stages]

LEMMA AwaitType ==
    ASSUME WaitTypeOK, NEW c \in Coroutine, NEW p \in Awaited, AwaitActivity(c, p)
    PROVE  WaitTypeOK'
BY DEF WaitTypeOK, AwaitActivity, Await

LEMMA MirrorType ==
    ASSUME WaitTypeOK, NEW c \in Coroutine, AwaitMirror(c), stage' \in Stages
    PROVE  WaitTypeOK'
BY DEF WaitTypeOK, AwaitMirror, Await, Awaited

LEMMA RestType ==
    ASSUME WaitTypeOK, NEW c \in Coroutine, NEW p \in {"idle", "wait"}, Rest(c, p)
    PROVE  WaitTypeOK'
BY DEF WaitTypeOK, Rest, Stages

LEMMA SettleType ==
    ASSUME stuck \in BOOLEAN, NEW p, SettleRun(p)
    PROVE  closed' \in BOOLEAN /\ stuck' \in BOOLEAN
<1>1. closed' = (p = "wait" /\ stage' = "submitted") /\ stuck' = stuck
  BY DEF SettleRun
<1>2. (p = "wait" /\ stage' = "submitted") \in BOOLEAN
  OBVIOUS
<1> QED BY <1>1, <1>2, Zenon

LEMMA InitTypeOK == Init => TypeOK
<1> SUFFICES ASSUME Init PROVE TypeOK
  OBVIOUS
<1>1. complete \in BOOLEAN
  BY Zenon DEF Init
<1> QED BY <1>1 DEF Init, TypeOK, Stages, Awaited

(* A request, up to its first await. *)
LEMMA RequestTypeOK == ASSUME TypeOK, NEW u \in Update, Request(u) PROVE TypeOK'
<1> USE DEF TypeOK
<1>1. u \in Coroutine /\ WaitTypeOK
  BY DEF Coroutine, WaitTypeOK
<1>2. requests' \in Nat
  BY DEF Request, BeginSync, BeginAnalyze, BeginReport, BeginSubmit, BeginReview, Accepts
<1>3. CASE BeginSync(u) \/ BeginAnalyze(u) \/ BeginReport(u) \/ BeginSubmit(u)
  <2>1. UNCHANGED <<payload, world, losses, fate>>
    BY <1>3 DEF BeginSync, BeginAnalyze, BeginReport, BeginSubmit
  <2>2. \E p \in Awaited : AwaitActivity(u, p)
    BY <1>3 DEF BeginSync, BeginAnalyze, BeginReport, BeginSubmit, Awaited
  <2>3. WaitTypeOK'
    BY <1>1, <2>2, AwaitType
  <2> QED BY <1>2, <2>1, <2>3 DEF payload, world, fate, WaitTypeOK
<1>4. ASSUME NEW d \in Decisions, BeginReview(u, d) PROVE TypeOK'
  <2>1. review_passed' \in BOOLEAN
    <3>1. review_passed' = (d = "approve") /\ (d = "approve") \in BOOLEAN
      BY <1>4 DEF BeginReview
    <3> QED BY <3>1, Zenon
  <2>2. stage' \in Stages
    BY <1>4 DEF BeginReview, Stages
  <2>3. closed' \in BOOLEAN /\ stuck' \in BOOLEAN
    BY <1>4, SettleType DEF BeginReview
  <2>4. WaitTypeOK'
    BY <1>1, <1>4, <2>2, MirrorType DEF BeginReview
  <2> QED BY <1>2, <1>4, <2>1, <2>2, <2>3, <2>4 DEF BeginReview, WaitTypeOK, world
<1> QED BY <1>3, <1>4 DEF Request

(* What the worker does; the service calls an attempt lost. *)
LEMMA WorkTypeOK == ASSUME TypeOK, NEW c \in Coroutine, Work(c) \/ LoseAttempt(c) PROVE TypeOK'
<1> USE DEF TypeOK, payload, world, counters, fate
<1>1. CASE ComputeChecklist(c)
  BY <1>1 DEF ComputeChecklist, Done
<1>2. CASE ScoreCompany(c)
  BY <1>2 DEF ScoreCompany, Done
<1>3. CASE WriteReport(c) \/ ExportReport(c)
  BY <1>3 DEF WriteReport, ExportReport, Done
<1>4. CASE WriteMirror(c)
  BY <1>4 DEF WriteMirror, Done
<1>5. CASE c = Run /\ CreateWorkflow
  <2>1. complete' \in BOOLEAN
    <3>1. complete' = complete \/ complete' = TRUE
      BY <1>5 DEF CreateWorkflow
    <3> QED BY <3>1
  <2>2. mirror' \in Stages
    BY <1>5 DEF CreateWorkflow, ChecklistStage, Stages
  <2>3. ready' \in [Coroutine -> BOOLEAN]
    BY <1>5, <2>1 DEF CreateWorkflow
  <2> QED BY <1>5, <2>1, <2>2, <2>3 DEF CreateWorkflow, Done
<1>6. CASE LoseAttempt(c)
  BY <1>6 DEF LoseAttempt
<1> QED BY <1>1, <1>2, <1>3, <1>4, <1>5, <1>6 DEF Work

(* A coroutine, from a result to its next await. *)
LEMMA ResumeTypeOK == ASSUME TypeOK, NEW c \in Coroutine, Resume(c) PROVE TypeOK'
<1> USE DEF TypeOK
<1>1. WaitTypeOK
  BY DEF WaitTypeOK
<1>2. CASE c = Run /\ CreateReturned
  <2>1. WaitTypeOK'
    BY <1>1, <1>2, AwaitType DEF CreateReturned, Awaited
  <2> QED BY <1>2, <2>1 DEF CreateReturned, ChecklistStage, Stages, WaitTypeOK, world, counters, fate
<1>3. CASE c = Run /\ RefreshReturned
  <2>1. stage' \in Stages
    BY <1>3 DEF RefreshReturned
  <2>2. WaitTypeOK'
    BY <1>1, <1>3, <2>1, MirrorType DEF RefreshReturned
  <2> QED BY <1>3, <2>2 DEF RefreshReturned, WaitTypeOK, world, counters, fate
<1>4. CASE c \in Update /\ SyncReturned(c)
  <2>1. stage' \in Stages
    BY <1>4 DEF SyncReturned, ChecklistStage, Stages
  <2>2. WaitTypeOK' /\ closed' \in BOOLEAN /\ stuck' \in BOOLEAN
    BY <1>1, <1>4, <2>1, MirrorType, SettleType DEF SyncReturned
  <2> QED BY <1>4, <2>1, <2>2 DEF SyncReturned, WaitTypeOK, world, counters
<1>5. CASE c \in Update /\ CheckReturned(c)
  <2>1. WaitTypeOK'
    BY <1>1, <1>5, AwaitType DEF CheckReturned, Awaited
  <2> QED BY <1>5, <2>1 DEF CheckReturned, WaitTypeOK, payload, world, counters, fate
<1>6. CASE c \in Update /\ CheckRefused(c)
  BY <1>6 DEF CheckRefused, payload, activities, world, counters
<1>7. CASE c \in Update /\ AnalyzeReturned(c)
  <2>1. stage' \in Stages /\ analysis' \in Grade \cup {NoGrade}
    BY <1>7 DEF AnalyzeReturned, Stages
  <2>2. WaitTypeOK' /\ closed' \in BOOLEAN /\ stuck' \in BOOLEAN
    BY <1>1, <1>7, <2>1, MirrorType, SettleType DEF AnalyzeReturned
  <2> QED BY <1>7, <2>1, <2>2 DEF AnalyzeReturned, WaitTypeOK, world, counters
<1>8. CASE c \in Update /\ ReportReturned(c)
  <2>1. stage' \in Stages /\ report' = "generated"
    BY <1>8 DEF ReportReturned, Stages
  <2>2. requires_review' \in BOOLEAN
    <3>1. requires_review' = (requires_review \/ ReviewDue) /\ (requires_review \/ ReviewDue) \in BOOLEAN
      BY <1>8 DEF ReportReturned
    <3> QED BY <3>1, Zenon
  <2>3. WaitTypeOK' /\ closed' \in BOOLEAN /\ stuck' \in BOOLEAN
    BY <1>1, <1>8, <2>1, MirrorType, SettleType DEF ReportReturned
  <2> QED BY <1>8, <2>1, <2>2, <2>3 DEF ReportReturned, WaitTypeOK, world, counters
<1>9. CASE c \in Update /\ SubmitReturned(c)
  <2>1. stage' \in Stages /\ report' = "exported" /\ submits' \in Nat
    BY <1>9 DEF SubmitReturned, Stages
  <2>2. WaitTypeOK' /\ closed' \in BOOLEAN /\ stuck' \in BOOLEAN
    BY <1>1, <1>9, <2>1, MirrorType, SettleType DEF SubmitReturned
  <2> QED BY <1>9, <2>1, <2>2 DEF SubmitReturned, WaitTypeOK, world, counters
<1>10. CASE c \in Update /\ GiveUp(c)
  <2>1. WaitTypeOK'
    BY <1>1, <1>10, RestType DEF GiveUp
  <2> QED BY <1>10, <2>1 DEF GiveUp, WaitTypeOK, payload, world, counters, fate
<1>11. CASE MirrorReturned(c)
  <2>1. WaitTypeOK' /\ closed' \in BOOLEAN /\ stuck' \in BOOLEAN
    BY <1>1, <1>11, RestType, SettleType DEF MirrorReturned
  <2> QED BY <1>11, <2>1 DEF MirrorReturned, WaitTypeOK, payload, world, counters
<1> QED BY <1>2, <1>3, <1>4, <1>5, <1>6, <1>7, <1>8, <1>9, <1>10, <1>11 DEF Resume

LEMMA NextTypeOK == TypeOK /\ [Next]_vars => TypeOK'
<1> SUFFICES ASSUME TypeOK, [Next]_vars PROVE TypeOK'
  OBVIOUS
<1>1. CASE CompleteData
  BY <1>1 DEF CompleteData, TypeOK, payload, activities, counters, fate
<1>2. CASE UNCHANGED vars
  BY <1>2 DEF vars, TypeOK, payload, activities, world, counters, fate
<1> QED BY <1>1, <1>2, RequestTypeOK, WorkTypeOK, ResumeTypeOK DEF Next
-----------------------------------------------------------------------------
(* The invariant holds before the first task. *)
LEMMA InitInv == Init => Inv
<1> SUFFICES ASSUME Init PROVE Inv
  OBVIOUS
<1>1. TypeOK
  BY InitTypeOK
<1>2. Unclaimed = {}
  BY CoroutineAssumption DEF Init, Unclaimed, Coroutine
<1>3. LedgerInv
  BY <1>2, FS_EmptySet DEF Init, LedgerInv
<1>4. RunInv
  BY DEF Init, RunInv, Coroutine
<1>5. StageInv /\ HighRiskDraftIsFlagged
  BY DEF Init, StageInv, Backed, HighRiskDraftIsFlagged
<1> QED BY <1>1, <1>3, <1>4, <1>5 DEF Inv

(* What a step does to the exports that wait for their handlers: nothing,  *)
(* or it adds or removes one.                                              *)
LEMMA LedgerSame ==
    ASSUME LedgerInv, TypeOK, Unclaimed' = Unclaimed, submits' = submits, exports' = exports
    PROVE  LedgerInv'
BY DEF LedgerInv

LEMMA LedgerDrop ==
    ASSUME LedgerInv, TypeOK, NEW u, Unclaimed' = Unclaimed \ {u}, submits' = submits, exports' = exports
    PROVE  LedgerInv'
<1>1. IsFiniteSet(Unclaimed) /\ Cardinality(Unclaimed) \in Nat
  BY FS_CardinalityType DEF LedgerInv
<1>2. IsFiniteSet(Unclaimed') /\ Cardinality(Unclaimed') \in Nat /\ Cardinality(Unclaimed') <= Cardinality(Unclaimed)
  BY <1>1, FS_RemoveElement, FS_CardinalityType
<1> QED BY <1>1, <1>2 DEF LedgerInv, TypeOK

LEMMA LedgerExport ==
    ASSUME LedgerInv, TypeOK, NEW u, Unclaimed' = Unclaimed \cup {u}, submits' = submits, exports' = exports + 1
    PROVE  LedgerInv'
<1>1. IsFiniteSet(Unclaimed) /\ Cardinality(Unclaimed) \in Nat
  BY FS_CardinalityType DEF LedgerInv
<1>2. IsFiniteSet(Unclaimed \cup {u}) /\ Cardinality(Unclaimed \cup {u}) \in Nat
  BY <1>1, FS_AddElement, FS_CardinalityType
<1>3. Cardinality(Unclaimed \cup {u}) = IF u \in Unclaimed THEN Cardinality(Unclaimed) ELSE Cardinality(Unclaimed) + 1
  BY <1>1, FS_AddElement
<1> QED BY <1>1, <1>2, <1>3 DEF LedgerInv, TypeOK

LEMMA LedgerSubmit ==
    ASSUME LedgerInv, TypeOK, NEW u \in Unclaimed, Unclaimed' = Unclaimed \ {u}, submits' = submits + 1, exports' = exports
    PROVE  LedgerInv' /\ submits < exports
<1>1. IsFiniteSet(Unclaimed) /\ Cardinality(Unclaimed) \in Nat
  BY FS_CardinalityType DEF LedgerInv
<1>2. /\ IsFiniteSet(Unclaimed') /\ Cardinality(Unclaimed') \in Nat
      /\ Cardinality(Unclaimed') = Cardinality(Unclaimed) - 1
  BY <1>1, FS_RemoveElement, FS_CardinalityType
<1> QED BY <1>1, <1>2 DEF LedgerInv, TypeOK
-----------------------------------------------------------------------------
(* Nobody resumes or gives up an export that is not its own: only the      *)
(* entries of one coroutine change.                                        *)
Others(c) ==
    \A x \in Coroutine \ {c} : pc'[x] = pc[x] /\ activity'[x] = activity[x] /\ image'[x] = image[x]

LEMMA AwaitMoves ==
    ASSUME TypeOK, NEW c \in Coroutine, NEW p \in Awaited, AwaitActivity(c, p)
    PROVE  Others(c) /\ pc'[c] = p /\ activity'[c] \in {"none", "scheduled"} /\ image' = image
BY DEF TypeOK, AwaitActivity, Await, Others

LEMMA MirrorMoves ==
    ASSUME TypeOK, NEW c \in Coroutine, AwaitMirror(c)
    PROVE  Others(c) /\ pc'[c] = "mirror" /\ image'[c] = stage'
BY DEF TypeOK, AwaitMirror, Await, Others

LEMMA RestMoves ==
    ASSUME TypeOK, NEW c \in Coroutine, NEW p, Rest(c, p)
    PROVE  Others(c) /\ pc'[c] = p /\ activity'[c] = "none" /\ image'[c] = "checklist"
BY DEF TypeOK, Rest, Others

(* A coroutine whose export is not done, before or after, leaves the       *)
(* unclaimed exports alone; one that resumes from an export claims it.     *)
Exported(c) == pc[c] = "export" /\ activity[c] = "executed"

LEMMA UnclaimedSame ==
    ASSUME NEW c \in Coroutine, Others(c), ~Exported(c), ~(pc'[c] = "export" /\ activity'[c] = "executed")
    PROVE  Unclaimed' = Unclaimed
BY DEF Others, Unclaimed, Exported, Coroutine

LEMMA UnclaimedClaimed ==
    ASSUME NEW c \in Coroutine, Others(c), ~(pc'[c] = "export" /\ activity'[c] = "executed")
    PROVE  Unclaimed' = Unclaimed \ {c}
BY DEF Others, Unclaimed, Coroutine

LEMMA UnclaimedAdded ==
    ASSUME NEW c \in Update, Others(c), pc'[c] = "export" /\ activity'[c] = "executed"
    PROVE  Unclaimed' = Unclaimed \cup {c}
BY DEF Others, Unclaimed, Coroutine

(* Drafts and submissions are never undone, so that what an image or the   *)
(* row says stays true.                                                    *)
LEMMA StagesKept ==
    ASSUME TypeOK, StageInv, TypeOK', NEW c \in Coroutine,
           \A x \in Coroutine \ {c} : image'[x] = image[x],
           image'[c] \in {image[c], stage', "checklist"},
           Backed(stage)', submits' >= submits, report # "none" => report' # "none",
           mirror' \in {mirror, "checklist", "ready"}
    PROVE  Backed(mirror)' /\ \A x \in Coroutine : Backed(image[x])'
BY DEF TypeOK, StageInv, Backed

(* A request touches its own update and, for a review, the stage. *)
LEMMA RequestInv == ASSUME Inv, TypeOK', NEW u \in Update, Request(u) PROVE Inv'
<1>1. TypeOK /\ u \in Coroutine /\ u # Run /\ pc[u] = "idle"
  BY CoroutineAssumption DEF Inv, Coroutine, Request, BeginSync, BeginAnalyze, BeginReport, BeginSubmit,
     BeginReview, Accepts
<1>2. ~Exported(u)
  BY <1>1 DEF Exported
<1>3. CASE BeginSync(u) \/ BeginAnalyze(u) \/ BeginReport(u) \/ BeginSubmit(u)
  <2>1. UNCHANGED <<payload, world, fate>>
    BY <1>3 DEF BeginSync, BeginAnalyze, BeginReport, BeginSubmit
  <2>2. PICK p \in Awaited : AwaitActivity(u, p)
    BY <1>3 DEF BeginSync, BeginAnalyze, BeginReport, BeginSubmit, Awaited
  <2>3. Others(u) /\ activity'[u] # "executed" /\ image' = image
    BY <1>1, <2>2, AwaitMoves
  <2>4. Unclaimed' = Unclaimed
    BY <1>1, <1>2, <2>3, UnclaimedSame
  <2>5. LedgerInv'
    BY <1>1, <2>1, <2>4, LedgerSame DEF Inv, payload, world
  <2>6. RunInv'
    BY <1>1, <2>3 DEF Inv, RunInv, Others, Coroutine
  <2>7. StageInv' /\ HighRiskDraftIsFlagged'
    BY <2>1, <2>3 DEF Inv, StageInv, Backed, HighRiskDraftIsFlagged, payload, world, fate
  <2> QED BY <2>5, <2>6, <2>7 DEF Inv
<1>4. ASSUME NEW d \in Decisions, BeginReview(u, d) PROVE Inv'
  <2>1. /\ stage' \in {stage, "analyzed"} /\ closed' = (pc[Run] = "wait" /\ stage' = "submitted")
        /\ UNCHANGED <<analysis, report, requires_review, submits, world>> /\ AwaitMirror(u)
    BY <1>4 DEF BeginReview, SettleRun
  <2>2. Others(u) /\ pc'[u] = "mirror" /\ image'[u] = stage'
    BY <1>1, <2>1, MirrorMoves
  <2>3. Unclaimed' = Unclaimed
    BY <1>1, <1>2, <2>2, UnclaimedSame
  <2>4. LedgerInv'
    BY <1>1, <2>1, <2>3, LedgerSame DEF Inv, world
  <2>5. RunInv'
    BY <1>1, <2>2 DEF Inv, RunInv, Others, Coroutine
  <2>6. Backed(stage)' /\ (stage' = "submitted" => report' = "exported") /\ (closed' => stage' = "submitted")
    BY <2>1 DEF Inv, StageInv, Backed
  <2>7. Backed(mirror)' /\ \A x \in Coroutine : Backed(image[x])'
    BY <1>1, <2>1, <2>2, <2>6, StagesKept DEF Inv, TypeOK, Others, world
  <2>8. HighRiskDraftIsFlagged'
    BY <2>1 DEF Inv, HighRiskDraftIsFlagged
  <2> QED BY <2>4, <2>5, <2>6, <2>7, <2>8 DEF Inv, StageInv
<1> QED BY <1>3, <1>4 DEF Request

(* The worker writes no payload; an export that is done waits for its      *)
(* handler, unless its result is lost.                                     *)
LEMMA WorkInv == ASSUME Inv, TypeOK', NEW c \in Coroutine, Work(c) \/ LoseAttempt(c) PROVE Inv'
<1>1. TypeOK /\ Run \in Coroutine
  BY DEF Inv, Coroutine
<1>2. UNCHANGED <<payload, pc, image, fate>>
  BY DEF Work, LoseAttempt, ComputeChecklist, ScoreCompany, WriteReport, ExportReport, WriteMirror, CreateWorkflow
<1>3. RunInv' /\ HighRiskDraftIsFlagged'
  BY <1>2 DEF Inv, RunInv, HighRiskDraftIsFlagged, payload
<1>4. Others(c)
  <2>1. \E a \in {"scheduled", "executed"} : activity' = [activity EXCEPT ![c] = a]
    <3>1. CASE \E p \in Awaited : Done(c, p)
      BY <3>1 DEF Done
    <3>2. CASE LoseAttempt(c)
      BY <3>2 DEF LoseAttempt
    <3> QED BY <3>1, <3>2 DEF Work, ComputeChecklist, ScoreCompany, WriteReport, ExportReport, WriteMirror,
          CreateWorkflow, Awaited
  <2> QED BY <1>1, <1>2, <2>1 DEF Others, TypeOK
<1>5. StageInv'
  <2>1. Backed(mirror)'
    <3>1. CASE WriteMirror(c)
      BY <1>2, <3>1 DEF WriteMirror, Inv, StageInv, Backed, payload
    <3>2. CASE c = Run /\ CreateWorkflow
      BY <1>2, <3>2 DEF CreateWorkflow, ChecklistStage, Backed
    <3>3. CASE mirror' = mirror
      BY <1>2, <3>3 DEF Inv, StageInv, Backed, payload
    <3> QED BY <3>1, <3>2, <3>3 DEF Work, LoseAttempt, ComputeChecklist, ScoreCompany, WriteReport, ExportReport, world
  <2> QED BY <1>2, <2>1 DEF Inv, StageInv, Backed, payload, fate
<1>6. LedgerInv'
  <2>1. CASE ExportReport(c)
    <3>1. c \in Update
      BY <1>1, <2>1 DEF ExportReport, Done, Inv, RunInv, Coroutine
    <3>2. pc'[c] = "export" /\ activity'[c] = "executed" /\ submits' = submits /\ exports' = exports + 1
      BY <1>1, <1>2, <2>1 DEF ExportReport, Done, TypeOK, payload
    <3>3. Unclaimed' = Unclaimed \cup {c}
      BY <1>4, <3>1, <3>2, UnclaimedAdded
    <3> QED BY <1>1, <3>2, <3>3, LedgerExport DEF Inv
  <2>2. CASE LoseAttempt(c)
    <3>1. activity'[c] = "scheduled" /\ submits' = submits /\ exports' = exports
      BY <1>1, <2>2 DEF LoseAttempt, TypeOK, payload, world
    <3>2. Unclaimed' = Unclaimed \ {c}
      BY <1>4, <3>1, UnclaimedClaimed
    <3> QED BY <1>1, <3>1, <3>2, LedgerDrop DEF Inv
  <2>3. CASE ComputeChecklist(c) \/ ScoreCompany(c) \/ WriteReport(c) \/ WriteMirror(c) \/ (c = Run /\ CreateWorkflow)
    <3>1. pc[c] # "export" /\ pc'[c] # "export" /\ submits' = submits /\ exports' = exports
      BY <1>2, <2>3 DEF ComputeChecklist, ScoreCompany, WriteReport, WriteMirror, CreateWorkflow, Done, payload, world
    <3>2. Unclaimed' = Unclaimed
      BY <1>4, <3>1, UnclaimedSame DEF Exported
    <3> QED BY <1>1, <3>1, <3>2, LedgerSame DEF Inv
  <2> QED BY <2>1, <2>2, <2>3 DEF Work
<1> QED BY <1>3, <1>5, <1>6 DEF Inv

(* A coroutine that resumes writes the payload and goes on to an await: the *)
(* draft that waits for a human is flagged by the handler that wrote it.   *)
LEMMA ResumeInv == ASSUME Inv, TypeOK', NEW c \in Coroutine, Resume(c) PROVE Inv'
<1>1. TypeOK /\ Run \in Coroutine /\ Run \notin Update
  BY CoroutineAssumption DEF Inv, Coroutine
<1>2. CASE c = Run /\ (CreateReturned \/ RefreshReturned)
  <2>1. /\ pc[c] \in {"create", "refresh"} /\ ~closed /\ closed' = closed
        /\ stage' \in {stage, "checklist", "ready"}
        /\ UNCHANGED <<analysis, report, requires_review, submits, world>>
    BY <1>2 DEF CreateReturned, RefreshReturned, Returned, Runs, ChecklistStage, fate
  <2>2. Others(c) /\ pc'[c] \in {"refresh", "mirror"} /\ image'[c] \in {image[c], stage'}
    <3>1. CASE CreateReturned
      BY <1>1, <1>2, <3>1, AwaitMoves DEF CreateReturned, Awaited
    <3>2. CASE RefreshReturned
      BY <1>1, <1>2, <3>2, MirrorMoves DEF RefreshReturned
    <3> QED BY <1>2, <3>1, <3>2
  <2>3. Unclaimed' = Unclaimed
    BY <1>1, <2>1, <2>2, UnclaimedSame DEF Exported
  <2>4. LedgerInv'
    BY <1>1, <2>1, <2>3, LedgerSame DEF Inv, world
  <2>5. Backed(stage)' /\ (stage' = "submitted" => report' = "exported") /\ ~closed'
    BY <2>1 DEF Inv, StageInv, Backed
  <2>6. Backed(mirror)' /\ \A x \in Coroutine : Backed(image[x])'
    BY <1>1, <2>1, <2>2, <2>5, StagesKept DEF Inv, TypeOK, Others, world
  <2>7. RunInv' /\ HighRiskDraftIsFlagged'
    BY <1>2, <2>1, <2>2 DEF Inv, RunInv, HighRiskDraftIsFlagged
  <2> QED BY <2>4, <2>5, <2>6, <2>7 DEF Inv, StageInv
<1>3. CASE c \in Update /\ (SyncReturned(c) \/ AnalyzeReturned(c) \/ ReportReturned(c))
  <2>1. /\ pc[c] \in {"sync", "analyze", "report"} /\ closed' = (pc[Run] = "wait" /\ stage' = "submitted")
        /\ stage' \in {"checklist", "ready", "analyzed", "awaiting_human"} /\ submits' = submits
        /\ report' \in {report, "generated"} /\ (stage' = "awaiting_human" => report' = "generated")
        /\ UNCHANGED world /\ AwaitMirror(c)
    BY <1>3 DEF SyncReturned, AnalyzeReturned, ReportReturned, Returned, SettleRun, ChecklistStage
  <2>2. Others(c) /\ pc'[c] = "mirror" /\ image'[c] = stage'
    BY <1>1, <2>1, MirrorMoves
  <2>3. Unclaimed' = Unclaimed
    BY <1>1, <2>1, <2>2, UnclaimedSame DEF Exported
  <2>4. LedgerInv'
    BY <1>1, <2>1, <2>3, LedgerSame DEF Inv, world
  <2>5. Backed(stage)' /\ stage' # "submitted" /\ ~closed'
    BY <2>1 DEF Backed
  <2>6. Backed(mirror)' /\ \A x \in Coroutine : Backed(image[x])'
    BY <1>1, <2>1, <2>2, <2>5, StagesKept DEF Inv, TypeOK, Others, world
  <2>7. RunInv'
    BY <1>1, <1>3, <2>2 DEF Inv, RunInv, Others
  <2>8. HighRiskDraftIsFlagged'
    BY <1>3 DEF SyncReturned, AnalyzeReturned, ReportReturned, ReviewDue, ChecklistStage, HighRiskDraftIsFlagged
  <2> QED BY <2>4, <2>5, <2>6, <2>7, <2>8 DEF Inv, StageInv
<1>4. CASE c \in Update /\ CheckReturned(c)
  <2>1. pc[c] = "check" /\ UNCHANGED <<payload, world, fate>> /\ AwaitActivity(c, "analyze")
    BY <1>4 DEF CheckReturned, Returned
  <2>2. Others(c) /\ pc'[c] = "analyze" /\ image' = image
    BY <1>1, <2>1, AwaitMoves DEF Awaited
  <2>3. Unclaimed' = Unclaimed
    BY <1>1, <2>1, <2>2, UnclaimedSame DEF Exported
  <2>4. LedgerInv'
    BY <1>1, <2>1, <2>3, LedgerSame DEF Inv, payload, world
  <2>5. RunInv'
    BY <1>1, <1>4, <2>2 DEF Inv, RunInv, Others
  <2>6. StageInv' /\ HighRiskDraftIsFlagged'
    BY <2>1, <2>2 DEF Inv, StageInv, Backed, HighRiskDraftIsFlagged, payload, world, fate
  <2> QED BY <2>4, <2>5, <2>6 DEF Inv
<1>5. CASE c \in Update /\ CheckRefused(c)
  <2>1. UNCHANGED <<payload, pc, activity, image, world, closed>>
    BY <1>5 DEF CheckRefused, activities
  <2>2. Unclaimed' = Unclaimed
    BY <2>1 DEF Unclaimed
  <2>3. LedgerInv'
    BY <1>1, <2>1, <2>2, LedgerSame DEF Inv, payload, world
  <2> QED BY <2>1, <2>3 DEF Inv, RunInv, StageInv, Backed, HighRiskDraftIsFlagged, payload, world
<1>6. CASE c \in Update /\ SubmitReturned(c)
  <2>1. /\ c \in Unclaimed /\ closed' = (pc[Run] = "wait" /\ stage' = "submitted")
        /\ stage' = "submitted" /\ report' = "exported" /\ submits' = submits + 1
        /\ UNCHANGED world /\ AwaitMirror(c)
    BY <1>6 DEF SubmitReturned, Returned, SettleRun, Unclaimed
  <2>2. Others(c) /\ pc'[c] = "mirror" /\ image'[c] = stage'
    BY <1>1, <2>1, MirrorMoves
  <2>3. Unclaimed' = Unclaimed \ {c}
    BY <2>2, UnclaimedClaimed
  <2>4. LedgerInv'
    BY <1>1, <2>1, <2>3, LedgerSubmit DEF Inv, world
  <2>5. Backed(stage)' /\ (stage' = "submitted" => report' = "exported") /\ (closed' => stage' = "submitted")
    BY <1>1, <2>1 DEF Backed, TypeOK
  <2>6. Backed(mirror)' /\ \A x \in Coroutine : Backed(image[x])'
    BY <1>1, <2>1, <2>2, <2>5, StagesKept DEF Inv, TypeOK, Others, world
  <2>7. RunInv' /\ HighRiskDraftIsFlagged'
    BY <1>1, <1>6, <2>1, <2>2 DEF Inv, RunInv, Others, HighRiskDraftIsFlagged
  <2> QED BY <2>4, <2>5, <2>6, <2>7 DEF Inv, StageInv
<1>7. CASE (c \in Update /\ GiveUp(c)) \/ MirrorReturned(c)
  <2>1. /\ ~Exported(c) /\ UNCHANGED <<payload, world>>
        /\ \E p \in {"idle", "wait"} : Rest(c, p) /\ (c = Run => p = "wait")
    BY <1>1, <1>7 DEF GiveUp, MirrorReturned, Returned, Exported
  <2>2. Others(c) /\ pc'[c] \in {"idle", "wait"} /\ (c = Run => pc'[c] = "wait") /\ image'[c] = "checklist"
    BY <1>1, <2>1, RestMoves
  <2>3. Unclaimed' = Unclaimed
    BY <2>1, <2>2, UnclaimedSame
  <2>4. LedgerInv'
    BY <1>1, <2>1, <2>3, LedgerSame DEF Inv, payload, world
  <2>5. RunInv'
    BY <1>1, <2>2 DEF Inv, RunInv, Others
  <2>6. closed' => stage' = "submitted"
    BY <1>7, <2>1 DEF GiveUp, MirrorReturned, SettleRun, Inv, StageInv, fate, payload
  <2>7. Backed(stage)' /\ Backed(mirror)' /\ \A x \in Coroutine : Backed(image[x])'
    BY <1>1, <2>1, <2>2, StagesKept DEF Inv, TypeOK, Others, StageInv, Backed, payload, world
  <2>8. (stage' = "submitted" => report' = "exported") /\ HighRiskDraftIsFlagged'
    BY <2>1 DEF Inv, StageInv, HighRiskDraftIsFlagged, payload
  <2> QED BY <2>4, <2>5, <2>6, <2>7, <2>8 DEF Inv, StageInv
<1> QED BY <1>2, <1>3, <1>4, <1>5, <1>6, <1>7 DEF Resume

LEMMA NextInv == Inv /\ [Next]_vars => Inv'
<1> SUFFICES ASSUME Inv, [Next]_vars PROVE Inv'
  OBVIOUS
<1>1. TypeOK /\ TypeOK'
  BY NextTypeOK DEF Inv
<1>2. CASE CompleteData \/ UNCHANGED vars
  <2>1. UNCHANGED <<payload, pc, activity, image, mirror, exports, fate>>
    BY <1>2 DEF CompleteData, vars, activities, world
  <2>2. Unclaimed' = Unclaimed
    BY <2>1 DEF Unclaimed
  <2>3. LedgerInv'
    BY <1>1, <2>1, <2>2, LedgerSame DEF Inv, payload
  <2> QED BY <1>1, <2>1, <2>3 DEF Inv, RunInv, StageInv, Backed, HighRiskDraftIsFlagged, payload, fate
<1> QED BY <1>1, <1>2, RequestInv, WorkInv, ResumeInv DEF Next
-----------------------------------------------------------------------------
(* Every reachable state has the types and the invariant. *)
THEOREM InductiveInvariant == Spec => []Inv
<1> QED BY InitInv, NextInv, PTL DEF Spec

(* However many updates interleave at their awaits, a draft that waits for *)
(* a human is flagged when the analysis beside it is of a grade that needs *)
(* a review: report_data is read and requires_review written in one        *)
(* activation, and no other handler leaves a flagged stage behind.         *)
THEOREM DraftsFlagged == Spec => []HighRiskDraftIsFlagged
<1> QED BY InductiveInvariant, PTL DEF Inv

(* However many attempts are lost, each submission recorded in the history *)
(* has an export of its own, and run() returns for submitted workflows.    *)
THEOREM SubmissionsAreBacked == Spec => []SubmissionsBacked
<1>1. Inv => SubmissionsBacked
  <2> SUFFICES ASSUME Inv PROVE SubmissionsBacked
    OBVIOUS
  <2>1. submits <= exports
    BY FS_CardinalityType DEF Inv, LedgerInv, TypeOK
  <2> QED BY <2>1 DEF Inv, StageInv, Backed, SubmissionsBacked
<1> QED BY <1>1, InductiveInvariant, PTL

(* The row of the workflow never shows a draft or a submission that has    *)
(* not happened, however late a mirror write is and however often it is    *)
(* retried: what it carries was true when it was taken, and stays true.    *)
THEOREM MirrorNeverLies == Spec => []MirrorNeverAhead
<1>1. Inv => MirrorNeverAhead
  BY DEF Inv, StageInv, Backed, MirrorNeverAhead
<1> QED BY <1>1, InductiveInvariant, PTL
-----------------------------------------------------------------------------
(* A permit is held only where there is a draft.  The gate itself keeps    *)
(* this, so that a step which is one of the gate's needs no other proof.   *)
PermitInv == Exporting # {} => report # "none"

(* The workflow starts as the gate does, with nothing permitted. *)
LEMMA GateInit == Init => Gate!Init /\ PermitInv
BY CoroutineAssumption DEF Init, Gate!Init, Exporting, Coroutine, PermitInv

LEMMA GateKeepsPermits == PermitInv /\ [Gate!Next]_(Gate!gateVars) => PermitInv'
BY DEF PermitInv, Gate!Next, Gate!gateVars, Gate!Draft, Gate!Review, Gate!Grant, Gate!Export, Gate!Submit,
   Gate!Forfeit

(* The permits change with the step of the one coroutine that moves. *)
LEMMA ExportingSame ==
    ASSUME NEW c \in Coroutine, Others(c), pc[c] # "export", pc'[c] # "export"
    PROVE  Exporting' = Exporting
BY DEF Others, Exporting, Coroutine

LEMMA ExportingEnds ==
    ASSUME NEW c \in Coroutine, Others(c), pc'[c] # "export"
    PROVE  Exporting' = Exporting \ {c}
BY DEF Others, Exporting, Coroutine

LEMMA ExportingBegins ==
    ASSUME NEW c \in Update, Others(c), pc'[c] = "export"
    PROVE  Exporting' = Exporting \cup {c}
BY DEF Others, Exporting, Coroutine

(* Requests: submit takes a permit, review decides, the rest is invisible. *)
LEMMA RequestGate ==
    ASSUME Inv, Inv', NEW u \in Update, Request(u)
    PROVE  [Gate!Next]_(Gate!gateVars)
<1>1. TypeOK /\ TypeOK' /\ u \in Coroutine /\ pc[u] = "idle"
  BY DEF Inv, Coroutine, Request, BeginSync, BeginAnalyze, BeginReport, BeginSubmit, BeginReview, Accepts
<1>2. CASE BeginSubmit(u)
  <2>1. SubmitAllowed /\ UNCHANGED <<payload, world>> /\ AwaitActivity(u, "export")
    BY <1>2 DEF BeginSubmit
  <2>2. Others(u) /\ pc'[u] = "export"
    BY <1>1, <2>1, AwaitMoves DEF Awaited
  <2>3. Exporting' = Exporting \cup {u} /\ u \notin Exporting
    BY <1>1, <2>2, ExportingBegins DEF Exporting
  <2>4. Gate!Grant(u)
    BY <2>1, <2>3 DEF Gate!Grant, SubmitAllowed, payload, world
  <2> QED BY <2>4 DEF Gate!Next
<1>3. CASE BeginSync(u) \/ BeginAnalyze(u) \/ BeginReport(u)
  <2>1. UNCHANGED <<payload, world>> /\ \E p \in Awaited \ {"export"} : AwaitActivity(u, p)
    BY <1>3 DEF BeginSync, BeginAnalyze, BeginReport, Awaited
  <2>2. Others(u) /\ pc'[u] # "export"
    BY <1>1, <2>1, AwaitMoves
  <2>3. Exporting' = Exporting
    BY <1>1, <2>2, ExportingSame
  <2> QED BY <2>1, <2>3 DEF Gate!gateVars, payload, world
<1>4. ASSUME NEW d \in Decisions, BeginReview(u, d) PROVE Gate!Next
  <2>1. AwaitMirror(u) /\ UNCHANGED <<report, requires_review, submits, world>>
    BY <1>4 DEF BeginReview
  <2>2. Others(u) /\ pc'[u] = "mirror"
    BY <1>1, <2>1, MirrorMoves
  <2>3. Exporting' = Exporting
    BY <1>1, <2>2, ExportingSame
  <2>4. Gate!Review
    BY <1>1, <2>1, <2>3 DEF Gate!Review, TypeOK, world
  <2> QED BY <2>4 DEF Gate!Next
<1> QED BY <1>2, <1>3, <1>4 DEF Request

(* The worker: each run of export_activity is an export of the gate, under *)
(* the permit its handler still holds.                                     *)
LEMMA WorkGate ==
    ASSUME Inv, NEW c \in Coroutine, Work(c) \/ LoseAttempt(c)
    PROVE  [Gate!Next]_(Gate!gateVars)
<1>1. Exporting' = Exporting /\ UNCHANGED payload
  BY DEF Exporting, Work, LoseAttempt, ComputeChecklist, ScoreCompany, WriteReport, ExportReport, WriteMirror,
     CreateWorkflow
<1>2. CASE ExportReport(c)
  <2>1. c \in Exporting
    BY <1>2 DEF ExportReport, Done, Exporting, Inv, RunInv, Coroutine
  <2>2. Gate!Export(c)
    BY <1>1, <1>2, <2>1 DEF ExportReport, Gate!Export, payload
  <2> QED BY <2>1, <2>2 DEF Gate!Next, Exporting
<1>3. CASE exports' = exports
  BY <1>1, <1>3 DEF Gate!gateVars, payload
<1> QED BY <1>2, <1>3 DEF Work, LoseAttempt, ComputeChecklist, ScoreCompany, WriteReport, WriteMirror,
     CreateWorkflow, world

(* The handlers: a draft is written, a permit is spent with an export that *)
(* no other submission is recorded for, or it is given back.               *)
LEMMA ResumeGate ==
    ASSUME Inv, PermitInv, NEW c \in Coroutine, Resume(c)
    PROVE  [Gate!Next]_(Gate!gateVars)
<1>1. TypeOK
  BY DEF Inv
<1>2. CASE c \in Update /\ SubmitReturned(c)
  <2>1. /\ c \in Unclaimed /\ AwaitMirror(c) /\ report' = "exported" /\ submits' = submits + 1
        /\ UNCHANGED <<requires_review, review_passed, world>>
    BY <1>2 DEF SubmitReturned, Returned, Unclaimed
  <2>2. Others(c) /\ pc'[c] = "mirror"
    BY <1>1, <2>1, MirrorMoves
  <2>3. Unclaimed' = Unclaimed \ {c} /\ Exporting' = Exporting \ {c}
    BY <2>2, UnclaimedClaimed, ExportingEnds
  <2>4. submits < exports
    BY <1>1, <2>1, <2>3, LedgerSubmit DEF Inv, world
  <2>5. report # "none"
    BY <2>1 DEF PermitInv, Exporting, Unclaimed
  <2>6. Gate!Submit(c)
    BY <2>1, <2>3, <2>4, <2>5 DEF Gate!Submit, Unclaimed, Exporting, world
  <2> QED BY <1>2, <2>6 DEF Gate!Next
<1>3. CASE c \in Update /\ ReportReturned(c)
  <2>1. /\ pc[c] = "report" /\ AwaitMirror(c) /\ report' = "generated"
        /\ requires_review' = (requires_review \/ ReviewDue)
        /\ UNCHANGED <<review_passed, submits, world>>
    BY <1>3 DEF ReportReturned, Returned
  <2>2. Others(c) /\ pc'[c] = "mirror"
    BY <1>1, <2>1, MirrorMoves
  <2>3. Exporting' = Exporting
    BY <2>1, <2>2, ExportingSame
  <2>4. requires_review' \in {requires_review, TRUE}
    BY <1>1, <2>1 DEF TypeOK
  <2>5. Gate!Draft
    BY <2>1, <2>3, <2>4 DEF Gate!Draft, world
  <2> QED BY <2>5 DEF Gate!Next
<1>4. CASE c \in Update /\ GiveUp(c)
  <2>1. UNCHANGED <<payload, world>> /\ Others(c) /\ pc'[c] = "idle"
    BY <1>1, <1>4, RestMoves DEF GiveUp
  <2>2. CASE pc[c] = "export"
    <3>1. Exporting' = Exporting \ {c} /\ c \in Exporting
      BY <1>4, <2>1, <2>2, ExportingEnds DEF Exporting
    <3>2. Gate!Forfeit(c)
      BY <2>1, <3>1 DEF Gate!Forfeit, payload, world
    <3> QED BY <1>4, <3>2 DEF Gate!Next
  <2>3. CASE pc[c] # "export"
    <3>1. Exporting' = Exporting
      BY <2>1, <2>3, ExportingSame
    <3> QED BY <2>1, <3>1 DEF Gate!gateVars, payload, world
  <2> QED BY <2>2, <2>3
<1>5. CASE c \in Update /\ CheckRefused(c)
  BY <1>5 DEF CheckRefused, Exporting, Gate!gateVars, payload, world
<1>6. CASE \/ c = Run /\ (CreateReturned \/ RefreshReturned)
           \/ c \in Update /\ (SyncReturned(c) \/ AnalyzeReturned(c) \/ CheckReturned(c))
           \/ MirrorReturned(c)
  <2>1. /\ pc[c] # "export" /\ UNCHANGED <<report, requires_review, review_passed, submits, world>>
        /\ \/ \E p \in Awaited \ {"export"} : AwaitActivity(c, p)
           \/ AwaitMirror(c)
           \/ \E p \in {"idle", "wait"} : Rest(c, p)
    BY <1>6 DEF CreateReturned, RefreshReturned, SyncReturned, AnalyzeReturned, CheckReturned, MirrorReturned,
       Returned, Awaited, payload
  <2>2. Others(c) /\ pc'[c] # "export"
    BY <1>1, <2>1, AwaitMoves, MirrorMoves, RestMoves
  <2>3. Exporting' = Exporting
    BY <2>1, <2>2, ExportingSame
  <2> QED BY <2>1, <2>3 DEF Gate!gateVars, world
<1> QED BY <1>2, <1>3, <1>4, <1>5, <1>6 DEF Resume

LEMMA GateStep == Inv /\ Inv' /\ PermitInv /\ [Next]_vars => [Gate!Next]_(Gate!gateVars)
<1> SUFFICES ASSUME Inv, Inv', PermitInv, [Next]_vars PROVE [Gate!Next]_(Gate!gateVars)
  OBVIOUS
<1>1. CASE CompleteData \/ UNCHANGED vars
  BY <1>1 DEF CompleteData, vars, payload, world, Exporting, Gate!gateVars
<1> QED BY <1>1, RequestGate, WorkGate, ResumeGate DEF Next

(* The workflow implements the gate of the synchronous engine: although    *)
(* the guard of submit is read before the await of the export and nothing  *)
(* is looked at after it, every submission spends a permit that was        *)
(* granted on a draft and a passed review, and an export of its own.       *)
THEOREM WorkflowImplementsGate == Spec => ImplementsGate
<1> QED BY GateInit, GateStep, GateKeepsPermits, InductiveInvariant, PTL DEF Spec, ImplementsGate, Gate!Spec
-----------------------------------------------------------------------------
(* The gateway.                                                            *)

(* What the gateway's promises rest on: a start request begins its run     *)
(* once, and a run never goes back; its row is made before the run is      *)
(* open, and its id is answered only from then on; whatever is staged as   *)
(* submitted is recorded, and so is a run that ended; only a submit waits  *)
(* for the result, and the detail never goes through an update.            *)
Known == {"open", "waiting", "closed"}

NotYetBegun   == \A s \in Start : start[s] = "idle" => run[s] = "none"
RowFollowsRun == \A s \in Start : run[s] \in Known => row[s]
IdFollowsRun  == \A s \in Start : answer[s] = "row" => run[s] \in Known
EndsRecorded  == \A s \in Start : staged[s] \/ run[s] = "closed" => recorded[s]
SubmitsRecorded ==
    \A c \in Call : call[c] \in {"mirror", "answered"} /\ action[c] = "submit" => recorded[target[c]]
CallsKeepKind ==
    \A c \in Call :
        /\ call[c] = "result" => action[c] = "submit"
        /\ call[c] = "query" => action[c] = "detail"
        /\ call[c] \in {"update", "mirror"} => action[c] # "detail"

RunsKept == GatewayTypeOK /\ NotYetBegun /\ RowFollowsRun /\ IdFollowsRun /\ EndsRecorded

GatewayInv == RunsKept /\ SubmitsRecorded /\ CallsKeepKind

LEMMA GatewayStart == GatewayInit => GatewayInv
BY QueriesAssumption DEF GatewayInit, GatewayInv, RunsKept, GatewayTypeOK, NotYetBegun, RowFollowsRun, IdFollowsRun,
   EndsRecorded, SubmitsRecorded, CallsKeepKind, Actions, Known

(* A start request touches neither the runs that are open nor the calls.   *)
LEMMA StartingKeeps == \A s \in Start : GatewayInv /\ Starting(s) => GatewayInv'
<1> SUFFICES ASSUME NEW s \in Start, GatewayInv, Starting(s) PROVE GatewayInv'
  OBVIOUS
<1> USE QueriesAssumption DEF GatewayInv, RunsKept, GatewayTypeOK, NotYetBegun, RowFollowsRun, IdFollowsRun, EndsRecorded,
        SubmitsRecorded, CallsKeepKind, runs, starts, calls, Known
<1>1. CASE Begin(s)
  BY <1>1 DEF Begin
<1>2. CASE Collide(s)
  BY <1>2 DEF Collide
<1>3. CASE Snapshot(s)
  BY <1>3 DEF Snapshot, Wid, Try
<1>4. CASE QueryFails(s)
  <2>1. queries'[s] \in 0..MaxQueries
    BY <1>4 DEF QueryFails, Try
  <2> QED BY <1>4, <2>1 DEF QueryFails, Try
<1> QED BY <1>1, <1>2, <1>3, <1>4 DEF Starting

LEMMA WorkingKeeps == \A s \in Start : GatewayInv /\ Working(s) => GatewayInv'
<1> SUFFICES ASSUME NEW s \in Start, GatewayInv, Working(s) PROVE GatewayInv'
  OBVIOUS
<1> USE DEF GatewayInv, RunsKept, GatewayTypeOK, NotYetBegun, RowFollowsRun, IdFollowsRun, EndsRecorded,
        SubmitsRecorded, CallsKeepKind, runs, starts, calls, Known, RunStep
<1>1. CASE FirstTask(s) \/ KnowRow(s)
  BY <1>1 DEF FirstTask, KnowRow
<1>2. CASE CreateRow(s)
  BY <1>2 DEF CreateRow
<1>3. CASE RunWaits(s) \/ Close(s)
  BY <1>3 DEF RunWaits, Close
<1> QED BY <1>1, <1>2, <1>3 DEF Working

LEMMA AskKeeps ==
    \A c \in Call, a \in Actions, s \in Start, n \in {"temporal", "row"} : GatewayInv /\ Ask(c, a, s, n) => GatewayInv'
BY DEF GatewayInv, RunsKept, GatewayTypeOK, NotYetBegun, RowFollowsRun, IdFollowsRun, EndsRecorded, SubmitsRecorded,
       CallsKeepKind, runs, starts, calls, Ask, Actions, Known

(* The handler of a submit records it; that of another update may set      *)
(* another stage, and takes no entry out of the history.                   *)
LEMMA HandlesKeeps == \A c \in Call : GatewayInv /\ (Submitted(c) \/ Updated(c)) => GatewayInv'
<1> SUFFICES ASSUME NEW c \in Call, GatewayInv, Submitted(c) \/ Updated(c) PROVE GatewayInv'
  OBVIOUS
<1>1. /\ call' = [call EXCEPT ![c] = "mirror"]
      /\ call[c] = "update"
      /\ UNCHANGED <<run, row, starts, action, target, name>>
  BY DEF Submitted, Updated, Handles, To
<1>2. /\ staged' \in [Start -> BOOLEAN] /\ recorded' \in [Start -> BOOLEAN]
      /\ \A s \in Start : (recorded[s] => recorded'[s]) /\ (staged'[s] => staged[s] \/ recorded'[s])
      /\ action[c] = "submit" => recorded'[target[c]]
  <2>1. CASE Submitted(c)
    BY <2>1 DEF Submitted, GatewayInv, RunsKept, GatewayTypeOK
  <2>2. CASE Updated(c)
    BY <2>2 DEF Updated, GatewayInv, RunsKept, GatewayTypeOK
  <2> QED BY <2>1, <2>2
<1>3. RunsKept'
  BY <1>1, <1>2 DEF GatewayInv, RunsKept, GatewayTypeOK, NotYetBegun, RowFollowsRun, IdFollowsRun, EndsRecorded, starts
<1>4. SubmitsRecorded' /\ CallsKeepKind'
  BY <1>1, <1>2 DEF GatewayInv, RunsKept, GatewayTypeOK, SubmitsRecorded, CallsKeepKind
<1> QED BY <1>3, <1>4 DEF GatewayInv

(* Otherwise a later call only moves on: a submit is answered from its     *)
(* mirror, which is recorded, or with the result of a run that ended.      *)
LEMMA SettleKeeps == \A c \in Call : GatewayInv /\ Settle(c) => GatewayInv'
<1> SUFFICES ASSUME NEW c \in Call, GatewayInv, Settle(c) PROVE GatewayInv'
  OBVIOUS
<1> USE DEF GatewayInv, RunsKept, GatewayTypeOK, NotYetBegun, RowFollowsRun, IdFollowsRun, EndsRecorded, SubmitsRecorded,
        CallsKeepKind, runs, starts, calls, To, AfterFailure
<1>1. CASE UpdateDone(c)
  BY <1>1 DEF UpdateDone
<1>2. CASE UpdateRefused(c) \/ UpdateUnknown(c)
  BY <1>2 DEF UpdateRefused, UpdateUnknown
<1>3. CASE Result(c) \/ ResultUnknown(c)
  BY <1>3 DEF Result, ResultUnknown
<1>4. CASE QueryDone(c) \/ Fallback(c) \/ Return(c)
  BY <1>4 DEF QueryDone, Fallback, Return
<1> QED BY <1>1, <1>2, <1>3, <1>4, HandlesKeeps DEF Settle

(* The gateway's variables keep their types, and what its promises rest on *)
(* holds in every state.                                                   *)
THEOREM GatewayInvariant == GatewaySpec => []GatewayInv
<1>1. GatewayInv /\ [GatewayNext]_gatewayVars => GatewayInv'
  <2> SUFFICES ASSUME GatewayInv, [GatewayNext]_gatewayVars PROVE GatewayInv'
    OBVIOUS
  <2>1. CASE UNCHANGED gatewayVars
    BY <2>1 DEF gatewayVars, runs, starts, calls, GatewayInv, RunsKept, GatewayTypeOK, NotYetBegun, RowFollowsRun, IdFollowsRun,
       EndsRecorded, SubmitsRecorded, CallsKeepKind, Known
  <2> QED BY <2>1, StartingKeeps, WorkingKeeps, AskKeeps, SettleKeeps DEF GatewayNext
<1> QED BY <1>1, GatewayStart, PTL DEF GatewaySpec

(* A submit is answered only for a run whose history holds a submit,       *)
(* although its update may answer while the run is still open, another     *)
(* update may overwrite the stage, and a failed update turns to a result   *)
(* that another submit brought about.                                      *)
THEOREM SubmitsAnswerRecorded == GatewaySpec => []SubmitAnswersRecorded
<1>1. GatewayInv => SubmitAnswersRecorded
  BY DEF GatewayInv, SubmitsRecorded, SubmitAnswersRecorded
<1> QED BY <1>1, GatewayInvariant, PTL

(* An id that a page was given has a row behind it.                        *)
THEOREM AnswersHaveRows == GatewaySpec => []AnswerHasRow
<1>1. GatewayInv => AnswerHasRow
  BY DEF GatewayInv, RunsKept, RowFollowsRun, IdFollowsRun, AnswerHasRow
<1> QED BY <1>1, GatewayInvariant, PTL
=============================================================================
