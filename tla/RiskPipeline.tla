---------------------------- MODULE RiskPipeline ----------------------------
(***************************************************************************)
(* A risk analysis on Temporal: RiskAnalysisWorkflow                       *)
(* (packages/bizatlas/temporal/workflows/risk_analysis.py), the activities *)
(* it awaits one after the other, and the two readers that follow it       *)
(* through queries from apps/api/app/temporal_gateway.py: the SSE stream   *)
(* and the polling endpoint.                                               *)
(*                                                                         *)
(* A reader takes each fact with a query of its own; the workflow moves on *)
(* between them.  A query needs a live worker and may fail.  An activity   *)
(* runs at least once: an attempt may be lost after its work was done.     *)
(***************************************************************************)
EXTENDS AnalysisEvents

CONSTANTS
    MaxAttempts,            \* _ACT_RETRY.maximum_attempts
    MaxLosses               \* bound on the attempts that are lost

ASSUME BoundAssumption ==
    /\ MaxAttempts \in Nat \ {0}
    /\ MaxLosses \in Nat

VARIABLES
    progress, status,       \* self.progress, self.status
    result,                 \* self.result is set
    step,                   \* the activity awaited; 0 before the first task
    activity, attempts,     \* its state, its attempts lost so far
    outcome,                \* how the execution ended, as Temporal knows it
    losses,
    stream,                 \* where stream_pipeline_events is
    seen, fetched, cursor,  \* its locals status, progress and cursor
    received, closing,      \* the events it yielded, its last event
    poll, answer            \* the queries get_pipeline has made, their results

workflow == <<progress, status, result, step, activity, attempts, outcome, losses>>
reader   == <<stream, seen, fetched, cursor, received, closing>>
poller   == <<poll, answer>>
vars     == <<workflow, reader, poller>>

(* The activities are those of Roles, which report their start and end, *)
(* and the trace.                                                       *)
Trace == Len(Roles) + 1

NoAnswer == [status |-> "none", progress |-> <<>>, result |-> FALSE]
-----------------------------------------------------------------------------
Init ==
    /\ progress = <<>>
    /\ status = "running"
    /\ result = FALSE
    /\ step = 0
    /\ activity = "none"
    /\ attempts = 0
    /\ outcome = "running"
    /\ losses = 0
    /\ stream = "idle"
    /\ seen = "none"
    /\ fetched = <<>>
    /\ cursor = 0
    /\ received = <<>>
    /\ closing = "none"
    /\ poll = 0
    /\ answer = NoAnswer

(* run() up to its first activity. *)
FirstTask ==
    /\ step = 0
    /\ progress' = <<Created, Started(1)>>
    /\ step' = 1
    /\ activity' = "scheduled"
    /\ UNCHANGED <<status, result, attempts, outcome, losses, reader, poller>>

Execute ==
    /\ outcome = "running"
    /\ activity = "scheduled"
    /\ attempts < MaxAttempts
    /\ activity' = "executed"
    /\ UNCHANGED <<progress, status, result, step, attempts, outcome, losses,
                   reader, poller>>

LoseAttempt ==
    /\ outcome = "running"
    /\ activity # "none"
    /\ attempts < MaxAttempts
    /\ losses < MaxLosses
    /\ losses' = losses + 1
    /\ attempts' = attempts + 1
    /\ activity' = "scheduled"
    /\ UNCHANGED <<progress, status, result, step, outcome, reader, poller>>

(* The result of an agent: it is reported, and the next activity starts. *)
Report_Early == progress                                             \* mutant
    \o <<Ended(step)>>
    \o IF step + 2 < Trace THEN <<Started(step + 2)>> ELSE <<>>

Report == progress
    \o <<Ended(step)>>
    \o IF step + 1 < Trace THEN <<Started(step + 1)>> ELSE <<>>

AgentReturned ==
    /\ outcome = "running"
    /\ activity = "executed"
    /\ step < Trace
    /\ progress' = Report
    /\ step' = step + 1
    /\ activity' = "scheduled"
    /\ attempts' = 0
    /\ UNCHANGED <<status, result, outcome, losses, reader, poller>>

(* The trace: result, status and last event change in one activation. *)
Completed == "completed"

TraceReturned ==
    /\ outcome = "running"
    /\ activity = "executed"
    /\ step = Trace
    /\ result' = TRUE
    /\ status' = Completed
    /\ progress' = Append(progress, Done)
    /\ activity' = "none"
    /\ outcome' = "succeeded"
    /\ UNCHANGED <<step, attempts, losses, reader, poller>>

(* The execution fails: attempts exhausted, or a ValueError of the scoring *)
(* (an unknown company), which is not retried.                             *)
Fail ==
    /\ outcome = "running"
    /\ activity = "scheduled"
    /\ attempts = MaxAttempts \/ step = 1
    /\ activity' = "none"
    /\ outcome' = "failed"
    /\ UNCHANGED <<progress, status, result, step, attempts, losses, reader, poller>>
-----------------------------------------------------------------------------
(* stream_pipeline_events: status first, then progress. *)
OpenStream ==
    /\ stream = "idle"
    /\ stream' = "status"
    /\ UNCHANGED <<workflow, seen, fetched, cursor, received, closing, poller>>

QueryStatus ==
    /\ stream = "status"
    /\ step > 0
    /\ seen' = status
    /\ stream' = "progress"
    /\ UNCHANGED <<workflow, fetched, cursor, received, closing, poller>>

QueryProgress ==
    /\ stream = "progress"
    /\ fetched' = progress
    /\ stream' = "yield"
    /\ UNCHANGED <<workflow, seen, cursor, received, closing, poller>>

(* The new events are yielded; then the status seen before them decides. *)
News == SubSeq(fetched, cursor + 1, Len(fetched))

AllSeen_Refetched == status = "completed"                            \* mutant
AllSeen_Succeeded == seen = "succeeded"                              \* mutant
AllSeen == seen = "completed"

Yield ==
    /\ stream = "yield"
    /\ received' = received \o News
    /\ cursor' = Len(fetched)
    /\ stream' = CASE AllSeen -> "result"
                   [] seen = "failed" -> "closed"
                   [] OTHER -> "sleep"
    /\ closing' = IF ~AllSeen /\ seen = "failed" THEN "error" ELSE closing
    /\ fetched' = <<>>
    /\ seen' = "none"
    /\ UNCHANGED <<workflow, poller>>

Sleep ==
    /\ stream = "sleep"
    /\ stream' = "status"
    /\ UNCHANGED <<workflow, seen, fetched, cursor, received, closing, poller>>

(* The last event carries the trace, or nothing when the query fails. *)
QueryResult ==
    /\ stream = "result"
    /\ closing' \in {IF result THEN "trace" ELSE "empty", "empty"}
    /\ stream' = "closed"
    /\ UNCHANGED <<workflow, seen, fetched, cursor, received, poller>>

(* A query fails, or the page goes away. *)
CutStream ==
    /\ stream \notin {"idle", "closed", "cut"}
    /\ stream' = "cut"
    /\ seen' = "none"
    /\ fetched' = <<>>
    /\ UNCHANGED <<workflow, cursor, received, closing, poller>>
-----------------------------------------------------------------------------
(* get_pipeline: three queries, the last one only for a completed run. *)
QueryOrder_Swapped == <<"progress", "status", "result">>             \* mutant
QueryOrder == <<"status", "progress", "result">>

Facts == [status |-> status, progress |-> progress, result |-> result]

Answered == poll = 3 \/ (poll = 2 /\ answer.status # "completed")

Poll ==
    /\ step > 0
    /\ poll < 3
    /\ ~Answered
    /\ LET fact == QueryOrder[poll + 1]
       IN  answer' = [answer EXCEPT ![fact] = Facts[fact]]
    /\ poll' = poll + 1
    /\ UNCHANGED <<workflow, reader>>

(* The answer is sent, or a query failed: the next poll starts afresh. *)
PollEnds ==
    /\ poll > 0
    /\ answer' = NoAnswer
    /\ poll' = 0
    /\ UNCHANGED <<workflow, reader>>

Run == FirstTask \/ Execute \/ AgentReturned \/ TraceReturned

Follow == QueryStatus \/ QueryProgress \/ Yield \/ Sleep \/ QueryResult

Next ==
    \/ Run \/ LoseAttempt \/ Fail
    \/ OpenStream \/ Follow \/ CutStream
    \/ Poll \/ PollEnds

(* The worker polls and the service delivers; a stream that is not cut is  *)
(* scheduled by its event loop, and so is the service's giving up.         *)
Fairness == WF_vars(Run) /\ WF_vars(Fail) /\ WF_vars(Follow)

Spec == Init /\ [][Next]_vars /\ Fairness
-----------------------------------------------------------------------------
TypeOK ==
    /\ progress \in Seq(Event)
    /\ status \in {"running", "completed"}
    /\ result \in BOOLEAN
    /\ step \in 0 .. Trace
    /\ activity \in {"none", "scheduled", "executed"}
    /\ attempts \in 0 .. MaxAttempts
    /\ outcome \in {"running", "succeeded", "failed"}
    /\ losses \in Nat
    /\ stream \in {"idle", "status", "progress", "yield", "sleep", "result", "closed", "cut"}
    /\ seen \in {"none", "running", "completed"}
    /\ fetched \in Seq(Event)
    /\ cursor \in Nat
    /\ received \in Seq(Event)
    /\ closing \in {"none", "error", "trace", "empty"}
    /\ poll \in 0 .. 3
    /\ answer \in [status : {"none", "running", "completed"},
                   progress : Seq(Event), result : BOOLEAN]

(* The events form the story of one run whatever was retried: every start  *)
(* is followed by its own end, nothing starts before its predecessor has   *)
(* ended, and no agent is reported twice.                                  *)
ProgressIsOrdered ==
    \A i \in DOMAIN progress :
        /\ progress[i].type = "agent_done"
              => i > 1 /\ progress[i - 1] = [progress[i] EXCEPT !.type = "agent_start"]
        /\ \A j \in DOMAIN progress : progress[i] = progress[j] => i = j
        /\ i + 1 \in DOMAIN progress => progress[i].type # "done"

(* A poll that answers "completed" shows the whole run and its result,     *)
(* although the three facts come from three queries.                       *)
PollIsConsistent ==
    Answered /\ answer.status = "completed"
        => /\ answer.result
           /\ answer.progress # <<>>
           /\ answer.progress[Len(answer.progress)] = Done

(* The stream implements the feed; its closing event is an extra. *)
Feed == INSTANCE EventFeed WITH
    produced <- progress,
    over <- IF stream \in {"closed", "cut"} THEN stream ELSE "open"

ImplementsFeed == Feed!Spec

(* A page that follows a run which completes reaches the end of the feed. *)
CompletedStreamEnds ==
    status = "completed" /\ stream # "idle" ~> stream \in {"closed", "cut"}
-----------------------------------------------------------------------------
(* What the code says of itself and does not keep. *)

(* "Subscribe to the stream; it behaves as before": the in-process stream  *)
(* ends when its run is over, with an error event when it failed.          *)
FailedStreamEnds ==
    outcome # "running" /\ stream # "idle" ~> stream \in {"closed", "cut"}
=============================================================================
