-------------------------- MODULE DueDiligenceGateway --------------------------
(***************************************************************************)
(* The HTTP gateway of the Temporal due-diligence workflow,                *)
(* apps/api/app/temporal_gateway.py, between the pages that call it and    *)
(* the workflows it starts.                                                *)
(*                                                                         *)
(* A workflow has two names: the id Temporal knows it by, made by the      *)
(* gateway, and the id of its row in the workflows table, made by its      *)
(* first activities and reported in its snapshot.  A call addresses it by  *)
(* one or the other; Temporal finds it by the first only, the table by the *)
(* second only.  What the workflow does is the subject of                  *)
(* DueDiligenceTemporal; here it starts, handles updates and may end.      *)
(***************************************************************************)
EXTENDS Naturals

CONSTANTS
    Start,                  \* the start requests, and the runs they begin
    Call,                   \* the later calls that may be under way at once
    MaxQueries              \* attempts of _query_with_retry

ASSUME QueriesAssumption == MaxQueries \in Nat \ {0}

VARIABLES
    run,                    \* where run() is, see GatewayTypeOK
    row,                    \* its row is in the workflows table
    staged, recorded,       \* its stage is "submitted"; its history holds a submit
    start, queries, answer, \* a start request: where it is, its tries, the id it got
    call,                   \* a later call: where it is
    action, target, name    \* what it asks of which run, and by which name

runs   == <<run, row, staged, recorded>>
starts == <<start, queries, answer>>
calls  == <<call, action, target, name>>
gatewayVars   == <<runs, starts, calls>>

Actions == {"submit", "other", "detail"}

GatewayInit ==
    /\ run = [s \in Start |-> "none"]
    /\ row = [s \in Start |-> FALSE]
    /\ staged = [s \in Start |-> FALSE]
    /\ recorded = [s \in Start |-> FALSE]
    /\ start = [s \in Start |-> "idle"]
    /\ queries = [s \in Start |-> 0]
    /\ answer = [s \in Start |-> "none"]
    /\ call = [c \in Call |-> "idle"]
    /\ action = [c \in Call |-> "other"]
    /\ target \in [Call -> Start]
    /\ name = [c \in Call |-> "temporal"]
-----------------------------------------------------------------------------
(* start_due_diligence_wf. *)
Begin(s) ==
    /\ start[s] = "idle"
    /\ start' = [start EXCEPT ![s] = "query"]
    /\ run' = [run EXCEPT ![s] = "begun"]
    /\ UNCHANGED <<row, staged, recorded, queries, answer, calls>>

(* Another run of the same subject was begun in the same millisecond. *)
Collide(s) ==
    /\ start[s] = "idle"
    /\ \E other \in Start \ {s} : run[other] \notin {"none", "closed"}
    /\ start' = [start EXCEPT ![s] = "failed"]
    /\ UNCHANGED <<runs, queries, answer, calls>>

(* The snapshot is there as soon as the first task has run; its id is the  *)
(* workflow's wid, which is set later.                                     *)
Wid_Early(s) == "row"                                                \* mutant
Wid(s) == IF run[s] \in {"open", "waiting", "closed"} THEN "row" ELSE "null"

(* _query_with_retry *)
Try(s) == start[s] = "query" /\ queries[s] < MaxQueries

Snapshot(s) ==
    /\ Try(s)
    /\ run[s] \notin {"none", "begun"}
    /\ answer' = [answer EXCEPT ![s] = Wid(s)]
    /\ start' = [start EXCEPT ![s] = "answered"]
    /\ UNCHANGED <<runs, queries, calls>>

QueryFails(s) ==
    /\ Try(s)
    /\ queries' = [queries EXCEPT ![s] = @ + 1]
    /\ start' = [start EXCEPT ![s] = IF queries'[s] = MaxQueries THEN "failed" ELSE "query"]
    /\ UNCHANGED <<runs, answer, calls>>
-----------------------------------------------------------------------------
(* The workflow: its first task, the activity that makes its row, and the  *)
(* refresh and the mirror that run() awaits before it waits for a submit.  *)
RunStep(s, from, to) ==
    /\ run[s] = from
    /\ run' = [run EXCEPT ![s] = to]
    /\ UNCHANGED <<row, staged, recorded, starts, calls>>

FirstTask(s) == RunStep(s, "begun", "loaded")

CreateRow(s) ==
    /\ run[s] = "loaded"
    /\ ~row[s]
    /\ row' = [row EXCEPT ![s] = TRUE]
    /\ UNCHANGED <<run, staged, recorded, starts, calls>>

KnowRow(s) == row[s] /\ RunStep(s, "loaded", "open")

RunWaits(s) == RunStep(s, "open", "waiting")

(* The wait is looked at when every handler of the activation has run.     *)
Closing(s) == run[s] = "waiting" /\ staged[s]

Close(s) == staged[s] /\ RunStep(s, "waiting", "closed")
-----------------------------------------------------------------------------
(* advance_due_diligence_wf, review_due_diligence_wf (an update like any   *)
(* other) and get_due_diligence_wf.  A page knows the id it was answered;  *)
(* the Temporal id shows in Temporal's own tools.                          *)
Ask(c, a, s, n) ==
    /\ call[c] = "idle"
    /\ run[s] # "none"
    /\ n = "row" => answer[s] = "row"
    /\ action' = [action EXCEPT ![c] = a]
    /\ target' = [target EXCEPT ![c] = s]
    /\ name' = [name EXCEPT ![c] = n]
    /\ call' = [call EXCEPT ![c] = IF a = "detail" THEN "query" ELSE "update"]
    /\ UNCHANGED <<runs, starts>>

(* A handle is found by the Temporal id alone. *)
Found(c) == name[c] = "temporal"

(* An exception of execute_update: a submit turns to the result.  *)
AfterFailure_Query(c) == IF action[c] = "submit" THEN "answered" ELSE "failed" \* mutant
AfterFailure(c) == IF action[c] = "submit" THEN "result" ELSE "failed"

To(c, p) == call' = [call EXCEPT ![c] = p]

(* A handler runs once run() knows the row, up to its mirror.  A submit is *)
(* recorded, and run() ends if it is at its wait; a sync, an analysis, a   *)
(* report or a return sets another stage, before or after.                 *)
Handles(c) ==
    /\ call[c] = "update"
    /\ Found(c)
    /\ run[target[c]] \in {"open", "waiting"}
    /\ To(c, "mirror")
    /\ UNCHANGED <<run, row, starts, action, target, name>>

Submitted(c) ==
    /\ Handles(c)
    /\ action[c] = "submit"
    /\ staged' = [staged EXCEPT ![target[c]] = TRUE]
    /\ recorded' = [recorded EXCEPT ![target[c]] = TRUE]

Updated(c) ==
    /\ Handles(c)
    /\ action[c] = "other"
    /\ staged' \in {staged, [staged EXCEPT ![target[c]] = FALSE]}
    /\ UNCHANGED recorded

(* Its mirror is written in a later activation. *)
UpdateDone(c) ==
    /\ call[c] = "mirror"
    /\ run[target[c]] # "closed"
    /\ ~Closing(target[c])
    /\ To(c, "answered")
    /\ UNCHANGED <<runs, starts, action, target, name>>

(* It is refused, its activities gave up, or the call breaks. *)
UpdateRefused(c) ==
    /\ call[c] \in {"update", "mirror"}
    /\ Found(c)
    /\ To(c, AfterFailure(c))
    /\ UNCHANGED <<runs, starts, action, target, name>>

(* The run is over, or Temporal knows no run of that name. *)
UpdateUnknown(c) ==
    /\ call[c] \in {"update", "mirror"}
    /\ ~Found(c) \/ run[target[c]] = "closed"
    /\ To(c, AfterFailure(c))
    /\ UNCHANGED <<runs, starts, action, target, name>>

(* handle.result(): waits for the end of the run. *)
Result(c) ==
    /\ call[c] = "result"
    /\ Found(c)
    /\ run[target[c]] = "closed"
    /\ To(c, "answered")
    /\ UNCHANGED <<runs, starts, action, target, name>>

ResultUnknown(c) ==
    /\ call[c] = "result"
    /\ ~Found(c)
    /\ To(c, "failed")
    /\ UNCHANGED <<runs, starts, action, target, name>>

QueryDone(c) ==
    /\ call[c] = "query"
    /\ Found(c)
    /\ run[target[c]] # "begun"
    /\ To(c, "answered")
    /\ UNCHANGED <<runs, starts, action, target, name>>

(* The query fails: the row of that name answers, if there is one. *)
Fallback(c) ==
    /\ call[c] = "query"
    /\ To(c, IF name[c] = "row" THEN "answered" ELSE "failed")
    /\ UNCHANGED <<runs, starts, action, target, name>>

Return(c) ==
    /\ call[c] \in {"answered", "failed"}
    /\ To(c, "idle")
    /\ UNCHANGED <<runs, starts, action, target, name>>

Starting(s) == Begin(s) \/ Collide(s) \/ Snapshot(s) \/ QueryFails(s)

Working(s) == FirstTask(s) \/ CreateRow(s) \/ KnowRow(s) \/ RunWaits(s) \/ Close(s)

Settle(c) ==
    \/ Submitted(c) \/ Updated(c) \/ UpdateDone(c)
    \/ UpdateRefused(c) \/ UpdateUnknown(c)
    \/ Result(c) \/ ResultUnknown(c)
    \/ QueryDone(c) \/ Fallback(c)
    \/ Return(c)

GatewayNext ==
    \/ \E s \in Start : Starting(s) \/ Working(s)
    \/ \E c \in Call, a \in Actions, s \in Start, n \in {"temporal", "row"} : Ask(c, a, s, n)
    \/ \E c \in Call : Settle(c)

(* The server runs its requests, and the worker its tasks; nobody has to   *)
(* make a later call.                                                      *)
GatewayFairness ==
    /\ \A s \in Start : WF_gatewayVars(Snapshot(s) \/ QueryFails(s)) /\ WF_gatewayVars(Working(s))
    /\ \A c \in Call : WF_gatewayVars(Settle(c))

GatewaySpec == GatewayInit /\ [][GatewayNext]_gatewayVars /\ GatewayFairness
-----------------------------------------------------------------------------
GatewayTypeOK ==
    /\ run \in [Start -> {"none", "begun", "loaded", "open", "waiting", "closed"}]
    /\ row \in [Start -> BOOLEAN]
    /\ staged \in [Start -> BOOLEAN]
    /\ recorded \in [Start -> BOOLEAN]
    /\ start \in [Start -> {"idle", "query", "answered", "failed"}]
    /\ queries \in [Start -> 0 .. MaxQueries]
    /\ answer \in [Start -> {"none", "null", "row"}]
    /\ call \in [Call -> {"idle", "update", "mirror", "result", "query", "answered", "failed"}]
    /\ action \in [Call -> Actions]
    /\ target \in [Call -> Start]
    /\ name \in [Call -> {"temporal", "row"}]

(* A submit is answered only for a run whose history holds a submit, its   *)
(* own or another's: neither a refusal, nor an update that broke, nor a    *)
(* result fetched instead, passes for a success on a run where no submit   *)
(* went through, whatever overwrote the stage since.                       *)
SubmitAnswersRecorded ==
    \A c \in Call :
        call[c] = "answered" /\ action[c] = "submit" => recorded[target[c]]

(* An id that a page was given has a row behind it, so that the page can   *)
(* show the workflow when Temporal does not answer.                        *)
AnswerHasRow == \A s \in Start : answer[s] = "row" => row[s]

(* Every start request is answered or refused, even if no query succeeds.  *)
StartReturns == \A s \in Start : start[s] = "query" ~> start[s] \in {"answered", "failed"}
-----------------------------------------------------------------------------
(* What the code and its docs say and do not keep. *)

(* "Submit is final", "over (closed after the submit)": a submit is        *)
(* answered only for a run that has ended.                                 *)
SubmitAnswersFinal ==
    \A c \in Call :
        call[c] = "answered" /\ action[c] = "submit" => run[target[c]] = "closed"

(* "The contract stays the same; the page needs no change": the page goes  *)
(* on with the id it was answered.  An update for a run that is not over   *)
(* is not turned away as unknown.                                          *)
PagesReachTheirRuns ==
    [][\A c \in Call : UpdateUnknown(c) => run[target[c]] = "closed"]_gatewayVars

(* "The snapshot is the one of the old engine": a start that succeeds      *)
(* answers with the id of a workflow.                                      *)
StartAnswersId == \A s \in Start : start[s] = "answered" => answer[s] # "null"

(* "A run that is over falls back to the mirror": the detail of a run that *)
(* has a row is never refused.                                             *)
DetailFallsBack ==
    [][\A c \in Call : call[c] = "query" /\ call'[c] = "failed"
          => ~row[target[c]]]_gatewayVars

(* "advance goes through an update, its results do not change": a submit   *)
(* is answered, if only with a refusal.                                    *)
SubmitReturns == \A c \in Call : call[c] = "update" ~> call[c] = "idle"
=============================================================================
