--------------------------- MODULE PipelineStream ---------------------------
(***************************************************************************)
(* The in-process stream of a risk analysis: event_gen of                  *)
(* apps/api/app/main.py, whose thread runs the generator                   *)
(* stream_analysis_pipeline (packages/bizatlas/orchestrator/stream.py) and *)
(* puts its events on a queue, while the response takes them off.          *)
(*                                                                         *)
(* The page may go away at any time; the thread does not notice.           *)
(***************************************************************************)
EXTENDS AnalysisEvents

VARIABLES
    produced,               \* the events the generator has yielded
    pc,                     \* the thread: "run", "raised", "finally", "exit"
    queue,                  \* the items <<kind, event>> put and not taken
    sent,                   \* the events the page got
    failed,                 \* the page got an error event
    response                \* the response: "open", "closed" or "cut"

streamVars == <<produced, pc, queue, sent, failed, response>>

(* The events of a run in order: created, a start and an end for each role, *)
(* done.                                                                    *)
Story == [n \in 1 .. 2 * Len(Roles) + 2 |->
    CASE n = 1 -> Created
      [] n = 2 * Len(Roles) + 2 -> Done
      [] n % 2 = 0 /\ n <= 2 * Len(Roles) -> Started(n \div 2)
      [] OTHER -> Ended(n \div 2)]

Put(kind, event) == Append(queue, <<kind, event>>)

StreamInit ==
    /\ produced = <<>>
    /\ pc = "run"
    /\ queue = <<>>
    /\ sent = <<>>
    /\ failed = FALSE
    /\ response = "open"

(* The thread.  The generator yields its next event, is exhausted, or      *)
(* raises from the work between two events.                                *)
YieldEvent ==
    /\ pc = "run"
    /\ Len(produced) < Len(Story)
    /\ produced' = Append(produced, Story[Len(produced) + 1])
    /\ queue' = Put("data", Story[Len(produced) + 1])
    /\ UNCHANGED <<pc, sent, failed, response>>

Exhausted ==
    /\ pc = "run"
    /\ Len(produced) = Len(Story)
    /\ pc' = "finally"
    /\ UNCHANGED <<produced, queue, sent, failed, response>>

(* An agent raises between its start and its end, or build_trace does. *)
Working == Len(produced) < Len(Story)
           /\ (Len(produced) % 2 = 0 \/ Len(produced) = Len(Story) - 1)

Raise ==
    /\ pc = "run"
    /\ produced # <<>>
    /\ Working
    /\ pc' = "raised"
    /\ UNCHANGED <<produced, queue, sent, failed, response>>

Catch_Silent ==                                                      \* mutant
    /\ pc = "raised"
    /\ pc' = "finally"
    /\ UNCHANGED <<produced, queue, sent, failed, response>>

Catch ==
    /\ pc = "raised"
    /\ queue' = Put("error", Created)
    /\ pc' = "finally"
    /\ UNCHANGED <<produced, sent, failed, response>>

Finally_OnSuccess ==                                                 \* mutant
    /\ pc = "finally"
    /\ queue' = IF Len(produced) = Len(Story) THEN Put("end", Created) ELSE queue
    /\ pc' = "exit"
    /\ UNCHANGED <<produced, sent, failed, response>>

Finally ==
    /\ pc = "finally"
    /\ queue' = Put("end", Created)
    /\ pc' = "exit"
    /\ UNCHANGED <<produced, sent, failed, response>>

(* The response; a heartbeat while the queue is empty changes nothing. *)
Oldest_Newest == queue[Len(queue)]                                   \* mutant
Oldest == Head(queue)

Take(kind) ==
    /\ response = "open"
    /\ queue # <<>>
    /\ Oldest[1] = kind
    /\ queue' = Tail(queue)
    /\ UNCHANGED <<produced, pc>>

SendEvent ==
    /\ Take("data")
    /\ sent' = Append(sent, Oldest[2])
    /\ UNCHANGED <<failed, response>>

SendError ==
    /\ Take("error")
    /\ failed' = TRUE
    /\ UNCHANGED <<sent, response>>

SendEnd ==
    /\ Take("end")
    /\ response' = "closed"
    /\ UNCHANGED <<sent, failed>>

Disconnect ==
    /\ response = "open"
    /\ response' = "cut"
    /\ UNCHANGED <<produced, pc, queue, sent, failed>>

Work    == YieldEvent \/ Exhausted \/ Raise \/ Catch \/ Finally
Respond == SendEvent \/ SendError \/ SendEnd

StreamNext == Work \/ Respond \/ Disconnect

(* The thread runs, and the server pulls the response while it is open. *)
StreamFairness == WF_streamVars(Work) /\ WF_streamVars(Respond)

StreamSpec == StreamInit /\ [][StreamNext]_streamVars /\ StreamFairness
-----------------------------------------------------------------------------
StreamTypeOK ==
    /\ produced \in Seq(Event)
    /\ pc \in {"run", "raised", "finally", "exit"}
    /\ queue \in Seq({"data", "error", "end"} \X Event)
    /\ sent \in Seq(Event)
    /\ failed \in BOOLEAN
    /\ response \in {"open", "closed", "cut"}

(* A page whose stream was closed knows how the run went: it has the done  *)
(* event or an error, and not both.                                        *)
Outcome == CASE pc = "run" -> "running"
             [] pc # "run" /\ produced = Story -> "succeeded"
             [] OTHER -> "failed"

ClosedStreamTells ==
    response = "closed" => failed = (Outcome = "failed") /\ sent = produced

StreamFeed == INSTANCE EventFeed WITH received <- sent, outcome <- Outcome, over <- response

StreamImplementsFeed == StreamFeed!Spec

(* Every run ends, and a page never waits for ever on one that is over. *)
StreamEnds == <>(response # "open")
=============================================================================
