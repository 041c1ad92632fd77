------------------------------ MODULE EventFeed ------------------------------
(***************************************************************************)
(* What the page that follows a risk analysis is promised, whichever       *)
(* engine runs it: it receives the events of the run in the order they     *)
(* were produced, none lost and none twice, and its stream is closed as    *)
(* complete only when the run is over and all its events were received.    *)
(* The in-process stream (PipelineStream) and the polled Temporal workflow *)
(* (RiskPipeline) are both shown to implement it.                          *)
(***************************************************************************)
EXTENDS Naturals, Sequences

CONSTANT Event

VARIABLES
    produced,               \* the events of the run so far
    outcome,                \* "running", "succeeded" or "failed"
    received,               \* the events the page has received
    over                    \* the stream: "open", "closed" or "cut"

feedVars == <<produced, outcome, received, over>>

Init ==
    /\ produced = <<>>
    /\ outcome = "running"
    /\ received = <<>>
    /\ over = "open"

(* A step of the run appends events; the last one may settle the outcome. *)
Produce ==
    /\ outcome = "running"
    /\ \E more \in {<<>>} \cup {<<e>> : e \in Event} \cup {<<e, f>> : e, f \in Event} :
           produced' = produced \o more
    /\ outcome' \in {"running", "succeeded", "failed"}
    /\ UNCHANGED <<received, over>>

Receive ==
    /\ over = "open"
    /\ \E n \in Len(received) .. Len(produced) : received' = SubSeq(produced, 1, n)
    /\ UNCHANGED <<produced, outcome, over>>

Close ==
    /\ over = "open"
    /\ outcome # "running"
    /\ received = produced
    /\ over' = "closed"
    /\ UNCHANGED <<produced, outcome, received>>

(* The page goes away, or the stream breaks under it. *)
Cut ==
    /\ over = "open"
    /\ over' = "cut"
    /\ UNCHANGED <<produced, outcome, received>>

Next == Produce \/ Receive \/ Close \/ Cut

Spec == Init /\ [][Next]_feedVars
=============================================================================
