---------------------------- MODULE AnalysisEvents ----------------------------
(***************************************************************************)
(* The events of a risk analysis as the page receives them, from the       *)
(* Temporal workflow (RiskPipeline) and from the in-process generator      *)
(* (PipelineStream) alike: the run is created, every agent but the trace   *)
(* reports its start and its end, the run is done.                         *)
(***************************************************************************)
EXTENDS Naturals, Sequences

Roles == <<"scoring", "classifier", "planner", "researcher", "writer">>

Created    == [type |-> "task_created", role |-> "pipeline"]
Started(i) == [type |-> "agent_start", role |-> Roles[i]]
Ended(i)   == [type |-> "agent_done", role |-> Roles[i]]
Done       == [type |-> "done", role |-> "pipeline"]
Event      == {Created, Done} \cup {Started(i) : i \in DOMAIN Roles}
                              \cup {Ended(i) : i \in DOMAIN Roles}
=============================================================================
