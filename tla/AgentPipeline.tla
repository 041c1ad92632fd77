--------------------------- MODULE AgentPipeline ----------------------------
(***************************************************************************)
(* The agents that follow the scoring kernel (package bizatlas.agents)     *)
(* and the trace of their work for the page (orchestrator/trace.py).       *)
(*                                                                         *)
(* A disclosure is [code, about], about the metric names or the dimension  *)
(* it speaks of, or None.  A finding of the researcher is [dimension,      *)
(* found, citations, llm_used, opening]: the opening is the text of the    *)
(* first 80 characters of the answer, the model's own if it used one, and  *)
(* never gated.                                                            *)
(***************************************************************************)
EXTENDS NumberGate

CONSTANTS
    Keywords        \* category |-> the industries that hold one of its words

_EXPECTED_METRICS == {"current ratio", "quick ratio", "debt ratio", "return on net assets",
                      "gross margin", "net margin", "revenue growth", "operating cash flow"}

_ROUTING_HINTS ==
    [manufacturing |-> <<"financial", "operating", "related">>,
     tech          |-> <<"operating", "industry", "sentiment">>,
     retail        |-> <<"operating", "sentiment", "financial">>,
     finance       |-> <<"related", "sentiment", "financial">>,
     services      |-> <<"operating", "sentiment", "industry">>,
     other         |-> <<"financial", "operating", "industry", "sentiment", "related">>]

CategoryOrder == <<"manufacturing", "tech", "retail", "finance", "services">>

_deterministic_category(industry) ==
    LET holding == SelectSeq(CategoryOrder, LAMBDA c : industry \in Keywords[c])
    IN  IF holding = <<>> THEN "other" ELSE holding[1]

\* refined is what llm_json read, or None; focus_dimensions may be empty.  label is the text of
\* the segment, or else of the category, that the model chose.
classify_company(industry, refined) ==
    LET category == _deterministic_category(industry) IN
    IF refined = None
    THEN [category |-> category, routing |-> _ROUTING_HINTS[category], label |-> <<>>, mode |-> "deterministic"]
    ELSE [category |-> refined.category, label |-> refined.label, mode |-> "llm",
          routing  |-> IF refined.focus # <<>> THEN refined.focus ELSE _ROUTING_HINTS[category]]

Disclosure(code, about) == [code |-> code, about |-> about]

\* The engine gives its hits no evidence: every dimension that scores is weak.
WeakDimensions(risk) == {d \in DOMAIN risk.dimensions : risk.dimensions[d] > 0}

\* estimated: some metric is an estimate (tier L3).
plan_research(risk, metrics, estimated, conflicts, classification) ==
    LET missing == _EXPECTED_METRICS \ DOMAIN metrics
    IN  [missing  |-> missing,
         data_gaps |->
            (IF missing # {} THEN {Disclosure("missing_metrics", missing)} ELSE {})
              \cup (IF Cardinality(DOMAIN metrics) < FullMetrics THEN {Disclosure("low_completeness", None)} ELSE {})
              \cup (IF estimated THEN {Disclosure("estimate_tier", None)} ELSE {})
              \cup {Disclosure("weak_evidence", d) : d \in WeakDimensions(risk)}
              \cup (IF conflicts # {} THEN {Disclosure("data_conflicts", None)} ELSE {}),
         research_plan |-> IF classification.routing # <<>> THEN classification.routing ELSE _ROUTING_HINTS["other"]]

\* One step of the plan: rag is the answer, or None after an exception.
Finding(dimension, rag) ==
    IF rag = None \/ rag.citations = {}
    THEN [dimension |-> dimension, found |-> FALSE, citations |-> {}, llm_used |-> FALSE, opening |-> <<>>]
    ELSE [dimension |-> dimension, found |-> TRUE, citations |-> rag.citations, llm_used |-> rag.llm_used,
          opening |-> rag.opening]

CitationCount(findings) == FoldSet(LAMBDA i, n : n + Cardinality(findings[i].citations), 0, DOMAIN findings)

research(findings) ==
    [findings        |-> findings,
     gap_disclosures |-> {Disclosure("retrieval_gap", findings[i].dimension) : i \in {j \in DOMAIN findings : ~findings[j].found}},
     citation_count  |-> CitationCount(findings),
     mode            |-> IF \E i \in DOMAIN findings : findings[i].llm_used THEN "llm" ELSE "deterministic"]

Found(findings) == {j \in DOMAIN findings : findings[j].found}

\* The opening of the n-th finding that was found, where there is one.
Nth(findings, n) == {j \in Found(findings) : Cardinality({k \in Found(findings) : k <= j}) = n}
Opening(findings, n) ==
    IF Nth(findings, n) = {} THEN <<>> ELSE findings[CHOOSE j \in Nth(findings, n) : TRUE].opening

\* What the program counts in a section: the score, or the findings.
ScoreFigure(risk) == Figure(10 * risk.score, FALSE)
FoundFigure(findings) == Figure(1000 * Cardinality(Found(findings)), FALSE)

\* The figures of the four templates: the label, the score and the headline; those of the hits'
\* messages, which are not followed; the findings and the first two answers; none.
SectionBase(i, risk, headline, label, findings) ==
    IF i = 1 THEN label \o <<ScoreFigure(risk)>> \o headline
    ELSE IF i = 3 /\ Found(findings) # {}
         THEN <<FoundFigure(findings)>> \o Opening(findings, 1) \o Opening(findings, 2)
         ELSE <<>>

\* The section is gated by the figures of the risk alone: the metrics are not passed on, and
\* neither is the set _build_allowed makes of the answers.
_section(i, reply, risk, conflicts, headline, label, findings) ==
    polish_narrative(reply, SectionBase(i, risk, headline, label, findings),
                     collect_allowed_numbers(<<>>, risk, conflicts))

\* mutant: the gaps of the search stay with the researcher
write_report_quiet(sections, risk, plan, researched) ==
    [narrative |-> [i \in DOMAIN sections |-> sections[i].text], disclosures |-> plan.data_gaps, mode |-> "deterministic"]

write_report(sections, risk, plan, researched) ==
    [narrative   |-> [i \in DOMAIN sections |-> sections[i].text],
     disclosures |-> plan.data_gaps \cup researched.gap_disclosures
                        \cup (IF risk.veto # None THEN {Disclosure("veto", None)} ELSE {}),
     mode        |-> IF \E i \in DOMAIN sections : sections[i].llm_used /\ sections[i].gate_ok
                     THEN "llm" ELSE "deterministic"]

collect_agent_mode(modes) ==
    CASE "llm" \in modes -> "llm" [] "llm" \notin modes /\ "fallback" \in modes -> "fallback" [] OTHER -> "deterministic"

-----------------------------------------------------------------------------
(* The trace: agent cards, tool calls, a timeline and the evidence panel.  *)
AgentCards(metrics, hits, industry, classification, plan, researched, report) ==
    [scoring    |-> [inputs |-> Cardinality(DOMAIN metrics), outputs |-> Len(hits)],
     classifier |-> [inputs |-> IF industry = None THEN 0 ELSE 1, outputs |-> Len(classification.routing)],
     planner    |-> [inputs |-> Cardinality(DOMAIN metrics), outputs |-> Cardinality(plan.data_gaps)],
     researcher |-> [inputs |-> Len(researched.findings), outputs |-> Cardinality(Found(researched.findings))],
     writer     |-> [inputs |-> Len(hits) + Cardinality(Found(researched.findings)), outputs |-> Len(report.narrative)]]

ToolCalls(graph, stress, findings) ==
    <<[name |-> "RuleEngine.match", ok |-> TRUE], [name |-> "score_risk", ok |-> TRUE],
      [name |-> "build_guarantee_graph", ok |-> graph # None], [name |-> "run_stress", ok |-> stress # None],
      [name |-> "classify_company", ok |-> TRUE], [name |-> "plan_research", ok |-> TRUE]>>
      \o [i \in DOMAIN findings |-> [name |-> "ask_company", ok |-> findings[i].found]]
      \o <<[name |-> "write_report", ok |-> TRUE]>>

Timeline(risk) ==
    <<[type |-> "task_created", at |-> 0], [type |-> "parse", at |-> 80], [type |-> "rules", at |-> 200],
      [type |-> IF risk.veto # None THEN "veto" ELSE "score", at |-> 300], [type |-> "classify", at |-> 390],
      [type |-> "plan", at |-> 460], [type |-> "research", at |-> 570], [type |-> "write", at |-> 700],
      [type |-> "done", at |-> 760]>>

\* One entry per source of a metric, whatever it says, and one per finding, labelled with its opening.
EvidencePanel(observations, findings) ==
    [metric |-> {o.source : o \in observations},
     rag    |-> [i \in Found(findings) |-> findings[i].opening]]

build_trace(r) ==
    [agents   |-> AgentCards(r.metrics, r.hits, r.industry, r.classification, r.plan, r.researched, r.report),
     calls    |-> ToolCalls(r.graph, r.stress, r.researched.findings),
     events   |-> Timeline(r.risk),
     evidence |-> EvidencePanel(r.observations, r.researched.findings),
     grade    |-> r.risk.grade,
     found    |-> Cardinality(Found(r.researched.findings)),
     mode     |-> r.mode]
=============================================================================
