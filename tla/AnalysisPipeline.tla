-------------------------- MODULE AnalysisPipeline --------------------------
(***************************************************************************)
(* One analysis from request to decision: run_analyze                      *)
(* (orchestrator/analyze.py), the agents of run_analysis_pipeline          *)
(* (agents/pipeline.py), the trace and the admission decision.             *)
(*                                                                         *)
(* The rules may be changed by a user, the model may refuse any call, the  *)
(* save may fail and the search of the documents may fail or find nothing. *)
(*                                                                         *)
(* A request is a record: fixture (None or its name), known (the company   *)
(* has a row), metrics, alt (observations of other sources), estimated,    *)
(* events, industry, documents (some are indexed), applied, skip_polish,   *)
(* include_stress, include_kg and llm (llm_configured()).                  *)
(***************************************************************************)
EXTENDS RiskEvidence, AgentPipeline

CONSTANTS
    Requests,       \* the requests to explore
    RuleBases,      \* the states of the rule base
    MaxRuleChanges, \* bound: changes of the rules during an analysis
    Replies,        \* texts the model may return to a polishing call
    Refinements,    \* what llm_json may read for the classifier: [category, focus, label], None included
    RagAnswers      \* answers of ask_company: [citations, llm_used, opening], None after an exception

\* The graphs of guarantees: who guarantees whom, with the labels that graphs carry or that
\* the decision looks for.
RiskLabels == {"self", "normal", "warn", "high", "dishonest", "executed", None}
Categories == {"subject", "guarantor", "dishonest"}
Names == {"plain", "executed"}
GraphNodes == [id : Nat, risk : RiskLabels, category : Categories, name : Names]
GuaranteeGraphs == [nodes : SUBSET GraphNodes, edges : SUBSET (Nat \X Nat)]

\* A reason for a veto, or a graph, is not the absence of one.
ASSUME NoneAssumption == None \notin {"dishonest", "bankruptcy"} /\ None \notin GuaranteeGraphs

\* A stored graph names a company once.
NamedOnce(graph) == \A m, n \in graph.nodes : m.id = n.id => m = n
ASSUME GraphsAssumption ==
    \A name \in DOMAIN StoredGraphs :
        /\ StoredGraphs[name] \in GuaranteeGraphs
        /\ IsFiniteSet(StoredGraphs[name].edges)
        /\ NamedOnce(StoredGraphs[name])

\* The amount applied for is an integer, where there is one.
ASSUME AppliedAssumption == \A r \in Requests : r.applied \in Int \cup {None}

\* Probabilities are in basis points, severities in hundredths; events and guarantors are counted.
BasisPoints == 0..10000
ASSUME SeverityAssumption == \A pd \in BasisPoints : LogOddsSeverity(pd) \in Nat
ASSUME FilesAssumption ==
    \A r \in Requests : /\ _ohlson(r.metrics) \in BasisPoints \cup {None}
                        /\ _get_metric(r.metrics, "guarantee depth") \in Int \cup {None}
                        /\ \A e \in DOMAIN r.events : r.events[e] \in Nat

\* The rules on file are a list, each of one of the five dimensions.
ASSUME RulesAssumption ==
    \A base \in RuleBases :
        /\ base \in Seq(Range(base))
        /\ \A rule \in Range(base) : rule.dimension \in DOMAIN DIMENSION_WEIGHTS

\* What the model returns is a text, and so are its name for the industry and an answer's opening.
Figures == [raw : Int, percent : BOOLEAN, marked : BOOLEAN]
ASSUME RepliesAssumption == Replies \subseteq Seq(Figures)
ASSUME RefinementsAssumption == \A r \in Refinements : r # None => r.label \in Seq(Figures)
ASSUME AnswersAssumption == \A a \in RagAnswers : a # None => a.opening \in Seq(Figures)

VARIABLES
    req,        \* the request
    rules,      \* the rules on file
    changes,    \* history: changes of the rules so far
    step,       \* where run_analysis_pipeline is
    saved,      \* the scores saved for the company
    out,        \* what has been computed: a record that grows
    findings,   \* of the researcher, in order
    sections    \* of the writer, in order

vars == <<req, rules, changes, step, saved, out, findings, sections>>

Observations(r) ==
    {[name |-> m, value |-> r.metrics[m], source |-> "main"] : m \in DOMAIN r.metrics} \cup r.alt

Init ==
    /\ req \in Requests
    /\ rules \in RuleBases
    /\ changes = 0
    /\ step = "resolve"
    /\ saved = <<>>
    /\ out = <<>>
    /\ findings = <<>>
    /\ sections = <<>>

\* A user saves, activates or disables a rule meanwhile.
ChangeRules ==
    /\ changes < MaxRuleChanges
    /\ changes' = changes + 1
    /\ rules' \in RuleBases \ {rules}
    /\ UNCHANGED <<req, step, saved, out, findings, sections>>

\* _resolve_inputs: a company without a row ends the request.
ResolveInputs ==
    /\ step = "resolve"
    /\ step' = IF req.fixture = None /\ ~req.known THEN "failed" ELSE "score"
    /\ UNCHANGED <<req, rules, changes, saved, out, findings, sections>>

\* The next part of the result.
Add(fields) == out' = Extend(out, fields)

Conflicts(r) == detect_conflicts(Observations(r))
HitsOf(r, base) == match(base, r.metrics, r.events, IF r.fixture = None THEN "company" ELSE r.fixture)
RuleScore(r, base) == score_risk(r.metrics, r.events, HitsOf(r, base))
RiskOf(r, base) == enrich_risk(RuleScore(r, base), r.metrics, r.events, HitsOf(r, base))

ScoreRisk ==
    /\ step = "score"
    /\ out' = [conflicts |-> Conflicts(req),
               hits      |-> HitsOf(req, rules),
               risk      |-> RiskOf(req, rules)]
    /\ step' = "save"
    /\ UNCHANGED <<req, rules, changes, saved, findings, sections>>

\* An exception of the save is swallowed; a fixture without a row is not saved.
SaveScore ==
    /\ step = "save"
    /\ saved' \in IF req.known THEN {saved, Append(saved, out.risk)} ELSE {saved}
    /\ step' = "evidence"
    /\ UNCHANGED <<req, rules, changes, out, findings, sections>>

GraphOf(r) == IF r.include_kg THEN build_guarantee_graph(r.fixture, r.metrics, r.events) ELSE None

CollectEvidence ==
    /\ step = "evidence"
    /\ Add([graph |-> GraphOf(req),
            attribution |-> build_attribution(out.risk.dimensions, out.hits)])
    /\ step' = "polish"
    /\ UNCHANGED <<req, rules, changes, saved, findings, sections>>

ModelReplies(r) == IF r.llm THEN Replies \cup {NoReply} ELSE {NoReply}

\* The figures of the headline's template: the score of a hit is its own.
HeadlineText(risk) == <<ScoreFigure(risk)>>

\* _apply_llm_polish: the headline and, without a model, no narrative.
PolishHeadline ==
    /\ step = "polish"
    /\ \E reply \in IF req.skip_polish THEN {NoReply} ELSE ModelReplies(req) :
        Add([headline |-> polish_headline(reply, HeadlineText(out.risk), req.metrics, out.risk,
                                          Cardinality(out.conflicts))])
    /\ step' = "explain"
    /\ UNCHANGED <<req, rules, changes, saved, findings, sections>>

\* The two dimensions that score most, the earlier ones first among equals.
DimensionRank == [financial |-> 1, operating |-> 2, industry |-> 3, sentiment |-> 4, related |-> 5]

Before(attribution, e, d) ==
    \/ attribution[e].score > attribution[d].score
    \/ attribution[e].score = attribution[d].score /\ DimensionRank[e] < DimensionRank[d]

ExplainTargets(attribution) ==
    {d \in DOMAIN attribution : Cardinality({e \in DOMAIN attribution : Before(attribution, e, d)}) < 2}

\* A job that raises leaves its dimension without a narrative, as no model does.
ExplainDimensions ==
    /\ step = "explain"
    /\ \E answered \in SUBSET (IF req.skip_polish \/ ~req.llm THEN {} ELSE ExplainTargets(out.attribution)) :
       \E reply \in [answered -> ModelReplies(req)] :
        Add([narratives |-> [d \in answered |->
                  explain_attribution_dim(reply[d], out.attribution[d], req.metrics, out.risk,
                                          Cardinality(out.conflicts))]])
    /\ step' = "stress"
    /\ UNCHANGED <<req, rules, changes, saved, findings, sections>>

\* Benchmarks, stress with the rules of now, and the one page.
RunStress ==
    /\ step = "stress"
    /\ Add([benchmarks |-> compare_to_industry(req.industry, req.metrics),
            stress |-> IF req.include_stress THEN run_stress(rules, req.metrics, req.events, out.risk) ELSE None,
            citations |-> {[label |-> o.name, id |-> o.source] : o \in Observations(req)}])
    /\ step' = "classify"
    /\ UNCHANGED <<req, rules, changes, saved, findings, sections>>

ClassifyCompany ==
    /\ step = "classify"
    /\ \E refined \in IF req.llm THEN Refinements ELSE {None} :
        Add([classification |-> classify_company(req.industry, refined)])
    /\ step' = "plan"
    /\ UNCHANGED <<req, rules, changes, saved, findings, sections>>

PlanResearch ==
    /\ step = "plan"
    /\ Add([plan |-> plan_research(out.risk, req.metrics, req.estimated, out.conflicts, out.classification)])
    /\ step' = "research"
    /\ UNCHANGED <<req, rules, changes, saved, findings, sections>>

\* One question of the plan.
ResearchStep ==
    /\ step = "research"
    /\ Len(findings) < Len(out.plan.research_plan)
    /\ \E rag \in {a \in RagAnswers : a # None => (a.llm_used => req.llm) /\ (a.citations # {} => req.documents)} :
        findings' = Append(findings, Finding(out.plan.research_plan[Len(findings) + 1], rag))
    /\ UNCHANGED <<req, rules, changes, step, saved, out, sections>>

ResearchDone ==
    /\ step = "research"
    /\ Len(findings) = Len(out.plan.research_plan)
    /\ step' = "write"
    /\ UNCHANGED <<req, rules, changes, saved, out, findings, sections>>

WriteSection ==
    /\ step = "write"
    /\ Len(sections) < 4
    /\ \E reply \in ModelReplies(req) :
        sections' = Append(sections, _section(Len(sections) + 1, reply, out.risk, Cardinality(out.conflicts),
                                              out.headline.text, out.classification.label, findings))
    /\ UNCHANGED <<req, rules, changes, step, saved, out, findings>>

\* What the decision is taken on.
Finished == [risk |-> out.risk, metrics |-> req.metrics, hits |-> out.hits, conflicts |-> out.conflicts, graph |-> out.graph]

Researched == research(findings)
Report == write_report(sections, out.risk, out.plan, Researched)
Mode == collect_agent_mode({out.classification.mode, "deterministic", Researched.mode, Report.mode})

\* analyze_pipeline: the result, its plan and its report as the page reads them.
Trace ==
    build_trace([metrics |-> req.metrics, industry |-> req.industry, hits |-> out.hits, risk |-> out.risk, graph |-> out.graph,
                 stress |-> out.stress, classification |-> out.classification, plan |-> out.plan,
                 researched |-> Researched, report |-> Report, observations |-> Observations(req), mode |-> Mode])

\* credit_decision: the same analysis, decided for the limit applied for.
Decision == build_credit_decision(Finished, req.applied)

Publish ==
    /\ step = "write"
    /\ Len(sections) = 4
    /\ Add([report |-> Report, mode |-> Mode, trace |-> Trace, decision |-> Decision])
    /\ step' = "done"
    /\ UNCHANGED <<req, rules, changes, saved, findings, sections>>

Next ==
    \/ ChangeRules
    \/ ResolveInputs
    \/ ScoreRisk
    \/ SaveScore
    \/ CollectEvidence
    \/ PolishHeadline
    \/ ExplainDimensions
    \/ RunStress
    \/ ClassifyCompany
    \/ PlanResearch
    \/ ResearchStep
    \/ ResearchDone
    \/ WriteSection
    \/ Publish

Spec == Init /\ [][Next]_vars

-----------------------------------------------------------------------------
(* Properties.                                                             *)

Grades == {"GREEN", "YELLOW", "ORANGE", "RED", "BLACK", "UNRATED"}

Scored == "risk" \in DOMAIN out
Decided == step = "done"
Vetoed(events) == Truthy(events, "dishonest") \/ Truthy(events, "bankruptcy")

\* The state has the types its readers rely on: the score's range, the dimensions', the grades.
TypeOK ==
    /\ step \in {"resolve", "failed", "score", "save", "evidence", "polish", "explain", "stress",
                 "classify", "plan", "research", "write", "done"}
    /\ changes \in 0..MaxRuleChanges
    /\ Len(findings) <= 5 /\ Len(sections) <= 4
    /\ Scored => /\ out.risk.score \in 0..10000
                 /\ out.risk.grade \in Grades
                 /\ \A d \in DOMAIN DIMENSION_WEIGHTS : out.risk.dimensions[d] \in 0..100
                 /\ Len(out.risk.reasons) <= 8

\* A veto is final: no layer, rule change or scenario lifts the grade from BLACK, the decision
\* is DECLINE with no limit and a human, and the report says so.
VetoIsFinal ==
    Scored /\ Vetoed(req.events) =>
        /\ out.risk.grade = "BLACK"
        /\ out.risk.calibrated.scale = "D"
        /\ Decided => /\ out.decision.decision = "DECLINE" /\ out.decision.manual /\ out.decision.ratio_max = 0
                      /\ Disclosure("veto", None) \in out.report.disclosures
                      /\ out.stress # None => \A s \in DOMAIN out.stress : out.stress[s].grade = "BLACK"

\* Unknown is not safe: without half of the metrics there is no grade, no limit and a human decides.
UnknownIsNotSafe ==
    Decided /\ ~Vetoed(req.events) /\ (~Enough(req.metrics) \/ ~CoreEnough(req.metrics)) =>
        /\ ~Enough(req.metrics) => out.risk.grade = "UNRATED"
        /\ out.decision.decision = "INSUFFICIENT_DATA"
        /\ out.decision.ratio_max = 0 /\ out.decision.suggested \in {None, 0} /\ out.decision.manual

\* Nothing but a clean file is approved without a human or a condition.
ApprovalIsClean ==
    Decided /\ out.decision.decision = "APPROVE" =>
        /\ out.risk.score < 2000 /\ out.risk.calibrated.grade = "GREEN"
        /\ out.conflicts = {} /\ DishonestInChain(out.graph) = {}
        /\ CoreEnough(req.metrics) /\ ~Vetoed(req.events)

Rank(grade) ==
    CASE grade = "GREEN" -> 0 [] grade = "YELLOW" -> 1 [] grade = "ORANGE" -> 2 [] grade = "RED" -> 3 [] OTHER -> 4

\* The layers beside the rules may raise the score and worsen the grade, never the reverse.
UpliftOnlyRaises ==
    Scored => LET before == score_risk(req.metrics, req.events, out.hits)
              IN  out.risk.score >= before.score /\ Rank(out.risk.grade) >= Rank(before.grade)

Rescored(hits, events) == enrich_risk(score_risk(req.metrics, events, hits), req.metrics, events, hits)

\* The same file with one more piece of bad news.
SeriousHit == [id |-> "R0", dimension |-> "financial", severity |-> "high", scores |-> TRUE]
WithVeto == [Finished EXCEPT !.risk = Rescored(out.hits, Extend([e \in {"dishonest"} |-> 1], req.events))]
WithHit == [Finished EXCEPT !.hits = Append(@, SeriousHit), !.risk = Rescored(Append(out.hits, SeriousHit), req.events)]
WithConflict == [Finished EXCEPT !.conflicts = @ \cup {"ROE"}]
WithDishonest ==
    [Finished EXCEPT !.graph = [nodes |-> Nodes(out.graph) \cup {Node(9, "dishonest", "guarantor")}, edges |-> Edges(out.graph)]]

\* It lowers the limit or leaves it, and does not spare the human.
Disfavours(worse) ==
    LET d == build_credit_decision(worse, req.applied)
    IN  d.ratio_max <= out.decision.ratio_max /\ (out.decision.manual => d.manual)

\* The layers that raise the score of the rules, with these hits.
RaisedBy(hits) == Used(score_risk(req.metrics, req.events, hits).score, Layers(req.metrics, req.events))

\* A veto, a conflict or a dishonest guarantor never raises the limit and never spares the
\* human, and neither does a serious hit, unless it brings the rules' score so near to a layer
\* that the layer counts no more (see HitsDisfavour).
BadNewsNeverFavours ==
    Decided => /\ Disfavours(WithVeto) /\ Disfavours(WithConflict) /\ Disfavours(WithDishonest)
               /\ RaisedBy(Append(out.hits, SeriousHit)) = RaisedBy(out.hits) => Disfavours(WithHit)

\* What the attribution adds up to, and whether the score has the boost of an early warning.
Contributed == SumFunction([d \in DOMAIN out.attribution |-> out.attribution[d].contribution])
Boost == IF _detect_consecutive_loss(req.metrics, req.events, out.hits) /\ ~Vetoed(req.events) THEN EARLY_WARNING_BOOST ELSE 0

Listed(hit) == \E d \in DOMAIN out.attribution : hit.id \in out.attribution[d].hits

\* The attribution adds up to the score of the rules, and shows every hit that scored.
AttributionExplainsScore ==
    "attribution" \in DOMAIN out =>
        /\ score_risk(req.metrics, req.events, out.hits).score = Min({10000, Contributed + Boost})
        /\ \A i \in DOMAIN out.hits : out.hits[i].scores => Listed(out.hits[i])

\* What the system does not know reaches the report and the page: a missing metric, a conflict,
\* a dimension the search left open.
GapsReachReport ==
    Decided =>
        /\ \A m \in _EXPECTED_METRICS \ DOMAIN req.metrics :
              \E g \in out.report.disclosures : g.code = "missing_metrics" /\ m \in g.about
        /\ out.conflicts # {} => Disclosure("data_conflicts", None) \in out.report.disclosures
        /\ \A i \in DOMAIN findings : ~findings[i].found =>
              /\ Disclosure("retrieval_gap", findings[i].dimension) \in out.report.disclosures
              /\ i \notin DOMAIN out.trace.evidence.rag
        /\ Cardinality(DOMAIN out.trace.evidence.rag) = out.trace.found

\* A text shows no figure at face value but those the gate permits and those given.
Sourced(text, allowed, given) == \A i \in Unmarked(text) : Permitted(text[i], allowed) \/ text[i] \in given

\* The figures an analysis and a background check may show.
Allowed == collect_allowed_numbers(req.metrics, out.risk, Cardinality(out.conflicts))

HeadlineSourced == "headline" \in DOMAIN out => Sourced(out.headline.text, Allowed, {ScoreFigure(out.risk)})

NarrativesSourced ==
    "narratives" \in DOMAIN out =>
        \A d \in DOMAIN out.narratives :
            Sourced(out.narratives[d], Allowed, Range(AttributionText(out.attribution[d])))

\* What the program counts in a section, what it quotes from the documents of the company, and
\* what it quotes from the model without asking the gate.
CountedIn(i) == IF i = 1 THEN {ScoreFigure(out.risk)} ELSE IF i = 3 THEN {FoundFigure(findings)} ELSE {}

Openings(answers) == UNION {Range(findings[j].opening) : j \in answers}

ExcerptedIn(i) == IF i = 3 THEN Openings({j \in Found(findings) : ~findings[j].llm_used}) ELSE {}

QuotedIn(i) ==
    IF i = 1 THEN Range(out.classification.label)
    ELSE IF i = 3 THEN Openings({j \in Found(findings) : findings[j].llm_used}) ELSE {}

SectionsSourced ==
    \A i \in DOMAIN sections :
        Sourced(sections[i].text, Allowed, CountedIn(i) \cup ExcerptedIn(i) \cup QuotedIn(i))

Registers == {None, <<Figure(5000000, FALSE), Figure(7000, FALSE)>>}

RepliesSourced ==
    "headline" \in DOMAIN out =>
        \A reply \in ModelReplies(req), register \in Registers :
            Sourced(background_reply(reply, register, req.metrics, out.risk, Cardinality(out.conflicts)).answer,
                    Allowed \cup IF register = None THEN {} ELSE FiguresOf(register),
                    Range(BackgroundText(register, out.risk)))

\* Every unmarked figure of the analysis, of the report and of a background check has a source:
\* the figures the gate permits, a count of the program, an answer of a search that found
\* something (quoted in the section on the search alone), or the model's name for the industry
\* (quoted in the summary alone).
FiguresHaveSource == HeadlineSourced /\ NarrativesSourced /\ SectionsSourced /\ RepliesSourced

\* A guarantor gets worse.
Worse(n, label) == n.risk = "normal" \/ (n.risk = "warn" /\ label = "high")
Worsened(graph, n, label) == [graph EXCEPT !.nodes = (@ \ {n}) \cup {[n EXCEPT !.risk = label]}]

\* A worse guarantor never lowers the contagion, and contagion never lowers a probability.
BaseProbabilities == {0, 500, 9900}
ContagionOnlyRaises ==
    "graph" \in DOMAIN out /\ out.graph # None =>
        LET c == compute_contagion(out.graph)
        IN  /\ c \in BasisPoints
            /\ \A pd \in BaseProbabilities : contagion_adjusted_pd(pd, c) >= pd
            /\ \A n \in out.graph.nodes : \A label \in {"warn", "high"} :
                  Worse(n, label) => compute_contagion(Worsened(out.graph, n, label)) >= c

-----------------------------------------------------------------------------
(* What the documents of the program say, and the program does not do.     *)

\* "a chain with an executed or dishonest guarantor goes to a human": the graphs name it and
\* label it high; the decision looks for other labels.
DishonestChainReviewed ==
    Decided /\ out.graph # None /\ (\E n \in out.graph.nodes : n.name = "executed") => out.decision.manual

\* "conflicts do not lower the level but force a human to check".
ConflictsReviewed == Decided /\ out.conflicts # {} => out.decision.manual

\* "a missing item is not read in favour of the applicant".
Without(m) == [n \in DOMAIN req.metrics \ {m} |-> req.metrics[n]]
MissingNeverFavours ==
    Decided => \A m \in DOMAIN req.metrics :
        LET hits == match(rules, Without(m), req.events, IF req.fixture = None THEN "company" ELSE req.fixture)
            risk == enrich_risk(score_risk(Without(m), req.events, hits), Without(m), req.events, hits)
            d    == build_credit_decision([Finished EXCEPT !.risk = risk, !.metrics = Without(m), !.hits = hits], req.applied)
        IN  changes = 0 => d.ratio_max <= out.decision.ratio_max

\* "any figure must come from the allowed set; if the model invents a figure, the template
\* stands": the templates quote the model, ungated.
InventedFiguresMarked ==
    \A i \in DOMAIN sections : Sourced(sections[i].text, Allowed, CountedIn(i) \cup ExcerptedIn(i))

\* "yellow: admitted with conditions that hedge the flaws".
ConditionalHasConditions ==
    Decided /\ out.decision.decision = "APPROVE_WITH_CONDITIONS" => out.decision.conditions # {}

\* "every conclusion is traced to its source": a hit to the file its rule is in.
HitsAreSourced ==
    Scored => consolidate_citations(out.hits, Observations(req)).unsourced = {}

\* A layer less than UPLIFT_MIN_DELTA above the score of the rules is dropped whole, so one
\* more serious hit may lower the combined score.
HitsDisfavour == Decided => Disfavours(WithHit)

\* A shock never improves the score it is compared with.
StressNeverEases ==
    "stress" \in DOMAIN out /\ out.stress # None => \A s \in DOMAIN out.stress : out.stress[s].delta >= 0
=============================================================================
