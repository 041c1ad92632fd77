--------------------------- MODULE CreditDecision ---------------------------
(***************************************************************************)
(* The admission decision before lending,                                  *)
(* packages/bizatlas/credit/decision.py: an analysis becomes a decision,   *)
(* a range for the limit, a price, conditions and the gate to a human.     *)
(*                                                                         *)
(* An analysis is a record: risk (of RiskScore), metrics, hits, conflicts  *)
(* (the names of metrics in conflict) and graph, None or                   *)
(* [nodes |-> set of [id, risk, category, name], edges |-> set of <<source, target>>].        *)
(* Ratios are in hundredths of a percent of the amount applied for.        *)
(***************************************************************************)
EXTENDS RiskScore

GRADE_POLICY ==
    [GREEN   |-> [decision |-> "APPROVE",                 ratio |-> <<80, 100>>, premium |-> <<0, 40>>,    manual |-> FALSE],
     YELLOW  |-> [decision |-> "APPROVE_WITH_CONDITIONS", ratio |-> <<50, 80>>,  premium |-> <<40, 110>>,  manual |-> FALSE],
     ORANGE  |-> [decision |-> "MANUAL_REVIEW",           ratio |-> <<20, 50>>,  premium |-> <<110, 240>>, manual |-> TRUE],
     RED     |-> [decision |-> "DECLINE",                 ratio |-> <<0, 20>>,   premium |-> <<240, 400>>, manual |-> TRUE],
     BLACK   |-> [decision |-> "DECLINE",                 ratio |-> <<0, 0>>,    premium |-> <<0, 0>>,     manual |-> TRUE],
     UNRATED |-> [decision |-> "INSUFFICIENT_DATA",       ratio |-> <<0, 0>>,    premium |-> <<0, 0>>,     manual |-> TRUE]]

CORE_METRICS == {"debt ratio", "current ratio", "quick ratio", "interest cover",
                 "cash to profit", "ROE", "guarantee ratio", "pledge ratio"}

DIMENSION_CONDITIONS ==
    [financial |-> <<"FIN-01", "FIN-02">>, related |-> <<"REL-01", "REL-02">>,
     operating |-> <<"OPR-01", "OPR-02">>, sentiment |-> <<"PUB-01">>, industry |-> <<"IND-01">>]

-----------------------------------------------------------------------------
(* The exposure of the applicant to the companies it guarantees.           *)
Nodes(graph) == IF graph = None THEN {} ELSE graph.nodes
Edges(graph) == IF graph = None THEN {} ELSE graph.edges

DishonestInChain(graph) ==
    {n \in Nodes(graph) : n.risk \in {"dishonest", "executed"} \/ n.category = "dishonest"}

ChainDepth(graph, metrics) ==
    LET depth == _get_metric(metrics, "guarantee depth") IN IF depth # None THEN depth ELSE Cardinality(Edges(graph))

_analyze_guarantee_contagion(graph, metrics) ==
    LET ratio == _get_metric(metrics, "guarantee ratio")
        depth == ChainDepth(graph, metrics)
    IN  CASE DishonestInChain(graph) # {} -> "high"
          [] DishonestInChain(graph) = {} /\ (depth >= 3 \/ (ratio # None /\ ratio > 50)) -> "elevated"
          [] DishonestInChain(graph) = {} /\ depth < 3 /\ (ratio = None \/ ratio <= 50)
                /\ (depth >= 1 \/ (ratio # None /\ ratio > 0)) -> "moderate"
          [] OTHER -> IF Cardinality(Nodes(graph)) <= 1 THEN "unknown" ELSE "low"

\* mutant: only the middle exposure costs
_contagion_haircut_swapped(exposure) ==
    CASE exposure = "high" -> 0 [] exposure = "elevated" -> 15 [] exposure = "unknown" -> 10 [] OTHER -> 0

_contagion_haircut(exposure) ==
    CASE exposure = "high" -> 30 [] exposure = "elevated" -> 15 [] exposure = "unknown" -> 10 [] OTHER -> 0

-----------------------------------------------------------------------------
(* The conditions, each with what calls for it.                            *)
ConditionsOf(hits, d) ==
    LET mine == {i \in DOMAIN hits : hits[i].dimension = d}
        high == \E i \in mine : hits[i].severity = "high"
        all  == DIMENSION_CONDITIONS[d]
    IN  IF mine = {} THEN {} ELSE IF high THEN ToSet(all) ELSE {all[1]}

_build_conditions(hits, missing, conflicts, exposure) ==
    UNION {ConditionsOf(hits, d) : d \in DOMAIN DIMENSION_CONDITIONS}
      \cup (CASE exposure = "high" -> {"CTG-01"} [] exposure = "elevated" -> {"CTG-02"} [] OTHER -> {})
      \cup (IF missing # {} THEN {"DAT-01"} ELSE {})
      \cup (IF conflicts # {} THEN {"DAT-02"} ELSE {})

-----------------------------------------------------------------------------
(* The decision: policy of the grade, completeness, veto, chain, conflicts.*)
CoreEnough(metrics) == 2 * Cardinality(CORE_METRICS \cap DOMAIN metrics) >= Cardinality(CORE_METRICS)

PolicyOf(risk) == IF risk.grade \in DOMAIN GRADE_POLICY THEN GRADE_POLICY[risk.grade] ELSE GRADE_POLICY["UNRATED"]

Rated(policy, vetoed, enough) ==
    IF vetoed THEN "DECLINE" ELSE IF ~enough THEN "INSUFFICIENT_DATA" ELSE policy.decision

Decide(rated, chained, conflicts) ==
    IF chained /\ rated \in {"APPROVE", "APPROVE_WITH_CONDITIONS"} THEN "MANUAL_REVIEW"
    ELSE IF rated = "APPROVE" /\ conflicts # {} THEN "APPROVE_WITH_CONDITIONS" ELSE rated

ManualRequired(policy, vetoed, enough, chained) ==
    policy.manual \/ vetoed \/ ~enough \/ (chained /\ policy.decision \in {"APPROVE", "APPROVE_WITH_CONDITIONS"})

Ratio(decision, ratio, haircut) ==
    IF decision \in {"DECLINE", "INSUFFICIENT_DATA"} THEN 0 ELSE Max({0, Min({10000, ratio * (100 - haircut)})})

\* An amount of 0 counts as none given.
Suggested(applied, ratio) == IF applied \in {None, 0} THEN None ELSE RoundDiv(applied * ratio, 10000)

build_credit_decision(a, applied) ==
    LET policy   == PolicyOf(a.risk)
        vetoed   == a.risk.veto # None
        chained  == DishonestInChain(a.graph) # {}
        exposure == _analyze_guarantee_contagion(a.graph, a.metrics)
        haircut  == _contagion_haircut(exposure)
        missing  == CORE_METRICS \ DOMAIN a.metrics
        decision == Decide(Rated(policy, vetoed, CoreEnough(a.metrics)), chained, a.conflicts)
        low      == Ratio(decision, policy.ratio[1], haircut)
        high     == Ratio(decision, policy.ratio[2], haircut)
    IN  [decision   |-> decision,
         grade      |-> a.risk.grade,
         manual     |-> ManualRequired(policy, vetoed, CoreEnough(a.metrics), chained),
         ratio_min  |-> low,
         ratio_max  |-> high,
         suggested  |-> Suggested(applied, high),
         premium    |-> policy.premium,
         exposure   |-> exposure,
         haircut    |-> haircut,
         missing    |-> missing,
         conditions |-> _build_conditions(a.hits, missing, a.conflicts, exposure)]
=============================================================================
