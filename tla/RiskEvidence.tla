---------------------------- MODULE RiskEvidence ----------------------------
(***************************************************************************)
(* What stands beside a score: conflicts between sources (risk/conflicts.py*)
(* ), the attribution to dimensions (attribution.py), stress scenarios     *)
(* (stress.py), citations (citations.py), the guarantee graph and its      *)
(* contagion (kg/graph.py, kg/contagion.py) and the industry's benchmarks  *)
(* (industry/benchmarks.py).                                               *)
(*                                                                         *)
(* An observation is [name, value, source], the last one of a source and   *)
(* tier for its name; values are in hundredths, probabilities in percent.  *)
(***************************************************************************)
EXTENDS CreditDecision

CONSTANTS
    RuleDocs,               \* the YAML documents of the rules directory: [kind, ids]
    StoredGraphs,           \* graph.json of the fixtures that have one
    BenchmarkTable,         \* industry |-> metric |-> [above, below], hundredths or None
    Resembles(_, _)         \* one name of an industry contains the other

-----------------------------------------------------------------------------
(* Conflicts: a material gap between two sources of one metric.            *)
Magnitude(n) == IF n < 0 THEN -n ELSE n

Material(values) ==
    LET span == Max(values) - Min(values)
        base == Max({Magnitude(Max(values)), Magnitude(Min(values)), 1})
    IN  span >= 2 \/ 100 * span >= 8 * base

ObservedOf(observations, name) == {o \in observations : o.name = name /\ o.value # None}

detect_conflicts(observations) ==
    {n \in {o.name : o \in observations} :
        /\ Cardinality({o.source : o \in ObservedOf(observations, n)}) >= 2
        /\ Material({o.value : o \in ObservedOf(observations, n)})}

-----------------------------------------------------------------------------
(* Attribution: what each dimension contributes, and the hits behind it.   *)
HitMass(hits, mine) ==
    SumFunction([i \in {j \in mine : hits[j].scores} |-> SEVERITY_SCORE(hits[i].severity)])

\* mutant: only serious hits are listed
build_attribution_top(dimensions, hits) ==
    [d \in DOMAIN DIMENSION_WEIGHTS |->
        [score |-> dimensions[d], contribution |-> dimensions[d] * DIMENSION_WEIGHTS[d], mass |-> 0,
         hits |-> {hits[i].id : i \in {j \in DOMAIN hits : hits[j].dimension = d /\ hits[j].severity = "high"}}]]

build_attribution(dimensions, hits) ==
    [d \in DOMAIN DIMENSION_WEIGHTS |->
        LET mine == {i \in DOMAIN hits : hits[i].dimension = d} IN
        [score        |-> dimensions[d],
         contribution |-> dimensions[d] * DIMENSION_WEIGHTS[d],
         mass         |-> HitMass(hits, mine),
         hits         |-> {hits[i].id : i \in mine}]]

-----------------------------------------------------------------------------
(* Stress: shocked metrics and events, matched and scored again.           *)
SCENARIOS ==
    [revenue_down_20 |-> [mul |-> [m \in {"gross margin", "ROE"} |-> IF m = "ROE" THEN 70 ELSE 80],
                          add |-> [m \in {"cash to profit"} |-> -20], events |-> {}],
     rate_up_200bp   |-> [mul |-> [m \in {"interest cover", "current ratio"} |-> IF m = "current ratio" THEN 90 ELSE 60],
                          add |-> [m \in {"debt ratio"} |-> 5], events |-> {}],
     guarantee_chain |-> [mul |-> <<>>,
                          add |-> [m \in {"guarantee ratio", "pledge ratio", "guarantee depth"} |->
                                      CASE m = "guarantee ratio" -> 15 [] m = "pledge ratio" -> 10 [] OTHER -> 1],
                          events |-> {"lawsuit"}]]

_apply_shocks(metrics, shock) ==
    [m \in DOMAIN metrics |->
        CASE metrics[m] # None /\ m \in DOMAIN shock.mul -> (metrics[m] * shock.mul[m]) \div 100
          [] metrics[m] # None /\ m \in DOMAIN shock.add -> metrics[m] + shock.add[m]
          [] OTHER -> metrics[m]]

Shocked(events, shock) == Extend([e \in shock.events |-> 1], events)

\* The rules are loaded anew, and applied without the key of the gradual release.
Scenario(rules, metrics, events, s) ==
    LET m == _apply_shocks(metrics, SCENARIOS[s])
        e == Shocked(events, SCENARIOS[s])
    IN  score_risk(m, e, match(rules, m, e, None))

run_stress(rules, metrics, events, baseline) ==
    [s \in DOMAIN SCENARIOS |->
        LET risk == Scenario(rules, metrics, events, s)
        IN  [grade |-> risk.grade, score |-> risk.score, delta |-> risk.score - baseline.score]]

-----------------------------------------------------------------------------
(* Citations: a rule is sourced when a document of the directory is it.    *)
_rule_file_map == UNION {doc.ids : doc \in {d \in RuleDocs : d.kind = "rule"}}

consolidate_citations(hits, observations) ==
    LET cited == {hits[i].id : i \in DOMAIN hits}
    IN  [metrics  |-> {[label |-> o.name, id |-> o.source] : o \in observations},
         rules    |-> cited,
         unsourced |-> cited \ _rule_file_map]

-----------------------------------------------------------------------------
(* The guarantee graph: the stored one, or a chain as long as the metric   *)
(* says, or the company alone.  A name may end in "(executed)".             *)
Node(id, risk, category) == [id |-> id, risk |-> risk, category |-> category, name |-> "plain"]
NamedExecuted(node) == [node EXCEPT !.name = "executed"]

_synthesize(layers, dishonest) ==
    LET length == Max({1, layers})
        risk(i) == CASE i = layers /\ dishonest -> "high"
                     [] ~(i = layers /\ dishonest) /\ i >= 3 -> "warn"
                     [] OTHER -> "normal"
        guarantor(i) == Node(i, risk(i), "guarantor")
    IN  [nodes |-> {Node(0, "self", "subject")}
                     \cup {IF i = length /\ dishonest THEN NamedExecuted(guarantor(i)) ELSE guarantor(i) : i \in 1..length},
         edges |-> {<<i - 1, i>> : i \in 1..length}]

build_guarantee_graph(fixture, metrics, events) ==
    LET layers == _get_metric(metrics, "guarantee depth")
    IN  CASE fixture = None -> [nodes |-> {Node(0, None, "subject")}, edges |-> {}]
          [] fixture # None /\ fixture \in DOMAIN StoredGraphs -> StoredGraphs[fixture]
          [] OTHER -> _synthesize(IF layers \in {None, 0} THEN 1 ELSE layers, Truthy(events, "dishonest"))

-----------------------------------------------------------------------------
(* Contagion: each edge passes half of the probability of its far end, and *)
(* one of them is enough: 1 - the product of (1 - w p), in basis points.   *)
\* mutant: a warning counts less than nothing known
_node_pd_swapped(node) ==
    CASE node.risk = "high" -> 60 [] node.risk = "warn" -> 4 [] node.risk = "self" -> 0 [] OTHER -> 10

_node_pd(node) ==
    CASE node.risk = "high" -> 60 [] node.risk = "warn" -> 30 [] node.risk = "self" -> 0 [] OTHER -> 10

\* 100 (1 - p / 2): the half of a probability is a whole number of percent.
Survives(graph, edge) ==
    LET far  == {n \in graph.nodes : n.id = edge[2]}
        near == {n \in graph.nodes : n.id = edge[1]}
    IN  CASE far # {} -> 100 - _node_pd(CHOOSE n \in far : TRUE) \div 2
          [] far = {} /\ near # {} -> 100 - _node_pd(CHOOSE n \in near : TRUE) \div 2
          [] OTHER -> 100

\* The product is kept in millionths.
Whole == 1000000

compute_contagion(graph) ==
    LET survive == FoldSet(LAMBDA edge, acc : RoundDiv(acc * Survives(graph, edge), 100), Whole, graph.edges)
    IN  10000 - RoundDiv(survive, 100)

contagion_adjusted_pd(base_pd, contagion) ==
    Min({10000, 10000 - RoundDiv((10000 - base_pd) * (10000 - contagion), 10000)})

-----------------------------------------------------------------------------
(* Benchmarks of the industry: exact name, one that resembles it, default. *)
IndustryKey(industry) ==
    CASE industry \in DOMAIN BenchmarkTable -> industry
      [] industry \notin DOMAIN BenchmarkTable
            /\ (\E name \in DOMAIN BenchmarkTable : Resembles(industry, name)) ->
            CHOOSE name \in DOMAIN BenchmarkTable : Resembles(industry, name)
      [] OTHER -> "default"

compare_to_industry(industry, metrics) ==
    LET table == BenchmarkTable[IndustryKey(industry)]
    IN  [m \in {n \in DOMAIN table : Has(metrics, {n})} |->
            CASE table[m].above # None /\ metrics[m] > table[m].above -> "warn_high"
              [] ~(table[m].above # None /\ metrics[m] > table[m].above)
                    /\ table[m].below # None /\ metrics[m] < table[m].below -> "warn_low"
              [] OTHER -> "ok"]
=============================================================================
