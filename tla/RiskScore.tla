------------------------------ MODULE RiskScore ------------------------------
(***************************************************************************)
(* The score of a company: rule severity (packages/bizatlas/risk/score.py),*)
(* financial distress (distress.py), commercial behaviour (behavioral.py), *)
(* their fusion, calibration (calibration.py) and reason codes             *)
(* (reason_codes.py).                                                      *)
(*                                                                         *)
(* Scores are integers in hundredths of a point (0..10000), probabilities  *)
(* in basis points (0..10000).  The logarithms of the code are taken from  *)
(* two constants: the severity of a probability, and Ohlson's probability  *)
(* of a balance sheet.                                                     *)
(***************************************************************************)
EXTENDS RuleMatching, FiniteSetsExt

CONSTANTS
    FullMetrics,            \* the number of metrics of a complete file (8)
    LogOddsSeverity(_),     \* severity_from_pd of a probability
    OhlsonPd(_)             \* 1 / (1 + exp(-O)) of a balance sheet

RoundDiv(a, b) == (2 * a + b) \div (2 * b)

-----------------------------------------------------------------------------
(* Rule severity.                                                          *)
DIMENSION_WEIGHTS == [financial |-> 30, operating |-> 25, industry |-> 15, sentiment |-> 15, related |-> 15]

SEVERITY_SCORE(severity) ==
    CASE severity = "high" -> 25 [] severity = "mid" -> 12 [] severity = "low" -> 5 [] OTHER -> 10

EARLY_WARNING_BOOST == 1800
EARLY_WARNING_RULE_IDS == {"R1011", "R1012"}

Band(score) ==
    IF score < 2000 THEN "GREEN" ELSE IF score < 4000 THEN "YELLOW"
    ELSE IF score < 6000 THEN "ORANGE" ELSE IF score < 8000 THEN "RED" ELSE "BLACK"

_grade(score, veto) == IF veto THEN "BLACK" ELSE Band(score)

_detect_consecutive_loss(metrics, events, hits) ==
    \/ Truthy(events, "losses")
    \/ LET years == _get_metric(metrics, "loss years") IN years # None /\ years >= 2
    \/ \E i \in DOMAIN hits : hits[i].id \in EARLY_WARNING_RULE_IDS /\ hits[i].scores

\* A hit of an unknown dimension counts as financial.
DimensionOf(hit) == IF hit.dimension \in DOMAIN DIMENSION_WEIGHTS THEN hit.dimension ELSE "financial"

Counted(hits, d) == {i \in DOMAIN hits : hits[i].scores /\ DimensionOf(hits[i]) = d}
Severities(hits, d) == [i \in Counted(hits, d) |-> SEVERITY_SCORE(hits[i].severity)]
dim_score(hits, d) == Min({100, 2 * SumFunction(Severities(hits, d))})

RuleTotal(hits) ==
    SumFunction([d \in DOMAIN DIMENSION_WEIGHTS |-> dim_score(hits, d) * DIMENSION_WEIGHTS[d]])

VetoReason(events) ==
    CASE Truthy(events, "dishonest") -> "dishonest"
      [] ~Truthy(events, "dishonest") /\ Truthy(events, "bankruptcy") -> "bankruptcy"
      [] OTHER -> None

Enough(metrics) == 2 * Cardinality(DOMAIN metrics) >= FullMetrics

\* In hundredths, half to even.
Completeness(metrics) ==
    LET found == 100 * Min({FullMetrics, Cardinality(DOMAIN metrics)})
        share == found \div FullMetrics
        rest  == 2 * (found % FullMetrics)
    IN  IF rest < FullMetrics \/ (rest = FullMetrics /\ share % 2 = 0) THEN share ELSE share + 1

Headline(veto, warned, hits, metrics, total) ==
    CASE veto # None -> "veto"
      [] veto = None /\ warned -> "losses"
      [] veto = None /\ ~warned /\ hits # <<>> -> IF total >= 4000 THEN "caution" ELSE "under control"
      [] veto = None /\ ~warned /\ hits = <<>> /\ DOMAIN metrics # {} -> "no rule hit"
      [] OTHER -> "no data"

score_risk(metrics, events, hits) ==
    LET veto   == VetoReason(events)
        warned == _detect_consecutive_loss(metrics, events, hits) /\ veto = None
        total  == Min({10000, RuleTotal(hits) + (IF warned THEN EARLY_WARNING_BOOST ELSE 0)})
    IN  [score      |-> total,
         veto       |-> veto,
         enough     |-> Enough(metrics),
         completeness |-> Completeness(metrics),
         grade      |-> IF veto = None /\ ~Enough(metrics) THEN "UNRATED" ELSE _grade(total, veto # None),
         dimensions |-> [d \in DOMAIN DIMENSION_WEIGHTS |-> dim_score(hits, d)],
         headline   |-> Headline(veto, warned, hits, metrics, total)]

-----------------------------------------------------------------------------
(* Financial distress.                                                     *)
Has(metrics, names) == \A n \in names : _get_metric(metrics, n) # None

_altman_zone(z, unit) ==
    CASE 10 * z < 11 * unit -> "distress" [] 10 * z >= 26 * unit -> "safe" [] OTHER -> "grey"

\* Z'' as a fraction: its numerator over 100 * total assets * total liabilities.
_altman_z2(m) ==
    IF ~Has(m, {"wc", "ta", "re", "ebit", "equity", "tl"}) \/ m["ta"] = 0 THEN None
    ELSE LET mass == 656 * m["wc"] + 326 * m["re"] + 672 * m["ebit"]
         IN  IF m["tl"] = 0 THEN _altman_zone(mass, 100 * m["ta"])
             ELSE _altman_zone(mass * m["tl"] + 105 * m["equity"] * m["ta"], 100 * m["ta"] * m["tl"])

\* The stored Z of a listed company (hundredths) stands in for a balance sheet.
Altman(m) ==
    IF _altman_z2(m) # None THEN _altman_z2(m)
    ELSE IF Has(m, {"z value"}) THEN _altman_zone(m["z value"], 100) ELSE None

_altman_pd(zone) == CASE zone = "distress" -> 6500 [] zone = "grey" -> 2500 [] zone = "safe" -> 500 [] OTHER -> None

_ohlson(m) ==
    IF Has(m, {"ta", "tl", "wc", "ca", "cl", "ni"}) /\ m["ta"] > 0 /\ m["cl"] # 0 /\ m["ca"] # 0
    THEN OhlsonPd(m) ELSE None

compute_distress(m) ==
    [pd   |-> IF _ohlson(m) # None THEN _ohlson(m) ELSE _altman_pd(Altman(m)),
     zone |-> Altman(m)]

-----------------------------------------------------------------------------
(* Commercial behaviour: what is on file about each dimension.             *)
BEHAVIORAL_DIMS ==
    [judicial  |-> [events |-> {"judgments", "filings"},     weight |-> 25, per_hit |-> 35],
     dishonest |-> [events |-> {"dishonest", "executed"},    weight |-> 30, per_hit |-> 45],
     penalty   |-> [events |-> {"penalties"},                weight |-> 20, per_hit |-> 30],
     irregular |-> [events |-> {"irregularities"},           weight |-> 15, per_hit |-> 25],
     equity    |-> [events |-> {"freezes", "pledges"},       weight |-> 10, per_hit |-> 30]]

Known(events) == {d \in DOMAIN BEHAVIORAL_DIMS : BEHAVIORAL_DIMS[d].events \cap DOMAIN events # {}}

_count_event(events, d) ==
    SumFunction([e \in BEHAVIORAL_DIMS[d].events \cap DOMAIN events |-> events[e]])

Drivers(events) == {d \in Known(events) : _count_event(events, d) > 0}

compute_behavioral(events) ==
    LET sub(d)  == Min({100, BEHAVIORAL_DIMS[d].per_hit * _count_event(events, d)})
        weights == SumFunction([d \in Drivers(events) |-> BEHAVIORAL_DIMS[d].weight])
        mass    == SumFunction([d \in Drivers(events) |-> sub(d) * BEHAVIORAL_DIMS[d].weight])
    IN  [known     |-> Cardinality(Known(events)),
         drivers   |-> Drivers(events),
         composite |-> IF weights = 0 THEN 0 ELSE 10 * RoundDiv(10 * mass, weights)]

-----------------------------------------------------------------------------
(* Calibration.  logistic_pd(score) reaches a probability at the score of  *)
(* this table (in hundredths, from a = -6.2, b = 0.0795): the code uses    *)
(* the probability only to find its band.                                  *)
logistic_pd ==
    [p3 |-> -2404, p10 |-> -888, p30 |-> 496, p100 |-> 2019, p300 |-> 3427, p700 |-> 4546,
     p1000 |-> 5035, p1500 |-> 5617, p2500 |-> 6417, p3000 |-> 6733, p5500 |-> 8052]

master_scale_from_pd(score) ==
    CASE score >= logistic_pd.p5500 -> "D"
      [] score < logistic_pd.p3 -> "AAA"
      [] score >= logistic_pd.p3 /\ score < logistic_pd.p10 -> "AA"
      [] score >= logistic_pd.p10 /\ score < logistic_pd.p30 -> "A"
      [] score >= logistic_pd.p30 /\ score < logistic_pd.p100 -> "BBB"
      [] score >= logistic_pd.p100 /\ score < logistic_pd.p300 -> "BB"
      [] score >= logistic_pd.p300 /\ score < logistic_pd.p700 -> "B"
      [] score >= logistic_pd.p700 /\ score < logistic_pd.p1500 -> "CCC"
      [] score >= logistic_pd.p1500 /\ score < logistic_pd.p3000 -> "CC"
      [] OTHER -> "C"

_pd_to_grade(score) ==
    IF score < logistic_pd.p300 THEN "GREEN" ELSE IF score < logistic_pd.p1000 THEN "YELLOW"
    ELSE IF score < logistic_pd.p2500 THEN "ORANGE" ELSE IF score < logistic_pd.p5500 THEN "RED" ELSE "BLACK"

calibrate(score, veto) ==
    [grade |-> IF veto # None THEN "BLACK" ELSE _pd_to_grade(score),
     scale |-> IF veto # None THEN "D" ELSE master_scale_from_pd(score)]

-----------------------------------------------------------------------------
(* Reason codes: magnitude and origin, at most eight, the largest first.   *)
_SEV_MAGNITUDE(severity) == CASE severity = "high" -> 3 [] severity = "mid" -> 2 [] OTHER -> 1

build_reason_codes(hits, distress, drivers) ==
    LET scoring == SelectSeq(hits, LAMBDA h : h.scores)
        rules   == [i \in DOMAIN scoring |-> [code |-> scoring[i].id, magnitude |-> _SEV_MAGNITUDE(scoring[i].severity)]]
        models  == IF distress.zone = "distress" THEN <<[code |-> "DISTRESS_ALTMAN", magnitude |-> 3]>> ELSE <<>>
        behaves == [i \in 1..Cardinality(drivers) |-> [code |-> SetToSeq(drivers)[i], magnitude |-> 2]]
        codes   == rules \o models \o behaves
        ranked  == SelectSeq(codes, LAMBDA c : c.magnitude = 3) \o SelectSeq(codes, LAMBDA c : c.magnitude = 2)
                       \o SelectSeq(codes, LAMBDA c : c.magnitude = 1)
    IN  SubSeq(ranked, 1, Min({8, Len(ranked)}))

-----------------------------------------------------------------------------
(* Fusion: a layer that is clearly worse than the rules raises the score.  *)
BLEND_WEIGHTS == [distress |-> 30, behavioral |-> 20]
UPLIFT_MIN_DELTA == 1000

severity_from_pd(pd) == IF pd = None THEN None ELSE LogOddsSeverity(pd)

Used(rule_score, layers) ==
    {l \in DOMAIN layers : layers[l] # None /\ layers[l] - rule_score >= UPLIFT_MIN_DELTA}

Uplift(rule_score, layers) ==
    SumFunction([l \in Used(rule_score, layers) |-> BLEND_WEIGHTS[l] * (layers[l] - rule_score)])

blend_severity(rule_score, layers) ==
    Min({10000, Max({0, RoundDiv(100 * rule_score + Uplift(rule_score, layers), 100)})})

\* The layers beside the rules; the behavioural one only with half of its dimensions on file.
Layers(metrics, events) ==
    [distress   |-> severity_from_pd(compute_distress(metrics).pd),
     behavioral |-> IF 2 * compute_behavioral(events).known >= Cardinality(DOMAIN BEHAVIORAL_DIMS)
                    THEN compute_behavioral(events).composite ELSE None]

\* mutant: the grade is recomputed from the score alone
enrich_risk_forgetful(risk, metrics, events, hits) ==
    LET distress == compute_distress(metrics)
        combined == blend_severity(risk.score, [distress |-> severity_from_pd(distress.pd)])
    IN  Extend([risk EXCEPT !.score = combined, !.grade = IF risk.enough THEN _grade(combined, FALSE) ELSE "UNRATED"],
               [calibrated |-> calibrate(combined, risk.veto), reasons |-> build_reason_codes(hits, distress, {})])

enrich_risk(risk, metrics, events, hits) ==
    LET combined == blend_severity(risk.score, Layers(metrics, events))
        vetoed   == risk.veto # None
    IN  [score      |-> combined,
         veto       |-> risk.veto,
         enough     |-> risk.enough,
         completeness |-> risk.completeness,
         grade      |-> IF ~vetoed /\ ~risk.enough THEN "UNRATED" ELSE _grade(combined, vetoed),
         dimensions |-> risk.dimensions,
         headline   |-> risk.headline,
         calibrated |-> calibrate(combined, risk.veto),
         reasons    |-> build_reason_codes(hits, compute_distress(metrics), Drivers(events))]
=============================================================================
