---------------------------- MODULE RuleMatching ----------------------------
(***************************************************************************)
(* The rule engine, packages/bizatlas/rules/engine.py: which rules hit the *)
(* metrics and events of a company.                                        *)
(*                                                                         *)
(* metrics   a function from the names on file to their values, integers   *)
(*           (percent for ratios), None for a row without a value;         *)
(* events    a function from the event keys on file to their counts;       *)
(* a rule    [id, status, canary, contribute, dimension, severity, cond],  *)
(*           canary in percent, cond one of                                *)
(*             [type |-> "threshold", metric, op, value]                   *)
(*             [type |-> "event", event]                                   *)
(*             [type |-> "composite", all |-> <<conditions>>].             *)
(***************************************************************************)
EXTENDS Integers, Sequences, SequencesExt

CONSTANTS
    None,       \* Python's None
    Bucket      \* Bucket[key][id]: the percentile the hash of "key:id" falls in

\* The entries of both, of f where both have one: f @@ g, which the provers cannot unfold.
Extend(f, g) == [x \in DOMAIN f \cup DOMAIN g |-> IF x \in DOMAIN f THEN f[x] ELSE g[x]]

_get_metric(metrics, name) == IF name \in DOMAIN metrics THEN metrics[name] ELSE None

\* Python's truth of events.get(flag): absent, False and 0 are all false.
Truthy(events, flag) == flag \in DOMAIN events /\ events[flag] > 0

_eval_threshold(cond, metrics) ==
    LET actual == _get_metric(metrics, cond.metric) IN
    /\ actual # None
    /\ \/ cond.op = "<"  /\ actual < cond.value
       \/ cond.op = "<=" /\ actual <= cond.value
       \/ cond.op = ">"  /\ actual > cond.value
       \/ cond.op = ">=" /\ actual >= cond.value
       \/ cond.op = "==" /\ actual = cond.value

_eval_event(cond, events) == Truthy(events, cond.event)

\* The gate of a gradual release: a stable share of the companies.
_canary_pass(rule, key) ==
    \/ rule.canary >= 100
    \/ key = None
    \/ Bucket[key][rule.id] < rule.canary

EvalPart(cond, metrics, events) ==
    IF cond.type = "event" THEN _eval_event(cond, events) ELSE _eval_threshold(cond, metrics)

Matched(cond, metrics, events) ==
    CASE cond.type \in {"threshold", "event"} -> EvalPart(cond, metrics, events)
      [] cond.type = "composite" ->
            cond.all # <<>> /\ \A i \in DOMAIN cond.all : EvalPart(cond.all[i], metrics, events)
      [] OTHER -> FALSE

\* A pilot rule hits but does not score.
RuleHit(rule) == [id |-> rule.id, dimension |-> rule.dimension, severity |-> rule.severity,
                  scores |-> rule.status # "pilot" /\ rule.contribute]

Applies(rule, metrics, events, key) ==
    /\ rule.status # "disabled"
    /\ _canary_pass(rule, key)
    /\ Matched(rule.cond, metrics, events)

match(rules, metrics, events, key) ==
    LET hits[n \in 0..Len(rules)] ==
            IF n = 0 THEN <<>>
            ELSE IF Applies(rules[n], metrics, events, key) THEN Append(hits[n - 1], RuleHit(rules[n]))
            ELSE hits[n - 1]
    IN  hits[Len(rules)]
=============================================================================
