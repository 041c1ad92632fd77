----------------------------- MODULE NumberGate -----------------------------
(***************************************************************************)
(* The gate between the model's prose and the computed figures             *)
(* (llm/number_gate.py), and the polishing that uses it (llm/polish.py).   *)
(*                                                                         *)
(* A text is the sequence of the figures it shows: [raw, percent, marked], *)
(* raw in thousandths, marked once "[to be verified]" follows it.  A reply *)
(* of the model is a text, or NoReply when it cannot be had.               *)
(***************************************************************************)
EXTENDS RiskScore

CONSTANTS NoReply

Figure(raw, percent) == [raw |-> raw, percent |-> percent, marked |-> FALSE]

\* Percent becomes a ratio.
extract_number(figure) == IF figure.percent THEN figure.raw \div 100 ELSE figure.raw

Absolute(n) == IF n < 0 THEN -n ELSE n

\* A small number is also shown as a percentage.
WithPercentForm(values) == values \cup {100 * v : v \in {w \in values : Absolute(w) <= 1500}}

CommonIntegers == {1000 * n : n \in 0..5}

\* metrics in hundredths; risk None when no risk is given.
collect_allowed_numbers(metrics, risk, conflicts) ==
    LET figures == {10 * metrics[m] : m \in {n \in DOMAIN metrics : metrics[n] # None}}
    IN  WithPercentForm(figures) \cup CommonIntegers \cup
        IF risk = None THEN {}
        ELSE {10 * risk.score, 10 * risk.completeness, 1000 * risk.completeness, 1000 * conflicts}
               \cup {1000 * risk.dimensions[d] : d \in DOMAIN risk.dimensions}
               \cup UNION {{10 * DIMENSION_WEIGHTS[d], 1000 * DIMENSION_WEIGHTS[d]} : d \in DOMAIN risk.dimensions}

\* Equal up to 0.051, or as a ratio and its percentage, whatever the sign of the percentage.
_close(a, b) ==
    \/ a = b
    \/ Absolute(a) <= 1500 /\ Absolute(100 * Absolute(a) - Absolute(b)) < 51
    \/ Absolute(b) <= 1500 /\ Absolute(100 * Absolute(b) - Absolute(a)) < 51
    \/ Absolute(a - b) < 51

Permitted(figure, allowed) == \E a \in allowed : _close(extract_number(figure), a)

Offenders(text, allowed) == {i \in DOMAIN text : ~Permitted(text[i], allowed)}

number_gate(text, allowed) == Offenders(text, allowed) = {}

\* mutant: unknown figures are kept as they are
gate_or_fallback_unmarked(text, fallback, allowed) ==
    IF text # <<>> /\ Cardinality(Offenders(text, allowed)) <= 2 THEN [text |-> text, accepted |-> TRUE]
    ELSE [text |-> fallback, accepted |-> FALSE]

\* At most two unknown figures are marked and kept; more, and the template stands.
gate_or_fallback(text, fallback, allowed) ==
    CASE text = <<>> -> [text |-> fallback, accepted |-> FALSE]
      [] text # <<>> /\ Cardinality(Offenders(text, allowed)) <= 2 ->
            [text |-> [i \in DOMAIN text |-> [text[i] EXCEPT !.marked = i \in Offenders(text, allowed)]],
             accepted |-> TRUE]
      [] OTHER -> [text |-> fallback, accepted |-> FALSE]

-----------------------------------------------------------------------------
Template(base) == [text |-> base, polished |-> FALSE, llm_used |-> FALSE, gate_ok |-> TRUE]

polish_narrative(reply, base, allowed) ==
    IF reply = NoReply THEN Template(base)
    ELSE LET gate == gate_or_fallback(reply, base, allowed)
         IN  [text |-> gate.text, polished |-> gate.accepted /\ gate.text # base,
              llm_used |-> TRUE, gate_ok |-> gate.accepted]

polish_headline(reply, headline, metrics, risk, conflicts) ==
    polish_narrative(reply, headline, collect_allowed_numbers(metrics, risk, conflicts))

\* The template of a dimension's narrative: its score and how many rules hit it.
AttributionText(dimension) ==
    <<Figure(1000 * dimension.score, FALSE), Figure(1000 * Cardinality(dimension.hits), FALSE)>>

explain_attribution_dim(reply, dimension, metrics, risk, conflicts) ==
    LET fallback == AttributionText(dimension)
        polished == polish_narrative(reply, fallback, collect_allowed_numbers(metrics, risk, conflicts))
    IN  IF polished.gate_ok THEN polished.text ELSE fallback

FiguresOf(text) == {extract_number(text[i]) : i \in DOMAIN text}

\* The template of a background check quotes the register, or else the score
\* and the headline of the analysis, where there is one.
BackgroundText(register, risk) ==
    CASE register # None -> register
      [] register = None /\ risk # None -> <<Figure(10 * risk.score, FALSE), Figure(10 * risk.score, FALSE)>>
      [] OTHER -> <<>>

\* A reply of a background check; what the register says is allowed besides.
background_reply(reply, register, metrics, risk, conflicts) ==
    LET fallback == BackgroundText(register, risk)
        extra == IF register = None THEN {} ELSE FiguresOf(register)
        gate == gate_or_fallback(reply, fallback, collect_allowed_numbers(metrics, risk, conflicts) \cup extra)
    IN  IF reply = NoReply THEN [answer |-> fallback, llm_used |-> FALSE, gate_ok |-> TRUE]
        ELSE [answer |-> gate.text, llm_used |-> TRUE, gate_ok |-> gate.accepted]

\* What a reader may take at face value.
Unmarked(text) == {i \in DOMAIN text : ~text[i].marked}
=============================================================================
