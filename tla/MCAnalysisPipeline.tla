------------------------ MODULE MCAnalysisPipeline --------------------------
(***************************************************************************)
(* Instances of AnalysisPipeline for TLC: a rule base and its next state,  *)
(* files that are complete, thin, indebted or distressed, events of every  *)
(* kind, and a few requests with a model at hand.                          *)
(***************************************************************************)
EXTENDS AnalysisPipeline

MCBucket == [company |-> [R1 |-> 10, R2 |-> 10, R3 |-> 10, R4 |-> 10, R5 |-> 90, R6 |-> 10, R7 |-> 10, R1011 |-> 10],
             risky   |-> [R1 |-> 10, R2 |-> 10, R3 |-> 10, R4 |-> 10, R5 |-> 20, R6 |-> 10, R7 |-> 10, R1011 |-> 10],
             healthy |-> [R1 |-> 10, R2 |-> 10, R3 |-> 10, R4 |-> 10, R5 |-> 20, R6 |-> 10, R7 |-> 10, R1011 |-> 10]]

\* severity_from_pd of the probabilities that occur, hundredths.
MCLogOddsSeverity(pd) ==
    CASE pd = 500 -> 3445 [] pd = 2500 -> 5050 [] pd = 6500 -> 6543 [] pd = 9500 -> 8565 [] OTHER -> 2010

MCOhlsonPd(m) == IF m["ni"] < 0 THEN 9500 ELSE 100

Threshold(metric, op, value) == [type |-> "threshold", metric |-> metric, op |-> op, value |-> value]
Event(event) == [type |-> "event", event |-> event]
Rule(id, status, canary, dimension, severity, cond) ==
    [id |-> id, status |-> status, canary |-> canary, contribute |-> TRUE,
     dimension |-> dimension, severity |-> severity, cond |-> cond]

R(r5, r6) ==
    <<Rule("R1", "active", 100, "financial", "mid", Threshold("debt ratio", ">", 70)),
      Rule("R2", "active", 100, "financial", "high", Threshold("interest cover", "<", 150)),
      Rule("R3", "active", 100, "related", "high", [type |-> "composite", all |-> <<Threshold("guarantee ratio", ">=", 50), Threshold("pledge ratio", ">", 40)>>]),
      Rule("R4", "active", 100, "sentiment", "mid", Event("lawsuit")),
      Rule("R5", "active", r5, "operating", "high", Threshold("cash to profit", "<=", 20)),
      Rule("R6", r6, 100, "industry", "low", Threshold("gross margin", "<", 10)),
      Rule("R7", "active", 100, "financial", "high", Threshold("current ratio", "<", 100)),
      Rule("R1011", "active", 100, "financial", "low", Threshold("loss years", "==", 2))>>
MCRuleBases == {R(100, "pilot"), R(50, "active")}

MCRuleDocs == {[kind |-> "rules", ids |-> {"R1", "R2", "R3", "R4", "R5", "R6", "R7", "R1011"}]}
MCStoredGraphs ==
    [risky |-> [nodes |-> {Node(0, "self", "subject"), Node(1, "normal", "guarantor"), Node(2, "warn", "guarantor"),
                           Node(3, "warn", "guarantor"), NamedExecuted(Node(4, "high", "guarantor"))},
                edges |-> {<<i, i + 1>> : i \in 0..3}]]
MCBenchmarkTable == [default |-> [m \in {"debt ratio"} |-> [above |-> 75, below |-> None]],
                     retail  |-> [m \in {"debt ratio", "current ratio"} |->
                                    IF m = "debt ratio" THEN [above |-> 65, below |-> None] ELSE [above |-> None, below |-> 100]]]
MCResembles(industry, name) == <<industry, name>> = <<"retail trade", "retail">>
MCKeywords == [c \in {"manufacturing", "tech", "retail", "finance", "services"} |-> IF c = "retail" THEN {"retail trade"} ELSE {}]

-----------------------------------------------------------------------------
Healthy == [m \in CORE_METRICS |->
    CASE m = "debt ratio" -> 50 [] m = "interest cover" -> 400 [] m = "cash to profit" -> 80
      [] m = "guarantee ratio" -> 0 [] m = "pledge ratio" -> 10 [] OTHER -> 150]
BalanceSheet(ebit, ni) ==
    [m \in {"wc", "ta", "re", "ebit", "equity", "tl", "ca", "cl", "ni"} |->
        CASE m = "ebit" -> ebit [] m = "ni" -> ni [] m \in {"ta", "tl"} -> 100 [] m \in {"ca", "cl"} -> 50 [] m = "equity" -> 20 [] OTHER -> 0]
Metrics ==
    {Healthy,
     [Healthy EXCEPT !["debt ratio"] = 80],
     [Healthy EXCEPT !["debt ratio"] = 68, !["cash to profit"] = 30],
     [Healthy EXCEPT !["interest cover"] = 100, !["debt ratio"] = 80],
     [Healthy EXCEPT !["interest cover"] = 100, !["debt ratio"] = 90, !["current ratio"] = 80,
              !["cash to profit"] = 10, !["guarantee ratio"] = 60, !["pledge ratio"] = 50],
     [Healthy EXCEPT !["interest cover"] = None],
     [Healthy EXCEPT !["guarantee ratio"] = 20] @@ [m \in {"guarantee depth"} |-> 1],
     Healthy @@ [m \in {"guarantee depth"} |-> 3],
     Healthy @@ BalanceSheet(20, 5),
     [m \in {"interest cover", "debt ratio", "cash to profit"} |-> IF m = "cash to profit" THEN 10 ELSE 100] @@ Healthy @@ BalanceSheet(20, 5),
     [m \in {"interest cover"} |-> 100] @@ Healthy @@ BalanceSheet(-30, -5),
     Healthy @@ [m \in {"z value", "loss years", "gross margin"} |-> CASE m = "z value" -> 90 [] m = "loss years" -> 2 [] OTHER -> 5],
     [m \in CORE_METRICS \ {"guarantee ratio"} |-> Healthy[m]],
     [m \in CORE_METRICS \ {"ROE", "quick ratio", "current ratio", "pledge ratio"} |-> IF m = "debt ratio" THEN 80 ELSE Healthy[m]],
     [m \in {"debt ratio", "ROE", "interest cover"} |-> IF m = "interest cover" THEN 100 ELSE 80],
     BalanceSheet(-30, 5),
     <<>>}
Events ==
    {<<>>, [e \in {"lawsuit"} |-> 1], [e \in {"dishonest"} |-> 1], [e \in {"dishonest", "bankruptcy"} |-> IF e = "bankruptcy" THEN 1 ELSE 0],
     [e \in {"bankruptcy"} |-> 1], [e \in {"losses"} |-> 1],
     [e \in {"executed", "judgments", "penalties"} |-> IF e = "executed" THEN 2 ELSE 1],
     [e \in {"judgments", "irregularities", "freezes"} |-> IF e = "freezes" THEN 3 ELSE 0]}

Request(fixture, metrics, alt, events, llm) ==
    [fixture |-> fixture, known |-> TRUE, metrics |-> metrics, alt |-> alt, estimated |-> FALSE, events |-> events,
     industry |-> "retail trade", documents |-> llm, applied |-> 1000, skip_polish |-> ~llm, include_stress |-> TRUE, include_kg |-> TRUE, llm |-> llm]

Other(value) == {[name |-> "debt ratio", value |-> value, source |-> "alt"]}

Leveraged == [Healthy EXCEPT !["debt ratio"] = 80]

\* Every file with every kind of event; the fixtures and a second source; documents to search;
\* a model at hand, for the texts of the analysis and for the answers of the search.
MCRequests ==
    {Request(None, m, {}, e, FALSE) : m \in Metrics, e \in Events}
      \cup {Request(f, m, a, e, FALSE) : f \in {"risky", "healthy"}, m \in {Healthy, Leveraged, [Healthy EXCEPT !["debt ratio"] = None]},
                                         a \in {{}, Other(55)}, e \in {<<>>, [e \in {"dishonest"} |-> 1]}}
      \cup {[Request(None, Healthy, {}, <<>>, FALSE) EXCEPT !.known = FALSE]}
      \cup {[Request("risky", Leveraged, Other(55), e, FALSE) EXCEPT !.documents = TRUE, !.industry = i]
               : e \in {<<>>, [e \in {"dishonest"} |-> 1]}, i \in {"retail trade", None}}
      \cup {[Request("healthy", Leveraged, {}, <<>>, TRUE) EXCEPT !.include_stress = FALSE, !.include_kg = FALSE,
                                                                  !.estimated = TRUE, !.applied = 0, !.known = FALSE,
                                                                  !.documents = d, !.skip_polish = d] : d \in BOOLEAN}

\* A file on the brink: its behaviour is worse than its rules by a little more than the
\* threshold, and one more hit makes it a little less.
MCBrinkRules ==
    {<<Rule("B1", "active", 100, "financial", "high", Event("lawsuit")),
       Rule("B2", "active", 100, "financial", "mid", Event("lawsuit")),
       Rule("B3", "active", 100, "financial", "mid", Event("lawsuit")),
       Rule("B4", "active", 100, "operating", "low", Event("lawsuit")),
       Rule("B5", "active", 100, "sentiment", "mid", Event("lawsuit")),
       Rule("B6", "active", 100, "related", "mid", Event("lawsuit"))>>}
MCBrink ==
    {Request(None, Healthy, {}, [e \in {"lawsuit", "executed", "judgments", "irregularities"} |-> IF e = "judgments" THEN 2 ELSE 1], FALSE)}

MCReplies == {<<Figure(80000, TRUE), Figure(77000, FALSE), Figure(-78000, TRUE)>>,
              <<Figure(61000, FALSE), Figure(62000, FALSE), Figure(63000, FALSE)>>}
MCRefinements == {None, [category |-> "tech", focus |-> <<"financial">>, label |-> <<Figure(95000, FALSE)>>]}
MCRagAnswers == {None, [citations |-> {}, llm_used |-> FALSE, opening |-> <<>>],
                 [citations |-> {"chunk"}, llm_used |-> TRUE, opening |-> <<Figure(45500, FALSE)>>],
                 [citations |-> {"chunk"}, llm_used |-> FALSE, opening |-> <<Figure(88000, TRUE)>>]}
=============================================================================
