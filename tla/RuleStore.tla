----------------------------- MODULE RuleStore ------------------------------
(***************************************************************************)
(* The rules an operator writes in plain language: the compiler            *)
(* (rules/nl_compiler.py), the file and the table a rule is kept in        *)
(* (rules/store.py) and the handlers /v1/rules/from-nl and                 *)
(* /v1/rules/{id}/activate. A save reads the file, writes it back and then *)
(* the table; nothing locks the file.                                      *)
(*                                                                         *)
(* A sentence is what the compiler looks for in it: the metric, the word   *)
(* that compares, the number (hundredths), a percent sign, a word for the  *)
(* severity.                                                               *)
(***************************************************************************)
EXTENDS Naturals, FiniteSets

CONSTANTS
    Sentences,      \* what operators may write
    LlmDrafts,      \* sentence -> the JSON objects a model may answer with, or NoDraft
    NoDraft,
    Hash(_, _),     \* the id made of a text with its condition, and a salt
    SeedIds,        \* rules of the file under version control
    PilotSeeds,     \* those of them that wait for an activation
    Editors,        \* threads that handle rule requests
    MaxEpoch        \* bound on the restarts of the process

VARIABLES
    ruleFile,       \* custom_pilot.yaml: id -> rule
    ruleTable,      \* table rules: id -> rule
    epoch,          \* restarts so far: hash() is salted anew in each process
    saved,          \* ids of the rules a request was told are stored
    confirmed,      \* ids somebody asked to activate
    editors         \* the request of each thread, between two steps

ruleVars == <<ruleFile, ruleTable, epoch, saved, confirmed, editors>>

-----------------------------------------------------------------------------
(* The compiler *)

Multiples == {"current ratio", "quick ratio", "interest cover", "guarantee depth"}
Whitelist == Multiples \cup {"goodwill share", "debt ratio", "pledge ratio", "customer share"}

\* _OP_MAP, tried in this order; a word of severity may hide in the comparison.
Comparison ==
    [at_least |-> ">=", at_most |-> "<=", above |-> ">", below |-> "<"]
HidesHigh == {"at_most"}
HidesLow == {"below", "at_least"}

\* A number above one of a metric that is a share is read as a percentage; the
\* percent sign itself is not looked at.
Fraction(metric, number) ==
    IF metric \notin Multiples /\ number > 100 THEN number \div 100 ELSE number

Severity(s) ==
    IF s.severity = "high" \/ s.word \in HidesHigh THEN "high"
    ELSE IF s.severity = "low" \/ s.word \in HidesLow THEN "low" ELSE "mid"

DimensionOf(metric) ==
    IF metric = "customer share" THEN "operating"
    ELSE IF metric \in {"pledge ratio", "guarantee depth"} THEN "related" ELSE "financial"

\* mutant
_finalize_rule_active(s, metric, op, value, severity, dimension) ==
    [id |-> Hash(<<s, metric, op, value>>, epoch), nl_text |-> s, metric |-> metric, op |-> op, value |-> value,
     severity |-> severity, dimension |-> dimension, status |-> "active", scores |-> TRUE]

\* The id is a hash of the text and the condition, salted by the process and
\* cut to seven digits: two texts may share it.
_finalize_rule(s, metric, op, value, severity, dimension) ==
    [id |-> Hash(<<s, metric, op, value>>, epoch), nl_text |-> s, metric |-> metric, op |-> op, value |-> value,
     severity |-> severity, dimension |-> dimension, status |-> "pilot", scores |-> FALSE]

_compile_regex(s) ==
    IF s.metric \notin Whitelist \/ s.word \notin DOMAIN Comparison \/ s.number = NoDraft THEN NoDraft
    ELSE _finalize_rule(s, s.metric, Comparison[s.word], Fraction(s.metric, s.number), Severity(s), DimensionOf(s.metric))

_validate_llm_rule(draft, s) ==
    IF draft.metric \notin Whitelist \/ draft.op \notin {">", ">=", "<", "<=", "=="} \/ draft.value = NoDraft THEN NoDraft
    ELSE _finalize_rule(s, draft.metric, draft.op, Fraction(draft.metric, draft.value),
                        IF draft.severity \in {"high", "mid", "low"} THEN draft.severity ELSE "mid",
                        IF draft.dimension \in {"financial", "operating", "industry", "sentiment", "related"}
                        THEN draft.dimension ELSE "financial")

\* The model first, where there is one; the patterns when it has no legal rule.
compile_rule_from_nl(s) ==
    {IF draft # NoDraft /\ _validate_llm_rule(draft, s) # NoDraft
     THEN _validate_llm_rule(draft, s) ELSE _compile_regex(s) : draft \in LlmDrafts[s]}

-----------------------------------------------------------------------------
(* The store *)

Seed(id) == [id |-> id, nl_text |-> NoDraft, metric |-> "debt ratio", op |-> ">", value |-> 70, severity |-> "mid",
             dimension |-> "financial", status |-> IF id \in PilotSeeds THEN "pilot" ELSE "active",
             scores |-> id \notin PilotSeeds]

\* The files (rules/engine.py).
load_rules == {<<"custom", id>> : id \in DOMAIN ruleFile} \cup {<<"seed", id>> : id \in SeedIds}

\* What an activation and GET /v1/rules load: the files in the order of their
\* names, then the rows whose id no file has.
load_all_rules ==
    load_rules \cup {<<"table", id>> : id \in DOMAIN ruleTable \ (DOMAIN ruleFile \cup SeedIds)}

\* What an analysis loads: without the rows when the table, or a row of it,
\* cannot be read. Nobody is told.
RuleEngine(readable) == IF readable THEN load_all_rules ELSE load_rules

Stored(entry) ==
    CASE entry[1] = "custom" -> ruleFile[entry[2]]
      [] entry[1] = "seed" -> Seed(entry[2])
      [] entry[1] = "table" -> ruleTable[entry[2]]

\* The first of the loaded rules with an id.
FirstLoaded(id) ==
    IF id \in DOMAIN ruleFile THEN ruleFile[id] ELSE IF id \in SeedIds THEN Seed(id) ELSE ruleTable[id]

Waiting == [op |-> "none"]
Put(f, rule) == [id \in DOMAIN f \cup {rule.id} |-> IF id = rule.id THEN rule ELSE f[id]]
Turn(e, state) == editors' = [editors EXCEPT ![e] = state]

RuleStoreInit ==
    /\ ruleFile = [id \in {} |-> 0] /\ ruleTable = [id \in {} |-> 0]
    /\ epoch = 0 /\ saved = {} /\ confirmed = {}
    /\ editors = [e \in Editors |-> Waiting]

\* POST /v1/rules/from-nl: compile, and go on to save. A sentence without a
\* legal rule is refused.
RulesFromNl(e) ==
    /\ editors[e] = Waiting
    /\ \E s \in Sentences, activate \in BOOLEAN :
         \E rule \in compile_rule_from_nl(s) :
            /\ rule # NoDraft
            /\ Turn(e, [op |-> "read", rule |-> rule, activate |-> activate])
    /\ UNCHANGED <<ruleFile, ruleTable, epoch, saved, confirmed>>

\* POST /v1/rules/{id}/activate with confirm: what is loaded, made active.
RulesActivate(e) ==
    /\ editors[e] = Waiting
    /\ \E entry \in load_all_rules :
         /\ Turn(e, [op |-> "read", activate |-> FALSE,
                     rule |-> [FirstLoaded(entry[2]) EXCEPT !.status = "active", !.scores = TRUE]])
         /\ confirmed' = confirmed \cup {entry[2]}
    /\ UNCHANGED <<ruleFile, ruleTable, epoch, saved>>

\* save_pilot_rule: the file as it is read ...
ReadRuleFile(e) ==
    /\ editors[e].op = "read"
    /\ Turn(e, [op |-> "write", rule |-> editors[e].rule, activate |-> editors[e].activate, file |-> ruleFile])
    /\ UNCHANGED <<ruleFile, ruleTable, epoch, saved, confirmed>>

\* ... is what it is written from ...
WriteRuleFile(e) ==
    /\ editors[e].op = "write"
    /\ ruleFile' = Put(editors[e].file, editors[e].rule)
    /\ Turn(e, [op |-> "upsert", rule |-> editors[e].rule, activate |-> editors[e].activate])
    /\ UNCHANGED <<ruleTable, epoch, saved, confirmed>>

\* mutant
UpsertRule_spared(e) ==
    /\ editors[e].op = "upsert"
    /\ ruleTable' = IF editors[e].rule.id \in DOMAIN ruleFile THEN ruleTable ELSE Put(ruleTable, editors[e].rule)
    /\ saved' = saved \cup {editors[e].rule.id}
    /\ Turn(e, Waiting)
    /\ UNCHANGED <<ruleFile, epoch, confirmed>>

\* ... and the row. A request that asked for both goes on to activate.
UpsertRule(e) ==
    /\ editors[e].op = "upsert"
    /\ ruleTable' = Put(ruleTable, editors[e].rule)
    /\ saved' = saved \cup {editors[e].rule.id}
    /\ IF editors[e].activate
       THEN LET id == editors[e].rule.id
                now == IF id \in DOMAIN ruleFile THEN ruleFile[id] ELSE editors[e].rule
            IN  /\ confirmed' = confirmed \cup {id}
                /\ Turn(e, [op |-> "read", activate |-> FALSE, rule |-> [now EXCEPT !.status = "active", !.scores = TRUE]])
       ELSE UNCHANGED confirmed /\ Turn(e, Waiting)
    /\ UNCHANGED <<ruleFile, epoch>>

\* The row cannot be written: the request fails, and the file has the rule.
UpsertFails(e) ==
    /\ editors[e].op = "upsert"
    /\ Turn(e, Waiting)
    /\ UNCHANGED <<ruleFile, ruleTable, epoch, saved, confirmed>>

RestartRules ==
    /\ epoch < MaxEpoch
    /\ epoch' = epoch + 1
    /\ editors' = [e \in Editors |-> Waiting]
    /\ UNCHANGED <<ruleFile, ruleTable, saved, confirmed>>

RuleStoreNext ==
    \/ \E e \in Editors : \/ RulesFromNl(e) \/ RulesActivate(e)
                          \/ ReadRuleFile(e) \/ WriteRuleFile(e)
                          \/ UpsertRule(e) \/ UpsertFails(e)
    \/ RestartRules

RuleStoreSpec == RuleStoreInit /\ [][RuleStoreNext]_ruleVars

-----------------------------------------------------------------------------
(* Properties *)

\* A rule whose save was reported is loaded by every later analysis that can
\* read the table, whatever saves of other rules were under way and whichever
\* of them failed: a concurrent save can drop it from the file, and then its
\* row stands in for it.
SavedRulesLoad ==
    \A id \in saved : \E entry \in RuleEngine(TRUE) : entry[2] = id

\* What a rule costs an applicant starts with a person: a rule that contributes
\* to the scores of an analysis, whether it can read the table or not, is one
\* of the seeds, or somebody asked for its activation.
ScoresOnlyAfterActivation ==
    \A readable \in BOOLEAN : \A entry \in RuleEngine(readable) :
        (Stored(entry).scores /\ Stored(entry).status # "pilot") => entry[2] \in (SeedIds \ PilotSeeds) \cup confirmed

\* The same of every analysis. One that cannot read the table scores without
\* the rules that only the table has.
SavedRulesScore ==
    \A readable \in BOOLEAN : \A id \in saved : \E entry \in RuleEngine(readable) : entry[2] = id

\* An activation that was answered is in force when nothing is under way. A
\* save that had read the file before takes it back.
ActivationsStick ==
    (\A e \in Editors : editors[e] = Waiting) =>
        \A id \in confirmed \cap saved : FirstLoaded(id).status = "active"

\* A sentence has one rule: the same text compiled again replaces it. The salted
\* hash gives it another id in another process.
OneRulePerSentence ==
    \A entry, other \in load_all_rules :
        LET rule == Stored(entry)
            twin == Stored(other)
        IN  (rule.id # twin.id /\ {rule.id, twin.id} \cap SeedIds = {}) =>
                <<rule.nl_text, rule.metric, rule.op, rule.value>> # <<twin.nl_text, twin.metric, twin.op, twin.value>>

\* A save that is reported leaves the rules of other sentences alone. Two ids
\* may be the same seven digits.
SavesKeepOthers ==
    [][\A id \in DOMAIN ruleTable :
          id \in DOMAIN ruleTable' /\ ruleTable'[id].nl_text = ruleTable[id].nl_text]_ruleVars

\* A rule is scored once. A seed that is activated again is copied, and then
\* the file of seeds and the custom file both count.
RulesCountOnce ==
    \A entry, other \in load_all_rules :
        (entry[2] = other[2] /\ Stored(entry).scores /\ Stored(other).scores) => entry = other

\* The prompt and the tests: a share is stored as a fraction (25 % as 0.25).
\* One per cent and less stay as they were written.
PercentsAreFractions ==
    \A entry \in load_all_rules :
        LET rule == Stored(entry)
        IN  (rule.id \notin SeedIds /\ rule.nl_text.percent /\ rule.nl_text.metric \notin Multiples
                /\ rule.metric = rule.nl_text.metric) =>
                rule.value * 100 = rule.nl_text.number

=============================================================================
