--------------------------- MODULE ServicesProofs ---------------------------
(***************************************************************************)
(* Theorems about four services of the API process: the store of rules,    *)
(* the model providers of users, the records an analysis leaves behind,    *)
(* and the questions about uploaded files.  Each is proved of its own      *)
(* specification, for any number of threads, rows, sentences, keys,        *)
(* companies and questions.                                                *)
(***************************************************************************)
EXTENDS RuleStore, ModelProviders, RecordStore, ChatDocs, FiniteSetTheorems, SequenceTheorems, TLAPS

-----------------------------------------------------------------------------
(* The store of rules: a rule that was saved is loaded, and none scores    *)
(* before somebody asked, for any sentences, models, seeds, threads and    *)
(* restarts, and any hash, ids that collide included.                      *)

RuleFields == {"id", "nl_text", "metric", "op", "value", "severity", "dimension", "status", "scores"}
IsRule(r) == r = [field \in RuleFields |-> r[field]]

Scoring(r) == r.scores = TRUE /\ r.status # "pilot"

\* A rule that scores is a seed, or its activation is among those asked for.
Earned(r, asked) ==
    /\ IsRule(r) /\ r.scores \in BOOLEAN
    /\ Scoring(r) => r.id \in (SeedIds \ PilotSeeds) \cup asked

\* So is every rule of a file or table, under its id.
AllEarned(f, asked) ==
    /\ f = [id \in DOMAIN f |-> f[id]]
    /\ \A id \in DOMAIN f : f[id].id = id /\ Earned(f[id], asked)

\* What an editor holds between two steps.
Holds(state, asked) ==
    /\ state.op \in {"read", "write", "upsert"} => Earned(state.rule, asked)
    /\ state.op = "write" => AllEarned(state.file, asked)

\* A copy of the file that an editor holds may have lost rules, and none of
\* its rules scores without leave; the table never loses a row.
RuleInv ==
    /\ AllEarned(ruleFile, confirmed)
    /\ AllEarned(ruleTable, confirmed)
    /\ editors = [e \in Editors |-> editors[e]]
    /\ \A e \in Editors : Holds(editors[e], confirmed)
    /\ saved \subseteq DOMAIN ruleTable

-----------------------------------------------------------------------------
\* What the compiler makes is a pilot rule that does not score.
LEMMA CompiledIsPilot ==
    ASSUME NEW s, NEW rule \in compile_rule_from_nl(s), rule # NoDraft
    PROVE  IsRule(rule) /\ rule.status = "pilot" /\ rule.scores = FALSE
<1>1. ASSUME NEW metric, NEW op, NEW value, NEW severity, NEW dimension,
             rule = _finalize_rule(s, metric, op, value, severity, dimension)
      PROVE  IsRule(rule) /\ rule.status = "pilot" /\ rule.scores = FALSE
  BY <1>1 DEF _finalize_rule, IsRule, RuleFields
<1>2. CASE rule = _compile_regex(s)
  BY <1>1, <1>2 DEF _compile_regex
<1>3. ASSUME NEW draft, rule = _validate_llm_rule(draft, s)
      PROVE  IsRule(rule) /\ rule.status = "pilot" /\ rule.scores = FALSE
  BY <1>1, <1>3 DEF _validate_llm_rule
<1> QED BY <1>2, <1>3 DEF compile_rule_from_nl

\* An activated rule is as it was but for its status.
LEMMA ActivatedIsRule ==
    ASSUME NEW r, IsRule(r)
    PROVE  LET now == [r EXCEPT !.status = "active", !.scores = TRUE]
           IN  IsRule(now) /\ now.id = r.id /\ now.scores = TRUE
BY DEF IsRule, RuleFields

\* A seed is a rule under its id, and scores only if it does not wait.
LEMMA SeedIsEarned == ASSUME NEW id \in SeedIds PROVE Earned(Seed(id), {}) /\ Seed(id).id = id
BY DEF Seed, Earned, IsRule, RuleFields, Scoring

\* Confirmations are never taken back.
LEMMA EarnedStays ==
    ASSUME NEW r, NEW asked, NEW more, asked \subseteq more, Earned(r, asked)
    PROVE  Earned(r, more)
BY DEF Earned

LEMMA AllEarnedStays ==
    ASSUME NEW f, NEW asked, NEW more, asked \subseteq more, AllEarned(f, asked)
    PROVE  AllEarned(f, more)
BY EarnedStays DEF AllEarned

LEMMA HoldsStays ==
    ASSUME NEW state, NEW asked, NEW more, asked \subseteq more, Holds(state, asked)
    PROVE  Holds(state, more)
BY EarnedStays, AllEarnedStays DEF Holds

\* Putting an earned rule under its id leaves all rules earned.
LEMMA PutKeepsEarned ==
    ASSUME NEW f, NEW r, NEW asked, AllEarned(f, asked), Earned(r, asked)
    PROVE  AllEarned(Put(f, r), asked) /\ DOMAIN Put(f, r) = DOMAIN f \cup {r.id}
BY DEF AllEarned, Put

\* The step of one editor.
LEMMA OthersHold ==
    ASSUME RuleInv, NEW e \in Editors, NEW state, Turn(e, state), Holds(state, confirmed'), confirmed \subseteq confirmed'
    PROVE  editors' = [x \in Editors |-> editors'[x]] /\ \A x \in Editors : Holds(editors'[x], confirmed')
<1>1. editors' = [editors EXCEPT ![e] = state]
  BY DEF Turn
<1>2. ASSUME NEW x \in Editors PROVE Holds(editors'[x], confirmed')
  <2>1. CASE x = e
    <3>1. editors'[x] = state
      BY <1>1, <2>1 DEF RuleInv
    <3> QED BY <3>1 DEF Holds
  <2>2. CASE x # e
    <3>1. editors'[x] = editors[x]
      BY <1>1, <2>2 DEF RuleInv
    <3> QED BY <3>1, HoldsStays DEF RuleInv, Holds
  <2> QED BY <2>1, <2>2
<1> QED BY <1>1, <1>2 DEF RuleInv

-----------------------------------------------------------------------------
LEMMA RuleInitInv == RuleStoreInit => RuleInv
BY DEF RuleStoreInit, RuleInv, AllEarned, Holds, Waiting

LEMMA RuleNextInv == RuleInv /\ [RuleStoreNext]_ruleVars => RuleInv'
<1> SUFFICES ASSUME RuleInv, [RuleStoreNext]_ruleVars PROVE RuleInv'
  OBVIOUS
<1>1. ASSUME NEW e \in Editors, RulesFromNl(e) PROVE RuleInv'
  <2>1. PICK s \in Sentences, activate \in BOOLEAN : \E rule \in compile_rule_from_nl(s) :
            rule # NoDraft /\ Turn(e, [op |-> "read", rule |-> rule, activate |-> activate])
    BY <1>1 DEF RulesFromNl
  <2>2. PICK rule \in compile_rule_from_nl(s) :
            rule # NoDraft /\ Turn(e, [op |-> "read", rule |-> rule, activate |-> activate])
    BY <2>1
  <2>3. UNCHANGED <<ruleFile, ruleTable, epoch, saved, confirmed>>
    BY <1>1 DEF RulesFromNl
  <2>4. Earned(rule, confirmed')
    BY <2>2, CompiledIsPilot DEF Earned, Scoring
  <2>5. Holds([op |-> "read", rule |-> rule, activate |-> activate], confirmed')
    BY <2>4 DEF Holds
  <2>6. editors' = [x \in Editors |-> editors'[x]] /\ \A x \in Editors : Holds(editors'[x], confirmed')
    BY <2>2, <2>3, <2>5, OthersHold
  <2>7. AllEarned(ruleFile', confirmed') /\ AllEarned(ruleTable', confirmed')
    BY <2>3 DEF RuleInv, AllEarned, Earned
  <2> QED BY <2>3, <2>6, <2>7 DEF RuleInv
<1>2. ASSUME NEW e \in Editors, RulesActivate(e) PROVE RuleInv'
  <2>1. PICK entry \in load_all_rules :
          /\ Turn(e, [op |-> "read", activate |-> FALSE,
                      rule |-> [FirstLoaded(entry[2]) EXCEPT !.status = "active", !.scores = TRUE]])
          /\ confirmed' = confirmed \cup {entry[2]}
    BY <1>2 DEF RulesActivate
  <2> DEFINE id == entry[2]
             now == [FirstLoaded(id) EXCEPT !.status = "active", !.scores = TRUE]
             state == [op |-> "read", activate |-> FALSE, rule |-> now]
  <2>2. UNCHANGED <<ruleFile, ruleTable, epoch, saved>>
    BY <1>2 DEF RulesActivate
  <2>3. id \in DOMAIN ruleFile \cup SeedIds \cup DOMAIN ruleTable
    BY DEF load_all_rules, load_rules
  <2>4. IsRule(FirstLoaded(id)) /\ FirstLoaded(id).id = id
    BY <2>3, SeedIsEarned DEF FirstLoaded, RuleInv, AllEarned, Earned
  <2>5. IsRule(now) /\ now.id = id /\ now.scores = TRUE
    BY <2>4, ActivatedIsRule
  <2>6. Earned(now, confirmed')
    BY <2>1, <2>5 DEF Earned
  <2>7. Holds(state, confirmed')
    BY <2>6 DEF Holds
  <2>8. editors' = [x \in Editors |-> editors'[x]] /\ \A x \in Editors : Holds(editors'[x], confirmed')
    BY <2>1, <2>7, OthersHold
  <2>9. AllEarned(ruleFile', confirmed') /\ AllEarned(ruleTable', confirmed')
    BY <2>1, <2>2, AllEarnedStays DEF RuleInv
  <2> QED BY <2>2, <2>8, <2>9 DEF RuleInv
<1>3. ASSUME NEW e \in Editors, ReadRuleFile(e) PROVE RuleInv'
  <2> DEFINE state == [op |-> "write", rule |-> editors[e].rule, activate |-> editors[e].activate, file |-> ruleFile]
  <2>1. UNCHANGED <<ruleFile, ruleTable, epoch, saved, confirmed>> /\ Turn(e, state) /\ editors[e].op = "read"
    BY <1>3 DEF ReadRuleFile
  <2>2. Earned(editors[e].rule, confirmed)
    BY <2>1 DEF RuleInv, Holds
  <2>3. Holds(state, confirmed)
    BY <2>2 DEF Holds, RuleInv
  <2>4. Holds(state, confirmed')
    BY <2>1, <2>3, HoldsStays DEF Holds, AllEarned, Earned
  <2>5. editors' = [x \in Editors |-> editors'[x]] /\ \A x \in Editors : Holds(editors'[x], confirmed')
    BY <2>1, <2>4, OthersHold
  <2>6. AllEarned(ruleFile', confirmed') /\ AllEarned(ruleTable', confirmed')
    BY <2>1 DEF RuleInv, AllEarned, Earned
  <2> QED BY <2>1, <2>5, <2>6 DEF RuleInv
<1>4. ASSUME NEW e \in Editors, WriteRuleFile(e) PROVE RuleInv'
  <2> DEFINE state == [op |-> "upsert", rule |-> editors[e].rule, activate |-> editors[e].activate]
             next == Put(editors[e].file, editors[e].rule)
  <2>1. /\ UNCHANGED <<ruleTable, epoch, saved, confirmed>> /\ Turn(e, state)
        /\ editors[e].op = "write" /\ ruleFile' = next
    BY <1>4 DEF WriteRuleFile
  <2>2. Earned(editors[e].rule, confirmed) /\ AllEarned(editors[e].file, confirmed)
    BY <2>1 DEF RuleInv, Holds
  <2>3. AllEarned(next, confirmed)
    BY <2>2, PutKeepsEarned
  <2>4. Holds(state, confirmed)
    BY <2>2 DEF Holds
  <2>5. Holds(state, confirmed')
    BY <2>1, <2>4, HoldsStays DEF Holds, AllEarned, Earned
  <2>6. editors' = [x \in Editors |-> editors'[x]] /\ \A x \in Editors : Holds(editors'[x], confirmed')
    BY <2>1, <2>5, OthersHold
  <2> HIDE DEF next
  <2>7. AllEarned(ruleFile', confirmed') /\ AllEarned(ruleTable', confirmed')
    BY <2>1, <2>3 DEF RuleInv, AllEarned, Earned
  <2> QED BY <2>1, <2>6, <2>7 DEF RuleInv
<1>5. ASSUME NEW e \in Editors, UpsertRule(e) PROVE RuleInv'
  <2> DEFINE rule == editors[e].rule
             old == IF rule.id \in DOMAIN ruleFile THEN ruleFile[rule.id] ELSE rule
             now == [old EXCEPT !.status = "active", !.scores = TRUE]
             onward == [op |-> "read", activate |-> FALSE, rule |-> now]
             next == Put(ruleTable, rule)
  <2>1. /\ editors[e].op = "upsert" /\ ruleTable' = next /\ saved' = saved \cup {rule.id}
        /\ UNCHANGED <<ruleFile, epoch>>
    BY <1>5 DEF UpsertRule
  <2>2. \/ confirmed' = confirmed \cup {rule.id} /\ Turn(e, onward)
        \/ confirmed' = confirmed /\ Turn(e, Waiting)
    BY <1>5 DEF UpsertRule
  <2>3. Earned(rule, confirmed)
    BY <2>1 DEF RuleInv, Holds
  <2>4. AllEarned(next, confirmed) /\ DOMAIN next = DOMAIN ruleTable \cup {rule.id}
    BY <2>3, PutKeepsEarned DEF RuleInv
  <2>5. confirmed \subseteq confirmed'
    BY <2>2
  <2>6. Holds(Waiting, confirmed')
    BY DEF Holds, Waiting
  <2>7. ASSUME confirmed' = confirmed \cup {rule.id} PROVE Holds(onward, confirmed')
    <3>1. IsRule(old) /\ old.id = rule.id
      BY <2>3 DEF RuleInv, AllEarned, Earned
    <3>2. IsRule(now) /\ now.id = rule.id /\ now.scores = TRUE
      BY <3>1, ActivatedIsRule
    <3> HIDE DEF now
    <3>3. Earned(now, confirmed')
      BY <2>7, <3>2 DEF Earned, IsRule
    <3>4. Holds(onward, confirmed')
      BY <3>3 DEF Holds
    <3> QED BY <3>4
  <2> HIDE DEF onward
  <2>8. PICK state : Turn(e, state) /\ Holds(state, confirmed')
    BY <2>2, <2>6, <2>7
  <2>9. editors' = [x \in Editors |-> editors'[x]] /\ \A x \in Editors : Holds(editors'[x], confirmed')
    BY <2>5, <2>8, OthersHold
  <2> HIDE DEF next
  <2>10. AllEarned(next, confirmed')
    BY <2>4, <2>5, AllEarnedStays
  <2>11. AllEarned(ruleFile', confirmed') /\ AllEarned(ruleTable', confirmed')
    BY <2>1, <2>5, <2>10, AllEarnedStays DEF RuleInv
  <2>12. saved' \subseteq DOMAIN ruleTable'
    BY <2>1, <2>4 DEF RuleInv
  <2> QED BY <2>9, <2>11, <2>12 DEF RuleInv
<1>6. ASSUME NEW e \in Editors, UpsertFails(e) PROVE RuleInv'
  <2>1. UNCHANGED <<ruleFile, ruleTable, epoch, saved, confirmed>> /\ Turn(e, Waiting)
    BY <1>6 DEF UpsertFails
  <2>2. Holds(Waiting, confirmed')
    BY DEF Holds, Waiting
  <2>3. editors' = [x \in Editors |-> editors'[x]] /\ \A x \in Editors : Holds(editors'[x], confirmed')
    BY <2>1, <2>2, OthersHold
  <2>4. AllEarned(ruleFile', confirmed') /\ AllEarned(ruleTable', confirmed')
    BY <2>1 DEF RuleInv, AllEarned, Earned
  <2> QED BY <2>1, <2>3, <2>4 DEF RuleInv
<1>7. CASE RestartRules
  <2>1. /\ UNCHANGED <<ruleFile, ruleTable, saved, confirmed>>
        /\ editors' = [e \in Editors |-> Waiting]
    BY <1>7 DEF RestartRules
  <2>2. \A e \in Editors : Holds(editors'[e], confirmed')
    BY <2>1 DEF Holds, Waiting
  <2> QED BY <2>1, <2>2 DEF RuleInv, AllEarned, Earned
<1>8. CASE UNCHANGED ruleVars
  BY <1>8 DEF ruleVars, RuleInv, AllEarned, Earned, Holds
<1> QED BY <1>1, <1>2, <1>3, <1>4, <1>5, <1>6, <1>7, <1>8 DEF RuleStoreNext

LEMMA RuleInvariant == RuleStoreSpec => []RuleInv
BY RuleInitInv, RuleNextInv, PTL DEF RuleStoreSpec

-----------------------------------------------------------------------------
\* A rule whose save was reported is loaded by every later analysis that can
\* read the table: what a concurrent save drops from the file, the table still
\* has (rules/store.py, save_pilot_rule). An analysis that cannot read it has
\* the files only (rules/engine.py), and is promised nothing.
THEOREM SavedRulesAlwaysLoad == RuleStoreSpec => []SavedRulesLoad
<1>1. RuleInv => SavedRulesLoad
  <2> SUFFICES ASSUME RuleInv, NEW id \in saved PROVE \E entry \in load_all_rules : entry[2] = id
    BY DEF SavedRulesLoad, RuleEngine
  <2>1. id \in DOMAIN ruleTable
    BY DEF RuleInv
  <2>2. CASE id \in DOMAIN ruleFile
    <3>1. <<"custom", id>> \in load_all_rules
      BY <2>2 DEF load_all_rules, load_rules
    <3> QED BY <3>1
  <2>3. CASE id \in SeedIds
    <3>1. <<"seed", id>> \in load_all_rules
      BY <2>3 DEF load_all_rules, load_rules
    <3> QED BY <3>1
  <2>4. CASE id \notin DOMAIN ruleFile \cup SeedIds
    <3>1. <<"table", id>> \in load_all_rules
      BY <2>1, <2>4 DEF load_all_rules
    <3> QED BY <3>1
  <2> QED BY <2>2, <2>3, <2>4
<1> QED BY <1>1, RuleInvariant, PTL

\* No rule contributes to a score before a person asked for it, whatever
\* editors and restarts do (the handlers of main.py that save and activate).
THEOREM OnlyActivatedRulesScore == RuleStoreSpec => []ScoresOnlyAfterActivation
<1>1. RuleInv => ScoresOnlyAfterActivation
  <2>0. load_rules \subseteq load_all_rules
    BY DEF load_all_rules
  <2> SUFFICES ASSUME RuleInv, NEW entry \in load_all_rules,
                      Stored(entry).scores, Stored(entry).status # "pilot"
               PROVE  entry[2] \in (SeedIds \ PilotSeeds) \cup confirmed
    BY <2>0 DEF ScoresOnlyAfterActivation, RuleEngine
  <2>1. Earned(Stored(entry), confirmed) /\ Stored(entry).id = entry[2]
    <3>1. CASE \E id \in DOMAIN ruleFile : entry = <<"custom", id>>
      BY <3>1 DEF Stored, RuleInv, AllEarned
    <3>2. CASE \E id \in SeedIds : entry = <<"seed", id>>
      <4>1. PICK id \in SeedIds : entry = <<"seed", id>>
        BY <3>2
      <4>2. Stored(entry) = Seed(id) /\ entry[2] = id
        BY <4>1 DEF Stored
      <4> QED BY <4>2, SeedIsEarned, EarnedStays
    <3>3. CASE \E id \in DOMAIN ruleTable : entry = <<"table", id>>
      BY <3>3 DEF Stored, RuleInv, AllEarned
    <3> QED BY <3>1, <3>2, <3>3 DEF load_all_rules, load_rules
  <2> QED BY <2>1 DEF Earned, Scoring
<1> QED BY <1>1, RuleInvariant, PTL

-----------------------------------------------------------------------------
(* The model providers: a chat is never sent to a key that was not tried   *)
(* and accepted, for any users, slots, keys and threads, crashes and       *)
(* deletions included.                                                     *)

Keys == WorkingKeys \cup BadKeys

ProviderRows == [owner : Owners, slot : Slots, key : Keys, status : {"unverified", "active", "error"},
         touched : Nat, gone : BOOLEAN]

Inserting == [op : {"insert"}, owner : Owners, slot : Slots, key : Keys, ok : BOOLEAN]
Marking == [op : {"mark"}, row : Nat, owner : Owners, ok : BOOLEAN]
Showing == [op : {"show"}, row : Nat]
Loading == [op : {"load"}, owner : Owners, slot : Slots, row : Nat]
HandlerStates == {Rest} \cup Inserting \cup Marking \cup Showing \cup Loading

Configs == {NoConfig} \cup [owner : Owners, slot : Slots, key : Keys]

ProviderTypeOK ==
    /\ providers \in Seq(ProviderRows)
    /\ handlers \in [Handlers -> HandlerStates]
    /\ chosen \in [Owners \X Slots -> Configs]

\* What a handler remembers is true of its row: the trial it carries is the
\* trial of the row's key, and a row picked for a chat had passed it.
Remembers(r) ==
    /\ r.op = "insert" => (r.ok <=> r.key \in WorkingKeys)
    /\ r.op = "mark" => /\ r.row \in DOMAIN providers
                        /\ r.ok <=> providers[r.row].key \in WorkingKeys
    /\ r.op = "load" => /\ r.row \in DOMAIN providers
                        /\ providers[r.row].key \in WorkingKeys
                        /\ providers[r.row].slot = r.slot

ProviderInv ==
    /\ ProviderTypeOK
    /\ \A h \in Handlers : Remembers(handlers[h])
    /\ StatusTellsTrial
    /\ ChatsUseTriedKeys

-----------------------------------------------------------------------------
\* A row keeps its owner, slot and key for ever.
RowsKept ==
    /\ DOMAIN providers \subseteq DOMAIN providers'
    /\ \A i \in DOMAIN providers : /\ providers'[i].owner = providers[i].owner
                                   /\ providers'[i].slot = providers[i].slot
                                   /\ providers'[i].key = providers[i].key

\* What is remembered stays true, as rows keep what it is about.
LEMMA RememberedStays ==
    ASSUME NEW r \in HandlerStates, Remembers(r), RowsKept
    PROVE  Remembers(r)'
BY DEF Remembers, RowsKept

\* The rank of a row that is marked is a number.
LEMMA RankIsNumber ==
    ASSUME ProviderTypeOK
    PROVE  1 + Cardinality({j \in DOMAIN providers : providers[j].touched > 0}) \in Nat
<1>1. DOMAIN providers = 1..Len(providers) /\ Len(providers) \in Nat
  BY DEF ProviderTypeOK
<1>2. IsFiniteSet(DOMAIN providers)
  BY <1>1, FS_Interval
<1>3. IsFiniteSet({j \in DOMAIN providers : providers[j].touched > 0})
  BY <1>2, FS_Subset
<1>4. Cardinality({j \in DOMAIN providers : providers[j].touched > 0}) \in Nat
  BY <1>3, FS_CardinalityType
<1> QED BY <1>4

-----------------------------------------------------------------------------
LEMMA ProviderInitInv == ProviderInit => ProviderInv
<1> SUFFICES ASSUME ProviderInit PROVE ProviderInv
  OBVIOUS
<1>1. providers \in Seq(ProviderRows) /\ DOMAIN providers = {}
  BY DEF ProviderInit
<1>2. Rest \in HandlerStates /\ \A h \in Handlers : handlers[h] = Rest /\ Remembers(handlers[h])
  BY DEF ProviderInit, HandlerStates, Rest, Remembers
<1>3. handlers \in [Handlers -> HandlerStates]
  BY <1>2 DEF ProviderInit
<1>4. chosen \in [Owners \X Slots -> Configs] /\ ChatsUseTriedKeys
  BY DEF ProviderInit, Configs, ChatsUseTriedKeys
<1> QED BY <1>1, <1>2, <1>3, <1>4 DEF ProviderInv, ProviderTypeOK, StatusTellsTrial

\* A request changes one thread.
LEMMA CreateInv == ASSUME ProviderInv, NEW h \in Handlers, CreateProvider(h) PROVE ProviderInv'
<1>1. PICK o \in Owners, s \in Slots, key \in Keys :
        handlers' = [handlers EXCEPT ![h] = [op |-> "insert", owner |-> o, slot |-> s, key |-> key,
                                             ok |-> key \in WorkingKeys]]
  BY DEF CreateProvider, Goes, _test_provider, Keys
<1>2. providers' = providers /\ chosen' = chosen
  BY DEF CreateProvider
<1> DEFINE r == [op |-> "insert", owner |-> o, slot |-> s, key |-> key, ok |-> key \in WorkingKeys]
<1>3. r \in Inserting
  BY DEF Inserting
<1>4. ProviderTypeOK'
  BY <1>1, <1>2, <1>3 DEF ProviderInv, ProviderTypeOK, HandlerStates
<1>5. ASSUME NEW g \in Handlers PROVE Remembers(handlers[g])'
  <2>1. CASE g = h
    BY <1>1, <2>1 DEF Remembers, ProviderInv, ProviderTypeOK
  <2>2. CASE g # h
    BY <1>1, <1>2, <2>2 DEF Remembers, ProviderInv, ProviderTypeOK
  <2> QED BY <2>1, <2>2
<1> QED BY <1>2, <1>4, <1>5 DEF ProviderInv, StatusTellsTrial, ChatsUseTriedKeys

LEMMA InsertInv == ASSUME ProviderInv, NEW h \in Handlers, InsertProvider(h) PROVE ProviderInv'
<1> DEFINE req == handlers[h]
           row == [owner |-> req.owner, slot |-> req.slot, key |-> req.key, status |-> "unverified",
                   touched |-> 0, gone |-> FALSE]
           next == [op |-> "mark", row |-> Len(providers) + 1, owner |-> req.owner, ok |-> req.ok]
<1>1. req \in Inserting /\ (req.ok <=> req.key \in WorkingKeys)
  BY DEF InsertProvider, ProviderInv, ProviderTypeOK, HandlerStates, Rest, Marking, Showing, Loading, Remembers
<1>2. row \in ProviderRows
  BY <1>1 DEF Inserting, ProviderRows
<1>3. providers \in Seq(ProviderRows) /\ providers' = Append(providers, row)
  BY DEF InsertProvider, ProviderInv, ProviderTypeOK
<1>4. /\ providers' \in Seq(ProviderRows)
      /\ DOMAIN providers' = DOMAIN providers \cup {Len(providers) + 1}
      /\ providers'[Len(providers) + 1] = row
      /\ \A i \in DOMAIN providers : providers'[i] = providers[i]
      /\ Len(providers) \in Nat
  BY <1>2, <1>3
<1>5. RowsKept
  BY <1>4 DEF RowsKept
<1>6. next \in Marking
  BY <1>1, <1>4 DEF Inserting, Marking
<1>7. handlers' = [handlers EXCEPT ![h] = next] /\ chosen' = chosen
  BY DEF InsertProvider, Goes
<1>8. ProviderTypeOK'
  BY <1>4, <1>6, <1>7 DEF ProviderInv, ProviderTypeOK, HandlerStates
<1>9. ASSUME NEW g \in Handlers PROVE Remembers(handlers[g])'
  <2>1. CASE g = h
    <3>1. handlers'[g] = next
      BY <1>7, <2>1 DEF ProviderInv, ProviderTypeOK
    <3> QED BY <1>1, <1>4, <3>1 DEF Remembers
  <2>2. CASE g # h
    <3>1. handlers'[g] = handlers[g] /\ handlers[g] \in HandlerStates
      BY <1>7, <2>2 DEF ProviderInv, ProviderTypeOK
    <3> QED BY <1>5, <3>1, RememberedStays DEF ProviderInv, Remembers
  <2> QED BY <2>1, <2>2
<1>10. StatusTellsTrial'
  BY <1>4 DEF ProviderInv, StatusTellsTrial
<1> QED BY <1>7, <1>8, <1>9, <1>10 DEF ProviderInv, ChatsUseTriedKeys

\* ProviderRows that are marked or deleted keep what requests remember of them.
LEMMA OthersRemember ==
    ASSUME ProviderInv, RowsKept, NEW h \in Handlers, NEW r, handlers' = [handlers EXCEPT ![h] = r], Remembers(r)'
    PROVE  \A g \in Handlers : Remembers(handlers[g])'
<1> SUFFICES ASSUME NEW g \in Handlers PROVE Remembers(handlers[g])'
  OBVIOUS
<1>1. CASE g = h
  <2>1. handlers'[g] = r
    BY <1>1 DEF ProviderInv, ProviderTypeOK
  <2> QED BY <2>1 DEF Remembers
<1>2. CASE g # h
  <2>1. handlers'[g] = handlers[g] /\ handlers[g] \in HandlerStates /\ Remembers(handlers[g])
    BY <1>2 DEF ProviderInv, ProviderTypeOK
  <2> QED BY <2>1, RememberedStays DEF Remembers
<1> QED BY <1>1, <1>2

LEMMA MarkInv == ASSUME ProviderInv, NEW h \in Handlers, MarkProvider(h) PROVE ProviderInv'
<1> DEFINE req == handlers[h]
           rank == 1 + Cardinality({j \in DOMAIN providers : providers[j].touched > 0})
           told == IF req.ok THEN "active" ELSE "error"
           marked(i) == [providers[i] EXCEPT !.status = told, !.touched = rank]
           next == [op |-> "show", row |-> req.row]
<1>1. req \in Marking /\ req.row \in DOMAIN providers /\ (req.ok <=> providers[req.row].key \in WorkingKeys)
  <2>1. req \in HandlerStates /\ Remembers(req) /\ req.op = "mark"
    BY DEF MarkProvider, ProviderInv, ProviderTypeOK
  <2>2. req \in Marking
    BY <2>1 DEF HandlerStates, Rest, Inserting, Showing, Loading
  <2> QED BY <2>1, <2>2 DEF Remembers
<1>2. rank \in Nat
  BY RankIsNumber DEF ProviderInv
<1>3. providers \in Seq(ProviderRows) /\ \A i \in DOMAIN providers : providers[i] \in ProviderRows
  BY DEF ProviderInv, ProviderTypeOK
<1> HIDE DEF rank
<1>4. \A i \in DOMAIN providers : marked(i) \in ProviderRows
  BY <1>2, <1>3 DEF ProviderRows
<1>5. /\ providers' = [i \in DOMAIN providers |-> IF i = req.row /\ Present(i) THEN marked(i) ELSE providers[i]]
      /\ handlers' = [handlers EXCEPT ![h] = next]
      /\ chosen' = chosen
  BY DEF MarkProvider, Goes, rank
<1>6. DOMAIN providers' = DOMAIN providers /\ \A i \in DOMAIN providers : providers'[i] \in ProviderRows
  BY <1>3, <1>4, <1>5
<1>7. providers' \in Seq(ProviderRows)
  <2>1. DOMAIN providers = 1..Len(providers) /\ Len(providers) \in Nat
    BY <1>3
  <2>2. providers' \in [1..Len(providers) -> ProviderRows]
    BY <1>5, <1>6, <2>1
  <2> QED BY <2>1, <2>2, SeqDef
<1>8. RowsKept
  BY <1>3, <1>5 DEF RowsKept, ProviderRows
<1>9. ProviderTypeOK'
  <2>1. next \in Showing
    BY <1>1 DEF Marking, Showing
  <2> QED BY <1>5, <1>7, <2>1 DEF ProviderInv, ProviderTypeOK, HandlerStates
<1>10. \A g \in Handlers : Remembers(handlers[g])'
  <2>1. Remembers(next)'
    BY DEF Remembers
  <2> QED BY <1>5, <1>8, <2>1, OthersRemember
<1>11. StatusTellsTrial'
  <2> SUFFICES ASSUME NEW i \in DOMAIN providers'
               PROVE  /\ providers'[i].status = "active" => providers'[i].key \in WorkingKeys
                      /\ providers'[i].status = "error" => providers'[i].key \in BadKeys
    BY DEF StatusTellsTrial
  <2>1. CASE i = req.row /\ Present(i)
    <3>1. providers'[i].status = told /\ providers'[i].key = providers[i].key
      BY <1>3, <1>5, <1>6, <2>1 DEF ProviderRows
    <3>2. providers[i].key \in Keys
      BY <1>3, <1>6 DEF ProviderRows
    <3> QED BY <1>1, <2>1, <3>1, <3>2 DEF Keys
  <2>2. CASE ~(i = req.row /\ Present(i))
    BY <1>5, <1>6, <2>2 DEF ProviderInv, StatusTellsTrial
  <2> QED BY <2>1, <2>2
<1> QED BY <1>5, <1>9, <1>10, <1>11 DEF ProviderInv, ChatsUseTriedKeys

LEMMA ShowInv == ASSUME ProviderInv, NEW h \in Handlers, ShowProvider(h) PROVE ProviderInv'
<1>1. handlers' = [handlers EXCEPT ![h] = Rest] /\ providers' = providers /\ chosen' = chosen
  BY DEF ShowProvider, Goes
<1>2. RowsKept /\ Remembers(Rest)'
  BY <1>1 DEF RowsKept, Remembers, Rest
<1>3. \A g \in Handlers : Remembers(handlers[g])'
  BY <1>1, <1>2, OthersRemember
<1>4. ProviderTypeOK'
  BY <1>1 DEF ProviderInv, ProviderTypeOK, HandlerStates
<1> QED BY <1>1, <1>3, <1>4 DEF ProviderInv, StatusTellsTrial, ChatsUseTriedKeys

LEMMA DeleteInv == ASSUME ProviderInv, NEW o \in Owners, NEW i \in DOMAIN providers, DeleteProvider(o, i) PROVE ProviderInv'
<1>1. providers \in Seq(ProviderRows) /\ providers[i] \in ProviderRows
  BY DEF ProviderInv, ProviderTypeOK
<1>2. /\ providers' = [providers EXCEPT ![i] = [providers[i] EXCEPT !.gone = TRUE]]
      /\ handlers' = handlers /\ chosen' = chosen
  BY DEF DeleteProvider
<1>3. [providers[i] EXCEPT !.gone = TRUE] \in ProviderRows
  BY <1>1 DEF ProviderRows
<1>4. providers' \in Seq(ProviderRows) /\ DOMAIN providers' = DOMAIN providers
  BY <1>1, <1>2, <1>3
<1>5. \A j \in DOMAIN providers : /\ providers'[j].owner = providers[j].owner /\ providers'[j].slot = providers[j].slot
                                  /\ providers'[j].key = providers[j].key /\ providers'[j].status = providers[j].status
  BY <1>1, <1>2 DEF ProviderRows
<1>6. RowsKept
  BY <1>4, <1>5 DEF RowsKept
<1>7. ASSUME NEW g \in Handlers PROVE Remembers(handlers[g])'
  <2>1. handlers[g] \in HandlerStates /\ Remembers(handlers[g]) /\ handlers'[g] = handlers[g]
    BY <1>2 DEF ProviderInv, ProviderTypeOK
  <2> QED BY <1>6, <2>1, RememberedStays DEF Remembers
<1>8. StatusTellsTrial'
  BY <1>4, <1>5 DEF ProviderInv, StatusTellsTrial
<1> QED BY <1>2, <1>4, <1>7, <1>8 DEF ProviderInv, ProviderTypeOK, ChatsUseTriedKeys

\* A row that is picked is active, and an active row has a key that works.
LEMMA PickInv == ASSUME ProviderInv, NEW h \in Handlers, PickProvider(h) PROVE ProviderInv'
<1>1. PICK o \in Owners, s \in Slots :
        IF ActiveRows(o, s) = {}
        THEN UNCHANGED handlers /\ chosen' = [chosen EXCEPT ![<<o, s>>] = NoConfig]
        ELSE /\ \E i \in ActiveRows(o, s) : Goes(h, [op |-> "load", owner |-> o, slot |-> s, row |-> i])
             /\ UNCHANGED chosen
  BY DEF PickProvider
<1>2. providers' = providers /\ RowsKept
  BY DEF PickProvider, RowsKept
<1>3. StatusTellsTrial'
  BY <1>2 DEF ProviderInv, StatusTellsTrial
<1>4. CASE ActiveRows(o, s) = {}
  <2>1. handlers' = handlers /\ chosen' = [chosen EXCEPT ![<<o, s>>] = NoConfig]
    BY <1>1, <1>4
  <2>2. chosen' \in [Owners \X Slots -> Configs]
    BY <2>1 DEF ProviderInv, ProviderTypeOK, Configs
  <2>3. ChatsUseTriedKeys'
    <3> SUFFICES ASSUME NEW p \in Owners, NEW t \in Slots, chosen'[<<p, t>>] # NoConfig
                 PROVE  chosen'[<<p, t>>] = chosen[<<p, t>>]
      BY DEF ProviderInv, ChatsUseTriedKeys
    <3> QED BY <2>1 DEF ProviderInv, ProviderTypeOK
  <2>4. ASSUME NEW g \in Handlers PROVE Remembers(handlers[g])'
    BY <1>2, <2>1 DEF ProviderInv, Remembers
  <2> QED BY <1>2, <1>3, <2>1, <2>2, <2>3, <2>4 DEF ProviderInv, ProviderTypeOK
<1>5. CASE ActiveRows(o, s) # {}
  <2>1. PICK i \in ActiveRows(o, s) : Goes(h, [op |-> "load", owner |-> o, slot |-> s, row |-> i])
    BY <1>1, <1>5
  <2> DEFINE next == [op |-> "load", owner |-> o, slot |-> s, row |-> i]
  <2>2. i \in DOMAIN providers /\ providers[i].slot = s /\ providers[i].status = "active"
    BY DEF ActiveRows
  <2>3. providers[i].key \in WorkingKeys /\ i \in Nat
    BY <2>2 DEF ProviderInv, StatusTellsTrial, ProviderTypeOK
  <2>4. handlers' = [handlers EXCEPT ![h] = next] /\ chosen' = chosen
    BY <1>1, <1>5, <2>1 DEF Goes
  <2>5. Remembers(next)'
    BY <1>2, <2>2, <2>3 DEF Remembers
  <2>6. \A g \in Handlers : Remembers(handlers[g])'
    BY <1>2, <2>4, <2>5, OthersRemember
  <2>7. next \in Loading
    BY <2>3 DEF Loading
  <2>8. ProviderTypeOK'
    BY <1>2, <2>4, <2>7 DEF ProviderInv, ProviderTypeOK, HandlerStates
  <2> QED BY <1>3, <2>4, <2>6, <2>8 DEF ProviderInv, ChatsUseTriedKeys
<1> QED BY <1>4, <1>5

\* The row is read again, and its owner compared; its slot and key are those of the pick.
LEMMA LoadInv == ASSUME ProviderInv, NEW h \in Handlers, LoadProvider(h) PROVE ProviderInv'
<1> DEFINE req == handlers[h]
           row == providers[req.row]
           config == IF Present(req.row) /\ row.owner = req.owner
                     THEN [owner |-> row.owner, slot |-> row.slot, key |-> row.key] ELSE NoConfig
<1>1. req \in Loading /\ Remembers(req) /\ req.op = "load"
  <2>1. req \in HandlerStates /\ Remembers(req) /\ req.op = "load"
    BY DEF LoadProvider, ProviderInv, ProviderTypeOK
  <2> QED BY <2>1 DEF HandlerStates, Rest, Inserting, Marking, Showing
<1>2. req.owner \in Owners /\ req.slot \in Slots
  BY <1>1 DEF Loading
<1>3. row \in ProviderRows /\ row.key \in WorkingKeys /\ row.slot = req.slot
  BY <1>1 DEF Remembers, ProviderInv, ProviderTypeOK
<1>4. /\ handlers' = [handlers EXCEPT ![h] = Rest] /\ providers' = providers
      /\ chosen' = [chosen EXCEPT ![<<req.owner, req.slot>>] = config]
  BY DEF LoadProvider, Goes
<1>5. config \in Configs
  BY <1>3 DEF ProviderRows, Configs
<1>6. config # NoConfig => config.key \in WorkingKeys /\ config.owner = req.owner /\ config.slot = req.slot
  BY <1>3
<1> HIDE DEF config
<1>7. ProviderTypeOK'
  BY <1>2, <1>4, <1>5 DEF ProviderInv, ProviderTypeOK, HandlerStates
<1>8. RowsKept /\ Remembers(Rest)'
  BY <1>4 DEF RowsKept, Remembers, Rest
<1>9. \A g \in Handlers : Remembers(handlers[g])'
  BY <1>4, <1>8, OthersRemember
<1>10. ChatsUseTriedKeys'
  <2> SUFFICES ASSUME NEW o \in Owners, NEW s \in Slots, chosen'[<<o, s>>] # NoConfig
               PROVE  /\ chosen'[<<o, s>>].key \in WorkingKeys
                      /\ chosen'[<<o, s>>].owner = o /\ chosen'[<<o, s>>].slot = s
    BY DEF ChatsUseTriedKeys
  <2>1. CASE o = req.owner /\ s = req.slot
    <3>1. chosen'[<<o, s>>] = config
      BY <1>2, <1>4, <2>1 DEF ProviderInv, ProviderTypeOK
    <3> QED BY <1>6, <2>1, <3>1
  <2>2. CASE ~(o = req.owner /\ s = req.slot)
    <3>1. chosen'[<<o, s>>] = chosen[<<o, s>>]
      BY <1>2, <1>4, <2>2 DEF ProviderInv, ProviderTypeOK
    <3> QED BY <3>1 DEF ProviderInv, ChatsUseTriedKeys
  <2> QED BY <2>1, <2>2
<1> QED BY <1>4, <1>7, <1>9, <1>10 DEF ProviderInv, StatusTellsTrial

LEMMA CrashInv == ASSUME ProviderInv, CrashProviders PROVE ProviderInv'
<1>1. handlers' = [h \in Handlers |-> Rest] /\ providers' = providers /\ chosen' = chosen
  BY DEF CrashProviders
<1>2. \A h \in Handlers : handlers'[h] = Rest
  BY <1>1
<1>3. \A h \in Handlers : Remembers(handlers[h])'
  BY <1>2 DEF Remembers, Rest
<1>4. ProviderTypeOK'
  BY <1>1 DEF ProviderInv, ProviderTypeOK, HandlerStates
<1> QED BY <1>1, <1>3, <1>4 DEF ProviderInv, StatusTellsTrial, ChatsUseTriedKeys

LEMMA ProviderNextInv == ProviderInv /\ [ProviderNext]_providerVars => ProviderInv'
<1> SUFFICES ASSUME ProviderInv, [ProviderNext]_providerVars PROVE ProviderInv'
  OBVIOUS
<1>1. ASSUME NEW h \in Handlers,
             CreateProvider(h) \/ InsertProvider(h) \/ MarkProvider(h) \/ ShowProvider(h)
               \/ PickProvider(h) \/ LoadProvider(h)
      PROVE  ProviderInv'
  BY <1>1, CreateInv, InsertInv, MarkInv, ShowInv, PickInv, LoadInv
<1>2. ASSUME NEW o \in Owners, NEW i \in DOMAIN providers, DeleteProvider(o, i) PROVE ProviderInv'
  BY <1>2, DeleteInv
<1>3. CASE CrashProviders
  BY <1>3, CrashInv
<1>4. CASE UNCHANGED providerVars
  BY <1>4 DEF providerVars, ProviderInv, ProviderTypeOK, Remembers, StatusTellsTrial, ChatsUseTriedKeys
<1> QED BY <1>1, <1>2, <1>3, <1>4 DEF ProviderNext

-----------------------------------------------------------------------------
\* Whatever requests, deletions and crashes come in whatever order, the statuses
\* shown are those of the trials, and a chat goes to a key that was tried and
\* accepted (main.py auth_create_model_provider, chat; model_providers.py).
THEOREM ChatsAlwaysUseTriedKeys == ProviderSpec => [](StatusTellsTrial /\ ChatsUseTriedKeys)
<1>1. ProviderInv => StatusTellsTrial /\ ChatsUseTriedKeys
  BY DEF ProviderInv
<1> QED BY ProviderInitInv, ProviderNextInv, <1>1, PTL DEF ProviderSpec

-----------------------------------------------------------------------------
(* The records of an analysis: a signature vouches for a whole export.     *)

Payloads == [kind : Kinds, narrative : BOOLEAN]
ReportRows == [status : {"generated", "exported"}, payload : Payloads, signed : {<<>>} \cup {<<p>> : p \in Payloads}]

FileNames == {"md", "docx", "pdf", "integrity"}

Inserts == [op : {"insert"}, score : Scores]
Exports == [op : {"export"}, report : Nat, payload : Payloads]
WriterStates == {Resting} \cup Inserts \cup Exports

RecordTypeOK ==
    /\ reports \in Seq(ReportRows)
    /\ files \in Seq(SUBSET FileNames) /\ Len(files) = Len(reports)
    /\ writers \in [DOMAIN writers -> WriterStates]

\* A request that exports has the payload its row was saved with.
Exporter(s) ==
    s.op = "export" => /\ s.report \in DOMAIN reports
                       /\ reports[s.report].payload = s.payload /\ reports[s.report].status = "exported"

\* Only files of the report's kind are written.
Belongs(r) == files[r] \subseteq FilesOf(reports[r].payload.kind)

RecordInv ==
    /\ RecordTypeOK
    /\ \A w \in DOMAIN writers : Exporter(writers[w])
    /\ \A r \in DOMAIN reports : Belongs(r)
    /\ SignatureCovers

\* Rows keep their status and payload.
ReportsKept ==
    \A r \in DOMAIN reports : /\ r \in DOMAIN reports'
                              /\ reports'[r].payload = reports[r].payload
                              /\ reports'[r].status = reports[r].status

LEMMA ExporterStays == ASSUME NEW s \in WriterStates, Exporter(s), ReportsKept PROVE Exporter(s)'
BY DEF Exporter, ReportsKept

\* Changing one entry of a table, whatever its entries are.
LEMMA EntryChanged ==
    ASSUME NEW S, NEW table \in Seq(S), NEW i \in DOMAIN table, NEW row \in S
    PROVE  /\ [table EXCEPT ![i] = row] \in Seq(S)
           /\ Len([table EXCEPT ![i] = row]) = Len(table)
           /\ [table EXCEPT ![i] = row][i] = row
           /\ \A j \in DOMAIN table \ {i} : [table EXCEPT ![i] = row][j] = table[j]
OBVIOUS

\* The files of an export come in order, the signature when all else is there.
LEMMA SignatureIsLast ==
    ASSUME NEW kind \in Kinds, NEW have \in SUBSET FilesOf(kind), NEW f \in NextFile(kind, have)
    PROVE  /\ f \in FilesOf(kind) \ have
           /\ f = "integrity" => have \cup {f} = FilesOf(kind)
           /\ have = FilesOf(kind) => FALSE
BY DEF NextFile, FilesOf

\* The step of one request.
LEMMA OthersExport ==
    ASSUME RecordInv, ReportsKept, NEW w \in DOMAIN writers, NEW s \in WriterStates, Writes(w, s), Exporter(s)'
    PROVE  writers' \in [DOMAIN writers' -> WriterStates] /\ \A x \in DOMAIN writers' : Exporter(writers[x])'
<1>1. DOMAIN writers' = DOMAIN writers /\ writers' \in [DOMAIN writers -> WriterStates]
  BY DEF Writes, RecordInv, RecordTypeOK
<1>2. ASSUME NEW x \in DOMAIN writers PROVE Exporter(writers[x])'
  <2>1. PICK t \in WriterStates : t = writers[x]
    BY DEF RecordInv, RecordTypeOK
  <2>2. Exporter(t)'
    BY <2>1, ExporterStays DEF RecordInv
  <2>3. writers'[x] = t \/ writers'[x] = s
    BY <2>1 DEF Writes
  <2>4. CASE writers'[x] = t
    BY <2>2, <2>4 DEF Exporter
  <2>5. CASE writers'[x] = s
    BY <2>5 DEF Exporter
  <2> QED BY <2>3, <2>4, <2>5
<1> QED BY <1>1, <1>2

LEMMA RestingExports == Resting \in WriterStates /\ Exporter(Resting) /\ Exporter(Resting)'
BY DEF WriterStates, Resting, Exporter

LEMMA RecordInitInv == RecordInit => RecordInv
<1> SUFFICES ASSUME RecordInit PROVE RecordInv
  OBVIOUS
<1>1. reports \in Seq(ReportRows) /\ files \in Seq(SUBSET FileNames) /\ Len(files) = Len(reports)
      /\ DOMAIN reports = {}
  BY EmptySeq DEF RecordInit
<1>2. PICK pool \in WriterPools : writers = [w \in pool |-> Resting]
  BY DEF RecordInit
<1> QED BY <1>1, <1>2, RestingExports DEF RecordInv, RecordTypeOK, SignatureCovers

LEMMA SaveReportInv == ASSUME RecordInv, NEW w \in DOMAIN writers, SaveReport(w) PROVE RecordInv'
<1>1. PICK kind \in Kinds, pipeline \in BOOLEAN, confirm \in BOOLEAN :
         /\ reports' = Append(reports, [status |-> IF confirm THEN "exported" ELSE "generated",
                                        payload |-> Payload(kind, pipeline), signed |-> <<>>])
         /\ files' = Append(files, {})
         /\ Writes(w, IF confirm THEN [op |-> "export", report |-> Len(reports) + 1,
                                       payload |-> Payload(kind, pipeline)] ELSE Resting)
  BY DEF SaveReport
<1> DEFINE row == [status |-> IF confirm THEN "exported" ELSE "generated",
                   payload |-> Payload(kind, pipeline), signed |-> <<>>]
           n == Len(reports) + 1
<1>2. /\ reports \in Seq(ReportRows) /\ files \in Seq(SUBSET FileNames)
      /\ Len(files) = Len(reports) /\ Len(reports) \in Nat
  BY DEF RecordInv, RecordTypeOK
<1>3. Payload(kind, pipeline) \in Payloads /\ row \in ReportRows /\ row.payload = Payload(kind, pipeline)
      /\ row.status = (IF confirm THEN "exported" ELSE "generated")
  BY DEF Payload, Payloads, ReportRows
<1>4. reports' = Append(reports, row)
  BY <1>1
<1> HIDE DEF row
<1>5. /\ reports' \in Seq(ReportRows) /\ Len(reports') = n /\ DOMAIN reports' = DOMAIN reports \cup {n}
      /\ reports'[n] = row /\ \A r \in DOMAIN reports : reports'[r] = reports[r]
  BY <1>2, <1>3, <1>4
<1>6. /\ files' \in Seq(SUBSET FileNames) /\ Len(files') = n /\ files'[n] = {}
      /\ \A r \in DOMAIN reports : files'[r] = files[r]
  BY <1>1, <1>2
<1>7. ReportsKept
  BY <1>5 DEF ReportsKept
<1>8. PICK s \in WriterStates : Writes(w, s) /\ Exporter(s)'
  <2>1. CASE confirm
    <3>1. PICK m \in Nat : m = n
      BY <1>2
    <3> DEFINE s == [op |-> "export", report |-> m, payload |-> Payload(kind, pipeline)]
    <3>2. s \in WriterStates
      BY <1>3 DEF WriterStates, Exports
    <3>3. Exporter(s)'
      BY <1>3, <1>5, <2>1, <3>1 DEF Exporter, Payload
    <3>4. Writes(w, s)
      BY <1>1, <2>1, <3>1
    <3> QED BY <3>2, <3>3, <3>4
  <2>2. CASE ~confirm
    BY <1>1, <2>2, RestingExports
  <2> QED BY <2>1, <2>2
<1>9. writers' \in [DOMAIN writers' -> WriterStates] /\ \A x \in DOMAIN writers' : Exporter(writers[x])'
  BY <1>7, <1>8, OthersExport
<1>10. \A r \in DOMAIN reports' : Belongs(r)'
  BY <1>5, <1>6 DEF RecordInv, Belongs
<1>11. SignatureCovers'
  BY <1>5, <1>6 DEF RecordInv, SignatureCovers
<1> QED BY <1>5, <1>6, <1>9, <1>10, <1>11 DEF RecordInv, RecordTypeOK

LEMMA ExportFileInv == ASSUME RecordInv, NEW w \in DOMAIN writers, ExportFile(w) PROVE RecordInv'
<1>1. PICK s \in WriterStates : s = writers[w]
  BY DEF RecordInv, RecordTypeOK
<1>2. s.op = "export" /\ s \in Exports /\ s.report \in DOMAIN reports
      /\ reports[s.report].payload = s.payload /\ reports[s.report].status = "exported"
  BY <1>1 DEF ExportFile, RecordInv, Exporter, WriterStates, Resting, Inserts, Exports
<1>3. PICK r \in Nat, kind \in Kinds : r = s.report /\ kind = s.payload.kind
  BY <1>2 DEF Exports, Payloads
<1>4. PICK f \in NextFile(kind, files[r]), fails \in BOOLEAN :
        IF fails THEN Writes(w, Resting) /\ UNCHANGED <<reports, files>>
        ELSE /\ files' = [files EXCEPT ![r] = @ \cup {f}]
             /\ reports' = IF f = "integrity" THEN [reports EXCEPT ![r].signed = <<s.payload>>] ELSE reports
             /\ Writes(w, IF files'[r] = FilesOf(kind) THEN Resting ELSE s)
  BY <1>1, <1>3 DEF ExportFile
<1>5. CASE fails
  <2>1. Writes(w, Resting) /\ UNCHANGED <<reports, files>>
    BY <1>4, <1>5
  <2>2. ReportsKept
    BY <2>1 DEF ReportsKept
  <2>3. writers' \in [DOMAIN writers' -> WriterStates] /\ \A x \in DOMAIN writers' : Exporter(writers[x])'
    BY <2>1, <2>2, RestingExports, OthersExport
  <2> QED BY <2>1, <2>3 DEF RecordInv, RecordTypeOK, Belongs, SignatureCovers
<1>6. CASE ~fails
  <2> DEFINE row == IF f = "integrity" THEN [reports[r] EXCEPT !.signed = <<s.payload>>] ELSE reports[r]
  <2>1. /\ reports \in Seq(ReportRows) /\ files \in Seq(SUBSET FileNames)
        /\ Len(files) = Len(reports) /\ r \in DOMAIN reports /\ r \in DOMAIN files
        /\ DOMAIN reports = 1..Len(reports) /\ DOMAIN files = 1..Len(reports)
    BY <1>2, <1>3 DEF RecordInv, RecordTypeOK
  <2>2. reports[r] \in ReportRows /\ reports[r].payload = s.payload /\ s.payload \in Payloads /\ reports[r].status = "exported"
    BY <1>2, <1>3, <2>1, ElementOfSeq DEF Exports
  <2>3. files[r] \subseteq FilesOf(kind)
    BY <1>2, <1>3, <2>1 DEF RecordInv, Belongs
  <2>4. f \in FilesOf(kind) \ files[r] /\ (f = "integrity" => files[r] \cup {f} = FilesOf(kind))
    BY <2>3, SignatureIsLast
  <2>5. /\ row \in ReportRows /\ row.payload = s.payload /\ row.status = "exported"
        /\ f = "integrity" => row.signed = <<s.payload>>
    BY <2>2 DEF ReportRows
  <2>6. reports' = [reports EXCEPT ![r] = row]
    BY <1>4, <1>6, <2>1
  <2> HIDE DEF row
  <2>7. /\ reports' \in Seq(ReportRows) /\ DOMAIN reports' = DOMAIN reports /\ Len(reports') = Len(reports)
        /\ reports'[r] = row /\ \A x \in DOMAIN reports \ {r} : reports'[x] = reports[x]
    BY <2>1, <2>5, <2>6
  <2>8. files[r] \cup {f} \in SUBSET FileNames
    BY <2>1, <2>3, <2>4 DEF FilesOf, FileNames
  <2>9. /\ files' \in Seq(SUBSET FileNames) /\ Len(files') = Len(files)
        /\ files'[r] = files[r] \cup {f} /\ \A x \in DOMAIN reports \ {r} : files'[x] = files[x]
    <3>1. files' = [files EXCEPT ![r] = files[r] \cup {f}]
      BY <1>4, <1>6
    <3> QED BY <2>1, <2>8, <3>1, EntryChanged
  <2>10. ReportsKept
    BY <2>2, <2>5, <2>7 DEF ReportsKept
  <2>11. Exporter(s)'
    BY <1>1, <2>10, ExporterStays DEF RecordInv
  <2>12. writers' \in [DOMAIN writers' -> WriterStates] /\ \A x \in DOMAIN writers' : Exporter(writers[x])'
    BY <1>4, <1>6, <2>10, <2>11, RestingExports, OthersExport
  <2>13. \A x \in DOMAIN reports' : Belongs(x)'
    <3>1. Belongs(r)'
      BY <1>3, <2>3, <2>4, <2>5, <2>7, <2>9 DEF Belongs
    <3>2. \A x \in DOMAIN reports \ {r} : Belongs(x)'
      BY <2>7, <2>9 DEF Belongs, RecordInv
    <3> QED BY <2>7, <3>1, <3>2
  <2>14. SignatureCovers'
    <3>1. ASSUME "integrity" \in files'[r]
          PROVE  /\ files'[r] = FilesOf(row.payload.kind)
                 /\ row.signed = <<row.payload>> /\ row.status = "exported"
      <4>1. f = "integrity"
        <5>1. "integrity" \in files[r] => files[r] = FilesOf(kind)
          BY <1>3, <2>1, <2>2 DEF RecordInv, SignatureCovers
        <5> QED BY <2>4, <2>9, <3>1, <5>1
      <4> QED BY <1>3, <2>4, <2>5, <2>9, <4>1
    <3>2. \A x \in DOMAIN reports \ {r} : "integrity" \in files'[x] =>
              /\ files'[x] = FilesOf(reports'[x].payload.kind)
              /\ reports'[x].signed = <<reports'[x].payload>>
              /\ reports'[x].status = "exported"
      BY <2>7, <2>9 DEF RecordInv, SignatureCovers
    <3> QED BY <2>7, <3>1, <3>2 DEF SignatureCovers
  <2> QED BY <2>1, <2>7, <2>9, <2>12, <2>13, <2>14 DEF RecordInv, RecordTypeOK
<1> QED BY <1>5, <1>6

LEMMA RecordNextInv == RecordInv /\ [RecordNext]_recordVars => RecordInv'
<1> SUFFICES ASSUME RecordInv, [RecordNext]_recordVars PROVE RecordInv'
  OBVIOUS
<1>1. CASE UNCHANGED <<writers, reports, files>>
  BY <1>1 DEF RecordInv, RecordTypeOK, Exporter, Belongs, SignatureCovers
<1>2. ASSUME NEW w \in DOMAIN writers, ReadLatest(w) \/ InsertScore(w) PROVE RecordInv'
  <2>1. UNCHANGED <<reports, files>>
    BY <1>2 DEF ReadLatest, InsertScore
  <2>2. UNCHANGED writers \/ \E s \in {Resting} \cup Inserts : Writes(w, s)
    BY <1>2 DEF ReadLatest, InsertScore, Inserts
  <2>3. CASE UNCHANGED writers
    BY <1>1, <2>1, <2>3
  <2>4. ASSUME NEW s \in {Resting} \cup Inserts, Writes(w, s) PROVE RecordInv'
    <3>1. s \in WriterStates /\ Exporter(s)'
      BY DEF WriterStates, Exporter, Resting, Inserts
    <3>2. ReportsKept
      BY <2>1 DEF ReportsKept
    <3>3. writers' \in [DOMAIN writers' -> WriterStates] /\ \A x \in DOMAIN writers' : Exporter(writers[x])'
      BY <2>4, <3>1, <3>2, OthersExport
    <3> QED BY <2>1, <3>3 DEF RecordInv, RecordTypeOK, Belongs, SignatureCovers
  <2> QED BY <2>2, <2>3, <2>4
<1> QED BY <1>1, <1>2, SaveReportInv, ExportFileInv DEF RecordNext, Tick, recordVars

\* An integrity file stands beside every other file of its report, and what it
\* signs is what the row holds (analyze.py, generate_onepager_report and
\* generate_credit_report): whatever requests fail or interleave, no signature
\* is written before the last file, and no row changes after it was saved.
THEOREM SignaturesCover == RecordSpec => []SignatureCovers
<1>1. RecordSpec => []RecordInv
  BY RecordInitInv, RecordNextInv, PTL DEF RecordSpec
<1> QED BY <1>1, PTL DEF RecordInv

-----------------------------------------------------------------------------
(* Questions: an answer about a demo case is made of its texts alone.      *)

Answering == {"meta", "model", "extract", "notice", "done", "answer", "over"}

\* A question that looks for the text of a demo case finds one, and never
\* turns to everybody's documents; what is cited is the case's.
OwnTexts(s) ==
    /\ s = [field \in DOMAIN s |-> s[field]] /\ "op" \in DOMAIN s
    /\ s.op # "silent" => "fixture" \in DOMAIN s
    /\ s.op \in Answering => "hits" \in DOMAIN s
    /\ s.op \in {"load", "load all"} => (s.fixture \in Fixtures => chunks[s.fixture] > 0)
    /\ s.op = "load all" => s.fixture \notin Fixtures
    /\ s.op \in Answering => (s.fixture \in Fixtures => \A k \in s.hits : k[1] = s.fixture)

DocInv ==
    /\ chunks \in [Fixtures \cup 1..MaxUploads -> Nat]
    /\ askers = [c \in Askers |-> askers[c]]
    /\ \A c \in Askers : OwnTexts(askers[c])

\* An index once written is never without a text again.
ChunksKept == \A d \in Fixtures \cup 1..MaxUploads : chunks[d] > 0 => chunks'[d] > 0

LEMMA OwnTextsStay == ASSUME NEW s, OwnTexts(s), ChunksKept PROVE OwnTexts(s)'
BY DEF OwnTexts, ChunksKept

LEMMA SilentOwnsTexts == OwnTexts(Silent) /\ OwnTexts(Silent)'
BY DEF OwnTexts, Silent, Answering

\* The step of one question.
LEMMA OthersAsk ==
    ASSUME DocInv, ChunksKept, NEW c \in Askers, NEW s, Asks(c, s), OwnTexts(s)'
    PROVE  askers' = [x \in Askers |-> askers'[x]] /\ \A x \in Askers : OwnTexts(askers[x])'
<1>1. askers' = [askers EXCEPT ![c] = s]
  BY DEF Asks
<1>2. ASSUME NEW x \in Askers PROVE OwnTexts(askers[x])'
  <2>1. PICK t : t = askers[x]
    OBVIOUS
  <2>2. OwnTexts(t)'
    BY <2>1, OwnTextsStay DEF DocInv
  <2>3. askers'[x] = t \/ askers'[x] = s
    BY <1>1, <2>1 DEF DocInv
  <2>4. CASE askers'[x] = t
    BY <2>2, <2>4 DEF OwnTexts
  <2>5. CASE askers'[x] = s
    BY <2>5 DEF OwnTexts
  <2> QED BY <2>3, <2>4, <2>5
<1> QED BY <1>1, <1>2 DEF DocInv

LEMMA DocInitInv == DocInit => DocInv
<1> SUFFICES ASSUME DocInit PROVE DocInv
  OBVIOUS
<1>1. askers = [c \in Askers |-> Silent] /\ chunks = [d \in Fixtures \cup 1..MaxUploads |-> 0]
  BY DEF DocInit
<1> QED BY <1>1, SilentOwnsTexts DEF DocInv

\* The chunks that are loaded for a demo case are its own, and there are some.
LEMMA LoadedOwn ==
    ASSUME NEW c \in Askers, askers[c].fixture \in Fixtures
    PROVE  /\ \A k \in Loaded(c) : k[1] = askers[c].fixture
           /\ (chunks \in [Fixtures \cup 1..MaxUploads -> Nat] /\ chunks[askers[c].fixture] > 0) => Loaded(c) # {}
<1>1. Loaded(c) = {k \in Table : k[1] = askers[c].fixture}
  BY FixtureAssumption DEF Loaded
<1>2. ASSUME chunks \in [Fixtures \cup 1..MaxUploads -> Nat], chunks[askers[c].fixture] > 0
      PROVE  <<askers[c].fixture, chunks[askers[c].fixture]>> \in Loaded(c)
  BY <1>1, <1>2 DEF Table
<1> QED BY <1>1, <1>2

\* Of what was found the answer is made.
LEMMA FoundOwn ==
    ASSUME NEW c \in Askers, NEW rows, Found(c, rows),
           askers[c].fixture \in Fixtures => \A k \in rows : k[1] = askers[c].fixture
    PROVE  \E s : Asks(c, s) /\ OwnTexts(s)'
<1>1. PICK hits \in SUBSET rows :
        Asks(c, [op |-> IF askers[c].live THEN "meta" ELSE "answer", company |-> askers[c].company,
                 fixture |-> askers[c].fixture, hits |-> hits, pieces |-> <<>>])
  BY DEF Found
<1>2. PICK op, company, fixture :
        op = (IF askers[c].live THEN "meta" ELSE "answer") /\ company = askers[c].company /\ fixture = askers[c].fixture
  OBVIOUS
<1> DEFINE s == [op |-> op, company |-> company, fixture |-> fixture, hits |-> hits, pieces |-> <<>>]
<1>3. OwnTexts(s)'
  BY <1>1, <1>2 DEF OwnTexts, Answering
<1>4. Asks(c, s)
  BY <1>1, <1>2
<1> QED BY <1>3, <1>4

\* An event of an answer leaves its demo case and its chunks as they were.
LEMMA ToldOwn ==
    ASSUME NEW t, OwnTexts(t), t.op \in Answering, NEW op \in Answering, NEW s,
           s = [t EXCEPT !.op = op] \/ \E more : s = [t EXCEPT !.op = op, !.pieces = more]
    PROVE  OwnTexts(s)'
<1>1. {"op", "fixture", "hits"} \subseteq DOMAIN t /\ t = [field \in DOMAIN t |-> t[field]]
  BY DEF OwnTexts, Answering
<1>2. DOMAIN s = DOMAIN t /\ s = [field \in DOMAIN s |-> s[field]] /\ s.op = op /\ s.fixture = t.fixture /\ s.hits = t.hits
  <2>1. CASE s = [t EXCEPT !.op = op]
    BY <1>1, <2>1
  <2>2. ASSUME NEW more, s = [t EXCEPT !.op = op, !.pieces = more]
        PROVE  DOMAIN s = DOMAIN t /\ s = [field \in DOMAIN s |-> s[field]] /\ s.op = op /\ s.fixture = t.fixture
               /\ s.hits = t.hits
    BY <1>1, <2>2
  <2> QED BY <2>1, <2>2
<1> QED BY <1>1, <1>2 DEF OwnTexts, Answering

\* The steps of a question.
LEMMA AnswerStep ==
    ASSUME DocInv, NEW c \in Askers,
           Answer(c) \/ SendMeta(c) \/ SendPiece(c) \/ PiecesEnd(c) \/ ModelFails(c) \/ SendDone(c)
    PROVE  \E s : Asks(c, s) /\ OwnTexts(s)'
<1>1. PICK t : t = askers[c]
  OBVIOUS
<1>2. OwnTexts(t)
  BY <1>1 DEF DocInv
<1>3. t.op \in Answering
  BY <1>1 DEF Answer, SendMeta, SendPiece, PiecesEnd, ModelFails, SendDone, Answering
<1>4. \E op \in Answering : \E s :
        Asks(c, s) /\ (s = [t EXCEPT !.op = op] \/ \E more : s = [t EXCEPT !.op = op, !.pieces = more])
  <2>1. ASSUME NEW op \in Answering, NEW source, NEW claims, Asks(c, Told(c, op, source, claims))
        PROVE  \E s : Asks(c, s) /\ \E more : s = [t EXCEPT !.op = op, !.pieces = more]
    <3>1. PICK more : more = Append(t.pieces, [from |-> source, llm_used |-> claims])
      OBVIOUS
    <3>2. Told(c, op, source, claims) = [t EXCEPT !.op = op, !.pieces = more]
      BY <1>1, <3>1 DEF Told
    <3> QED BY <2>1, <3>2
  <2>2. CASE Answer(c)
    <3>1. \E source, claims : Asks(c, Told(c, "over", source, claims))
      BY <2>2 DEF Answer
    <3> QED BY <2>1, <3>1 DEF Answering
  <2>3. CASE SendMeta(c)
    <3>1. \E op \in {"notice", "model"} : \E source, claims : Asks(c, Told(c, op, source, claims))
      BY <2>3 DEF SendMeta
    <3> QED BY <2>1, <3>1 DEF Answering
  <2>4. CASE SendPiece(c)
    <3>1. \E op \in {"done", "model", "extract"} : \E source, claims : Asks(c, Told(c, op, source, claims))
      BY <2>4 DEF SendPiece
    <3> QED BY <2>1, <3>1 DEF Answering
  <2>5. CASE SendDone(c)
    <3>1. \E source, claims : Asks(c, Told(c, "over", source, claims))
      BY <2>5 DEF SendDone
    <3> QED BY <2>1, <3>1 DEF Answering
  <2>6. CASE PiecesEnd(c) \/ ModelFails(c)
    <3>1. PICK op \in {"done", "extract"} : Asks(c, [t EXCEPT !.op = op])
      BY <1>1, <2>6 DEF PiecesEnd, ModelFails
    <3> QED BY <3>1 DEF Answering
  <2> QED BY <2>2, <2>3, <2>4, <2>5, <2>6
<1>5. PICK op \in Answering : \E s :
        Asks(c, s) /\ (s = [t EXCEPT !.op = op] \/ \E more : s = [t EXCEPT !.op = op, !.pieces = more])
  BY <1>4
<1>6. PICK s : Asks(c, s) /\ (s = [t EXCEPT !.op = op] \/ \E more : s = [t EXCEPT !.op = op, !.pieces = more])
  BY <1>5
<1>7. OwnTexts(s)'
  BY <1>2, <1>3, <1>6, ToldOwn
<1> QED BY <1>6, <1>7

LEMMA LoadStep ==
    ASSUME DocInv, NEW c \in Askers, LoadChunks(c) \/ LoadAllChunks(c)
    PROVE  \E s : Asks(c, s) /\ OwnTexts(s)'
<1>1. PICK t : t = askers[c]
  OBVIOUS
<1>2. OwnTexts(t) /\ chunks \in [Fixtures \cup 1..MaxUploads -> Nat] /\ chunks' = chunks
  BY <1>1 DEF DocInv, LoadChunks, LoadAllChunks
<1>3. CASE LoadChunks(c) /\ Asks(c, [askers[c] EXCEPT !.op = "load all"]) /\ Loaded(c) = {}
  <2> DEFINE s == [t EXCEPT !.op = "load all"]
  <2>1. t.fixture \notin Fixtures
    BY <1>1, <1>2, <1>3, LoadedOwn DEF LoadChunks, OwnTexts
  <2>2. /\ s = [field \in DOMAIN s |-> s[field]] /\ {"op", "fixture"} \subseteq DOMAIN s
        /\ s.op = "load all" /\ s.fixture = t.fixture
    <3>1. {"op", "fixture"} \subseteq DOMAIN t /\ t = [field \in DOMAIN t |-> t[field]]
      BY <1>1, <1>2, <1>3 DEF LoadChunks, OwnTexts
    <3> QED BY <3>1
  <2>3. OwnTexts(s)'
    BY <2>1, <2>2 DEF OwnTexts, Answering
  <2>4. Asks(c, s)
    BY <1>1, <1>3
  <2> QED BY <2>3, <2>4
<1>4. CASE Found(c, Loaded(c))
  BY <1>4, FoundOwn, LoadedOwn
<1>5. CASE LoadAllChunks(c)
  <2>1. askers[c].fixture \notin Fixtures /\ Found(c, Table)
    BY <1>1, <1>2, <1>5 DEF LoadAllChunks, OwnTexts
  <2> QED BY <2>1, FoundOwn
<1> QED BY <1>3, <1>4, <1>5 DEF LoadChunks

LEMMA IndexStep ==
    ASSUME DocInv, NEW c \in Askers, IndexFixture(c)
    PROVE  /\ chunks' \in [Fixtures \cup 1..MaxUploads -> Nat] /\ ChunksKept
           /\ \E s : Asks(c, s) /\ OwnTexts(s)'
<1>1. PICK t : t = askers[c]
  OBVIOUS
<1>2. OwnTexts(t) /\ chunks \in [Fixtures \cup 1..MaxUploads -> Nat]
  BY <1>1 DEF DocInv
<1>3. /\ chunks' \in [Fixtures \cup 1..MaxUploads -> Nat] /\ ChunksKept
      /\ t.fixture \in Fixtures => chunks'[t.fixture] > 0
  <2>1. CASE t.fixture \notin Fixtures
    BY <1>1, <1>2, <2>1 DEF IndexFixture, ChunksKept
  <2>2. CASE t.fixture \in Fixtures
    <3>1. chunks' = [chunks EXCEPT ![t.fixture] = chunks[t.fixture] + 1]
      BY <1>1, <2>2 DEF IndexFixture
    <3> QED BY <1>2, <2>2, <3>1 DEF ChunksKept
  <2> QED BY <2>1, <2>2
<1> DEFINE s == [t EXCEPT !.op = "load"]
<1>4. /\ s = [field \in DOMAIN s |-> s[field]] /\ {"op", "fixture"} \subseteq DOMAIN s
      /\ s.op = "load" /\ s.fixture = t.fixture
  <2>1. {"op", "fixture"} \subseteq DOMAIN t /\ t = [field \in DOMAIN t |-> t[field]]
    BY <1>1, <1>2 DEF IndexFixture, OwnTexts
  <2> QED BY <2>1
<1>5. OwnTexts(s)'
  BY <1>3, <1>4 DEF OwnTexts, Answering
<1>6. Asks(c, s)
  BY <1>1 DEF IndexFixture
<1> QED BY <1>3, <1>5, <1>6

LEMMA AskStep == ASSUME NEW c \in Askers, Ask(c) PROVE \E s : Asks(c, s) /\ OwnTexts(s)'
<1>1. PICK op, company, fixture, live :
        /\ op = (IF fixture = Nobody THEN "load" ELSE "index")
        /\ Asks(c, [op |-> op, company |-> company, fixture |-> fixture, live |-> live])
  BY DEF Ask
<1> DEFINE s == [op |-> op, company |-> company, fixture |-> fixture, live |-> live]
<1>2. OwnTexts(s)'
  BY <1>1, FixtureAssumption DEF OwnTexts, Answering
<1> QED BY <1>1, <1>2

LEMMA DocNextInv == DocInv /\ [DocNext]_docVars => DocInv'
<1> SUFFICES ASSUME DocInv, [DocNext]_docVars PROVE DocInv'
  OBVIOUS
<1>1. CASE UNCHANGED <<chunks, askers>>
  BY <1>1 DEF DocInv, OwnTexts
<1>2. CASE IndexFile
  <2>1. \E written \in BOOLEAN : chunks' = IF written THEN [chunks EXCEPT ![Len(documents)] = @ + 1] ELSE chunks
    BY <1>2 DEF IndexFile
  <2>2. askers' = askers
    BY <1>2 DEF IndexFile
  <2>3. chunks' \in [Fixtures \cup 1..MaxUploads -> Nat] /\ ChunksKept
    <3>1. CASE chunks' = chunks
      BY <3>1 DEF DocInv, ChunksKept
    <3>2. ASSUME NEW d, chunks' = [chunks EXCEPT ![d] = @ + 1]
          PROVE  chunks' \in [Fixtures \cup 1..MaxUploads -> Nat] /\ ChunksKept
      <4> DEFINE D == Fixtures \cup 1..MaxUploads
      <4>1. chunks \in [D -> Nat]
        BY DEF DocInv
      <4> HIDE DEF D
      <4>2. chunks' \in [D -> Nat] /\ \A x \in D : chunks'[x] \in {chunks[x], chunks[x] + 1}
        <5>1. chunks' = [x \in D |-> IF x = d THEN chunks[x] + 1 ELSE chunks[x]]
          BY <3>2, <4>1
        <5>2. \A x \in D : chunks[x] \in Nat /\ chunks[x] + 1 \in Nat
          BY <4>1
        <5> QED BY <5>1, <5>2
      <4>3. \A x \in D : chunks[x] > 0 => chunks'[x] > 0
        BY <4>1, <4>2
      <4> QED BY <4>2, <4>3 DEF ChunksKept, D
    <3> QED BY <2>1, <3>1, <3>2
  <2>4. ASSUME NEW c \in Askers PROVE OwnTexts(askers[c])'
    <3>1. PICK t : t = askers[c]
      OBVIOUS
    <3>2. OwnTexts(t)'
      BY <2>3, <3>1, OwnTextsStay DEF DocInv
    <3>3. t = askers'[c]
      BY <2>2, <3>1
    <3> QED BY <3>2, <3>3 DEF OwnTexts
  <2> QED BY <2>2, <2>3, <2>4 DEF DocInv
<1>3. CASE DocCrash
  <2>1. askers' = [c \in Askers |-> Silent] /\ chunks' = chunks
    BY <1>3 DEF DocCrash
  <2>2. \A c \in Askers : OwnTexts(askers[c])'
    BY <2>1 DEF OwnTexts, Silent, Answering
  <2> QED BY <2>1, <2>2 DEF DocInv
<1>4. ASSUME NEW c \in Askers, NEW s, Asks(c, s), OwnTexts(s)', ChunksKept,
             chunks' \in [Fixtures \cup 1..MaxUploads -> Nat]
      PROVE  DocInv'
  BY <1>4, OthersAsk DEF DocInv
<1>5. ASSUME NEW c \in Askers, IndexFixture(c) PROVE DocInv'
  BY <1>4, <1>5, IndexStep
<1>6. ASSUME NEW c \in Askers,
             \/ Ask(c) \/ LoadChunks(c) \/ LoadAllChunks(c) \/ Answer(c)
             \/ SendMeta(c) \/ SendPiece(c) \/ PiecesEnd(c) \/ ModelFails(c) \/ SendDone(c) \/ Leave(c)
      PROVE  DocInv'
  <2>1. chunks' = chunks
    BY <1>6 DEF Ask, LoadChunks, LoadAllChunks, Answer, SendMeta, SendPiece, PiecesEnd, ModelFails, SendDone, Leave
  <2>2. chunks' \in [Fixtures \cup 1..MaxUploads -> Nat] /\ ChunksKept
    BY <2>1 DEF DocInv, ChunksKept
  <2>3. \E s : Asks(c, s) /\ OwnTexts(s)'
    <3>1. CASE Leave(c)
      <4>1. PICK s : s = Silent
        OBVIOUS
      <4>2. OwnTexts(s)'
        BY <4>1 DEF OwnTexts, Silent, Answering
      <4> QED BY <3>1, <4>1, <4>2 DEF Leave
    <3> QED BY <1>6, <3>1, AskStep, LoadStep, AnswerStep
  <2> QED BY <1>4, <2>2, <2>3
<1> QED BY <1>1, <1>2, <1>3, <1>5, <1>6 DEF DocNext, docVars, TakeFile, ReplaceMetrics, SaveDocument

\* Whoever indexes the text of a demo case anew while others ask about it
\* (ensure_fixture_index, rag/simple.py), the question finds chunks of the
\* case, and so never falls back to everybody's documents.
THEOREM FixtureAnswersStayHome == DocSpec => []FixtureAnswersCiteFixture
<1>1. DocInv => FixtureAnswersCiteFixture
  BY DEF DocInv, FixtureAnswersCiteFixture, Replying, OwnTexts, Answering
<1> QED BY <1>1, DocInitInv, DocNextInv, PTL DEF DocSpec

=============================================================================
