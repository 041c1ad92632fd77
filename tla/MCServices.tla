----------------------------- MODULE MCServices -----------------------------
(***************************************************************************)
(* The services of the API process side by side: accounts, rules, model    *)
(* providers, records, request guards, documents and the agent. They share *)
(* the process and the database file but no row and no variable, so that   *)
(* no step of one can matter to another: a behaviour of the composition    *)
(* moves one part, and TLC explores the sum of their states in place of    *)
(* the product.                                                            *)
(***************************************************************************)
EXTENDS Identity, RuleStore, ModelProviders, RecordStore, RequestGuards, ChatDocs

CONSTANTS m1, m2, p1, p2, c1, c2, k1, k2, R001, R901, risky, empty

VARIABLE part   \* the part that moves

servicesVars == <<part, identityVars, ruleVars, providerVars, recordVars, guardVars, docVars, agentVars>>

-----------------------------------------------------------------------------
(* Instances *)

Installation(pool, mails, passwords, tokens, open, issued, keys) ==
    [pool |-> pool, mails |-> mails, passwords |-> passwords, mailTokens |-> tokens,
     sessions |-> open, bearers |-> issued, secrets |-> keys]

\* Two threads and two addresses race for the bootstrap; one thread and one
\* address live through everything; two passwords, two mails to one address.
MCSizes ==
    {Installation({c1, c2}, {m1, m2}, {p1}, 1, 0, 0, 0),
     Installation({c1}, {m1, m2}, {p1}, 1, 0, 0, 0),
     Installation({c1, c2}, {m1}, {p1, p2}, 1, 0, 0, 0),
     Installation({c1}, {m1}, {p1, p2}, 2, 1, 1, 0),
     Installation({c1}, {m1}, {p1}, 1, 1, 1, 2)}

\* A share written with a percent sign, and a comparison the patterns miss.
Sentence(metric, word, number, percent, severity) ==
    [metric |-> metric, word |-> word, number |-> number, percent |-> percent, severity |-> severity]
MCSentences ==
    {Sentence("goodwill share", "above", 2500, TRUE, "none"), Sentence("debt ratio", "unheard", 90, FALSE, "none")}
MCLlmDrafts ==
    [s \in MCSentences |->
        IF s.metric = "debt ratio" THEN {NoDraft}
        ELSE {[metric |-> "goodwill share", op |-> ">", value |-> 25, severity |-> "high", dimension |-> "financial"]}]

\* The hash tells the texts apart in the first process and not in the next.
MCHash(condition, salt) == IF salt = 0 THEN <<salt, condition>> ELSE <<salt>>

\* For PercentsAreFractions and SavesKeepOthers: half a per cent, which stays
\* as it is written, and another share.
MCSmallShares == {Sentence("goodwill share", "above", n, TRUE, "none") : n \in {50, 2500}}
MCNoDrafts == [s \in MCSmallShares |-> {NoDraft}]

MCPools == {{c1}, {c1, c2}}

\* About a demo case and about everything, streamed; about a demo case that
\* has no text, in one piece.
Question(company, fixture, live) == [company |-> company, fixture |-> fixture, live |-> live]
MCQuestions == {Question(m1, risky, TRUE), Question(m1, Nobody, TRUE), Question(m1, empty, FALSE)}

-----------------------------------------------------------------------------
ServicesInit ==
    /\ part \in {"identity", "rules", "providers", "records", "guards", "documents", "agent"}
    /\ IdentityInit /\ RuleStoreInit /\ ProviderInit /\ RecordInit /\ GuardInit
    /\ DocInit /\ AgentInit
    /\ part # "identity" => size = Installation({c1}, {m1}, {p1}, 1, 1, 1, 2) /\ verification
    /\ part # "records" => DOMAIN writers = {c1}
    /\ part # "guards" => DOMAIN requests = {c1}

ServicesNext ==
    \/ /\ part = "identity" /\ IdentityNext
       /\ UNCHANGED <<part, ruleVars, providerVars, recordVars, guardVars, docVars, agentVars>>
    \/ /\ part = "rules" /\ RuleStoreNext
       /\ UNCHANGED <<part, identityVars, providerVars, recordVars, guardVars, docVars, agentVars>>
    \/ /\ part = "providers" /\ ProviderNext
       /\ UNCHANGED <<part, identityVars, ruleVars, recordVars, guardVars, docVars, agentVars>>
    \/ /\ part = "records" /\ RecordNext
       /\ UNCHANGED <<part, identityVars, ruleVars, providerVars, guardVars, docVars, agentVars>>
    \/ /\ part = "guards" /\ GuardNext
       /\ UNCHANGED <<part, identityVars, ruleVars, providerVars, recordVars, docVars, agentVars>>
    \/ /\ part = "documents" /\ DocNext
       /\ UNCHANGED <<part, identityVars, ruleVars, providerVars, recordVars, guardVars, agentVars>>
    \/ /\ part = "agent" /\ AgentNext
       /\ UNCHANGED <<part, identityVars, ruleVars, providerVars, recordVars, guardVars, docVars>>

ServicesSpec == ServicesInit /\ [][ServicesNext]_servicesVars

\* A generator that is asked for its next event is fair.
ServicesLiveSpec == ServicesSpec /\ DocFairness

=============================================================================
