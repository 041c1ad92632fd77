------------------------------ MODULE LlmClient ------------------------------
(***************************************************************************)
(* The LLM client, packages/bizatlas/llm/client.py, as the threads of the  *)
(* server share it: the gate that bounds the calls to the model service,   *)
(* the retries behind it, the fall-back to the curl program, and the cache *)
(* of answers.                                                             *)
(*                                                                         *)
(* All calls ask the same question of a model of the same name.  A plain   *)
(* call finds its user's provider in the request context and passes no     *)
(* provider argument; a streamed call passes it (rag/simple.py, main.py).  *)
(***************************************************************************)
EXTENDS Naturals, FiniteSets

CONSTANTS
    Caller,                 \* the threads that may call at once
    Provider,               \* the users' own providers
    Platform,               \* the provider of the platform settings
    Nobody,                 \* no provider: the origin of no answer
    Slots,                  \* _MAX_CONCURRENCY
    MaxRetries              \* _MAX_RETRIES

ASSUME GateAssumption ==
    /\ Slots \in Nat \ {0}
    /\ MaxRetries \in Nat
    /\ Platform \notin Provider
    /\ Nobody \notin Provider \cup {Platform}

Owner == Provider \cup {Platform}

VARIABLES
    free,                   \* the value of _llm_gate
    pc, mode, who,          \* where each call is; how and with whose key
    attempts,               \* retries of the call so far
    text, origin,           \* what it has of an answer, and who gave it
    cache                   \* llm_cache: by key, a text and who gave it

call == <<mode, who, attempts>>
got  == <<text, origin>>
vars == <<free, pc, call, got, cache>>

Texts == {"nothing", "part", "whole", "garbled"}
Empty == [text |-> "nothing", origin |-> Nobody]
Entry == [text : Texts, origin : Owner \cup {Nobody}]

Goto(c, p) == pc' = [pc EXCEPT ![c] = p]

(* _cache_key takes the argument, not the provider of the context. *)
Key_Model(c) == Platform                                             \* mutant
Key(c) == IF mode[c] = "stream" THEN who[c] ELSE Platform

(* The gate is held while a request is sent and while it backs off, and by *)
(* a stream until its last piece.                                          *)
Holds(c) == pc[c] \in {"post", "backoff"} \/ (pc[c] = "curl" /\ mode[c] = "stream")

Init ==
    /\ free = Slots
    /\ pc = [c \in Caller |-> "idle"]
    /\ mode = [c \in Caller |-> "plain"]
    /\ who = [c \in Caller |-> Platform]
    /\ attempts = [c \in Caller |-> 0]
    /\ text = [c \in Caller |-> "nothing"]
    /\ origin = [c \in Caller |-> Nobody]
    /\ cache = [k \in Owner |-> Empty]
-----------------------------------------------------------------------------
Call(c, m, p) ==
    /\ pc[c] = "idle"
    /\ mode' = [mode EXCEPT ![c] = m]
    /\ who' = [who EXCEPT ![c] = p]
    /\ Goto(c, "lookup")
    /\ UNCHANGED <<free, attempts, got, cache>>

(* A row is a hit even when its text is empty. *)
Hit(c) ==
    /\ pc[c] = "lookup"
    /\ cache[Key(c)] # Empty
    /\ text' = [text EXCEPT ![c] = cache[Key(c)].text]
    /\ origin' = [origin EXCEPT ![c] = cache[Key(c)].origin]
    /\ Goto(c, "served")
    /\ UNCHANGED <<free, call, cache>>

(* No row, or an error of the store, which counts as no row. *)
Miss(c) ==
    /\ pc[c] = "lookup"
    /\ Goto(c, "wait")
    /\ UNCHANGED <<free, call, got, cache>>

(* _acquire_gate *)
Acquire(c) ==
    /\ pc[c] = "wait"
    /\ free > 0
    /\ free' = free - 1
    /\ Goto(c, "post")
    /\ UNCHANGED <<call, got, cache>>

AcquireTimesOut(c) ==
    /\ pc[c] = "wait"
    /\ free = 0
    /\ Goto(c, "failed")
    /\ UNCHANGED <<free, call, got, cache>>

Release == free' = free + 1
-----------------------------------------------------------------------------
(* _post_with_retry and _chat_completion_sync. *)
Posting(c, m) == pc[c] = "post" /\ mode[c] = m

Gets(c, t) ==
    /\ text' = [text EXCEPT ![c] = t]
    /\ origin' = [origin EXCEPT ![c] = who[c]]

Answered(c) ==
    /\ Posting(c, "plain")
    /\ Release
    /\ Gets(c, "whole")
    /\ Goto(c, "store")
    /\ UNCHANGED <<call, cache>>

(* An answer without content is not retried. *)
Unusable(c) ==
    /\ Posting(c, "plain")
    /\ Release
    /\ Goto(c, "failed")
    /\ UNCHANGED <<call, got, cache>>

(* A retryable status or a broken connection: sleep with the gate held. *)
BackOff(c) ==
    /\ Posting(c, "plain")
    /\ attempts[c] < MaxRetries
    /\ Goto(c, "backoff")
    /\ UNCHANGED <<free, call, got, cache>>

TryAgain_Uncounted(c) ==                                             \* mutant
    /\ pc[c] = "backoff"
    /\ Release
    /\ Goto(c, "wait")
    /\ UNCHANGED <<call, got, cache>>

TryAgain(c) ==
    /\ pc[c] = "backoff"
    /\ Release
    /\ attempts' = [attempts EXCEPT ![c] = @ + 1]
    /\ Goto(c, "wait")
    /\ UNCHANGED <<mode, who, got, cache>>

(* Retries exhausted, or a status that is not retried: curl, off the gate. *)
FallBack(c) ==
    /\ Posting(c, "plain")
    /\ Release
    /\ Goto(c, "curl")
    /\ UNCHANGED <<call, got, cache>>

Curl(c) ==
    /\ pc[c] = "curl"
    /\ mode[c] = "plain"
    /\ \/ Gets(c, "whole") /\ Goto(c, "store")
       \/ Goto(c, "failed") /\ UNCHANGED got
    /\ UNCHANGED <<free, call, cache>>
-----------------------------------------------------------------------------
(* _chat_completion_stream: the pieces go to the consumer as they come. *)
Piece(c) ==
    /\ Posting(c, "stream")
    /\ text[c] = "nothing"
    /\ Gets(c, "part")
    /\ UNCHANGED <<free, pc, call, cache>>

(* The service ends the stream; it may have sent no content at all. *)
StreamEnds(c) ==
    /\ Posting(c, "stream")
    /\ Release
    /\ Gets(c, IF text[c] = "part" THEN "whole" ELSE "part")
    /\ Goto(c, "store")
    /\ UNCHANGED <<call, cache>>

StreamBreaks(c) ==
    /\ Posting(c, "stream")
    /\ Goto(c, "curl")
    /\ UNCHANGED <<free, call, got, cache>>

(* curl answers from the start, behind the pieces already sent; how it     *)
(* exits is not looked at.                                                 *)
CurlStream(c) ==
    /\ pc[c] = "curl"
    /\ mode[c] = "stream"
    /\ Release
    /\ \E t \in {"part", "whole"} :
           Gets(c, IF text[c] = "nothing" THEN t ELSE "garbled")
    /\ Goto(c, "store")
    /\ UNCHANGED <<call, cache>>

CurlStreamFails(c) ==
    /\ pc[c] = "curl"
    /\ mode[c] = "stream"
    /\ Release
    /\ Goto(c, "failed")
    /\ UNCHANGED <<call, got, cache>>

(* The consumer closes the generator at a piece, be it the first of curl. *)
AtPiece(c) ==
    /\ mode[c] = "stream"
    /\ pc[c] = "curl" \/ (pc[c] = "post" /\ text[c] # "nothing")

Abandon_Unreleased(c) ==                                             \* mutant
    /\ AtPiece(c)
    /\ Goto(c, "failed")
    /\ UNCHANGED <<free, call, got, cache>>

Abandon(c) ==
    /\ AtPiece(c)
    /\ Release
    /\ Goto(c, "failed")
    /\ UNCHANGED <<call, got, cache>>
-----------------------------------------------------------------------------
(* _cache_put replaces the row; an error of the store is swallowed. *)
Store(c) ==
    /\ pc[c] = "store"
    /\ cache' \in {cache, [cache EXCEPT ![Key(c)] =
                              [text |-> text[c], origin |-> origin[c]]]}
    /\ Goto(c, "served")
    /\ UNCHANGED <<free, call, got>>

(* The call returns or raises LLMUnavailable. *)
Return(c) ==
    /\ pc[c] \in {"served", "failed"}
    /\ attempts' = [attempts EXCEPT ![c] = 0]
    /\ text' = [text EXCEPT ![c] = "nothing"]
    /\ origin' = [origin EXCEPT ![c] = Nobody]
    /\ Goto(c, "idle")
    /\ UNCHANGED <<free, mode, who, cache>>

(* A row passes its age, or the rows of other questions push it out. *)
Expire(k) ==
    /\ cache' = [cache EXCEPT ![k] = Empty]
    /\ UNCHANGED <<free, pc, call, got>>

Step(c) ==
    \/ Hit(c) \/ Miss(c) \/ Acquire(c) \/ AcquireTimesOut(c)
    \/ Answered(c) \/ Unusable(c) \/ BackOff(c) \/ TryAgain(c) \/ FallBack(c) \/ Curl(c)
    \/ Piece(c) \/ StreamEnds(c) \/ StreamBreaks(c) \/ CurlStream(c)
    \/ CurlStreamFails(c) \/ Abandon(c)
    \/ Store(c) \/ Return(c)

Next ==
    \/ \E c \in Caller, m \in {"plain", "stream"}, p \in Owner : Call(c, m, p)
    \/ \E c \in Caller : Step(c)
    \/ \E k \in Owner : Expire(k)

(* Threads run, requests and curl have timeouts, waiting for the gate has  *)
(* one too.                                                                *)
Fairness == \A c \in Caller : WF_vars(Step(c))

Spec == Init /\ [][Next]_vars /\ Fairness
-----------------------------------------------------------------------------
TypeOK ==
    /\ free \in Nat
    /\ pc \in [Caller -> {"idle", "lookup", "wait", "post", "backoff", "curl",
                          "store", "served", "failed"}]
    /\ mode \in [Caller -> {"plain", "stream"}]
    /\ who \in [Caller -> Owner]
    /\ attempts \in [Caller -> 0 .. MaxRetries]
    /\ text \in [Caller -> Texts]
    /\ origin \in [Caller -> Owner \cup {Nobody}]
    /\ cache \in [Owner -> Entry]

(* No path through retries, fall-backs, failures and consumers that go     *)
(* away loses a slot of the gate or gives one back twice.                  *)
SlotsConserved == free + Cardinality({c \in Caller : Holds(c)}) = Slots

(* A streamed answer for a user's own provider was given by that provider, *)
(* whatever other calls have put in the cache meanwhile.                   *)
StreamedAnswersOwn ==
    \A c \in Caller :
        pc[c] = "served" /\ mode[c] = "stream" /\ who[c] # Platform => origin[c] = who[c]

(* Every call returns or raises: neither the gate nor the retries hold it  *)
(* for ever.                                                               *)
CallsReturn == \A c \in Caller : pc[c] # "idle" ~> pc[c] = "idle"
-----------------------------------------------------------------------------
(* What the code says of itself and does not keep. *)

(* "Calls queue on the client's side": no more requests run at the service *)
(* than the gate has slots.                                                *)
UpstreamBounded == Cardinality({c \in Caller : pc[c] \in {"post", "curl"}}) <= Slots

(* "The key keeps the answers of different users and keys apart." *)
AnswersNotMixed == \A c \in Caller : pc[c] = "served" => origin[c] = who[c]

(* "A hit replays the complete answer": the cache holds complete answers.  *)
CachedAnswersWhole == \A k \in Owner : cache[k] # Empty => cache[k].text = "whole"
=============================================================================
