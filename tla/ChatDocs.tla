------------------------------ MODULE ChatDocs ------------------------------
(***************************************************************************)
(* Uploaded files and the questions asked about them (ingest/upload.py,    *)
(* rag/simple.py, llm/agent.py, llm/intent.py, the chat and background     *)
(* handlers of main.py). Uploads run on the event loop, one at a time;     *)
(* questions on the threads of the pool, each transaction and each event   *)
(* of a streamed answer a step.                                            *)
(*                                                                         *)
(* The index of a document is one chunk <<document, version>>: indexing    *)
(* again gives the chunks new ids. Which chunks a question finds depends   *)
(* on its words: any of those that were loaded.                            *)
(***************************************************************************)
EXTENDS Naturals, FiniteSets, Sequences

CONSTANTS
    Companies,
    Fixtures,       \* demo cases that have a text; others have none
    Nobody,         \* no company, no demo case
    Questions,      \* what is asked: company, demo case, and whether live (streamed)
    Askers,         \* threads that answer questions
    MaxUploads,     \* bound on the files
    MaxIndexings,   \* bound on the versions of an index
    MaxPieces       \* bound on the pieces of an answer

ASSUME FixtureAssumption == Nobody \notin Fixtures

VARIABLES
    documents,  \* rows of documents: company, status
    metricsOf,  \* company -> the upload its metrics are of, 0 for none
    chunks,     \* document or demo case -> version of its index, 0 for none
    upload,     \* the file the event loop is taking in
    askers,     \* thread -> its question, or the answer it gave last
    acted,      \* what the agent did last
    session     \* the background check opened last: its company's name and metrics

docVars == <<documents, metricsOf, chunks, upload, askers>>
agentVars == <<acted, session>>

NoUpload == [op |-> "none"]
Silent == [op |-> "silent"]
Asks(c, state) == askers' = [askers EXCEPT ![c] = state]
Table == {<<d, chunks[d]>> : d \in {x \in DOMAIN chunks : chunks[x] > 0}}

DocInit ==
    /\ documents = <<>>
    /\ metricsOf = [o \in Companies |-> 0]
    /\ chunks = [d \in Fixtures \cup 1..MaxUploads |-> 0]
    /\ upload = NoUpload
    /\ askers = [c \in Askers |-> Silent]

-----------------------------------------------------------------------------
(* ingest_metrics_file *)

\* A file without metrics leaves a failed document and an error.
TakeFile ==
    /\ upload = NoUpload /\ Len(documents) < MaxUploads
    /\ \E o \in Companies, parses \in BOOLEAN :
         IF parses THEN upload' = [op |-> "metrics", company |-> o] /\ UNCHANGED documents
         ELSE documents' = Append(documents, [company |-> o, status |-> "failed"]) /\ UNCHANGED upload
    /\ UNCHANGED <<metricsOf, chunks, askers>>

\* replace_metrics: the old ones go and the new ones come in one transaction.
\* The passages of a PDF follow in another, which nothing here reads.
ReplaceMetrics ==
    /\ upload.op = "metrics"
    /\ metricsOf' = [metricsOf EXCEPT ![upload.company] = Len(documents) + 1]
    /\ upload' = [upload EXCEPT !.op = "document"]
    /\ UNCHANGED <<documents, chunks, askers>>

SaveDocument ==
    /\ upload.op = "document"
    /\ documents' = Append(documents, [company |-> upload.company, status |-> "parsed"])
    /\ upload' = [upload EXCEPT !.op = "index"]
    /\ UNCHANGED <<metricsOf, chunks, askers>>

\* index_text; whatever goes wrong in it is swallowed, and no text is no index.
IndexFile ==
    /\ upload.op = "index"
    /\ \E written \in BOOLEAN :
         chunks' = IF written THEN [chunks EXCEPT ![Len(documents)] = @ + 1] ELSE chunks
    /\ upload' = NoUpload
    /\ UNCHANGED <<documents, metricsOf, askers>>

\* The process dies; what was committed stays.
DocCrash ==
    /\ upload # NoUpload \/ \E c \in Askers : askers[c] # Silent
    /\ upload' = NoUpload
    /\ askers' = [c \in Askers |-> Silent]
    /\ UNCHANGED <<documents, metricsOf, chunks>>

-----------------------------------------------------------------------------
(* Questions: ask_company and stream_ask_company *)

Ask(c) ==
    /\ askers[c] = Silent
    /\ \E q \in Questions :
         Asks(c, [op |-> IF q.fixture = Nobody THEN "load" ELSE "index",
                  company |-> q.company, fixture |-> q.fixture, live |-> q.live])
    /\ UNCHANGED <<documents, metricsOf, chunks, upload>>

\* mutant: the old chunks go in a transaction of their own
IndexFixture_torn(c) ==
    /\ askers[c].op \in {"index", "insert"} /\ askers[c].fixture \in Fixtures
    /\ \/ /\ askers[c].op = "index" /\ chunks[askers[c].fixture] < MaxIndexings
          /\ chunks' = [chunks EXCEPT ![askers[c].fixture] = 0]
          /\ Asks(c, [askers[c] EXCEPT !.op = "insert"])
       \/ /\ askers[c].op = "insert"
          /\ chunks' = [chunks EXCEPT ![askers[c].fixture] = @ + 1]
          /\ Asks(c, [askers[c] EXCEPT !.op = "load"])
    /\ UNCHANGED <<documents, metricsOf, upload>>

\* ensure_fixture_index: the text of the case is indexed again for each question.
IndexFixture(c) ==
    /\ askers[c].op = "index"
    /\ IF askers[c].fixture \notin Fixtures THEN UNCHANGED chunks
       ELSE /\ chunks[askers[c].fixture] < MaxIndexings
            /\ chunks' = [chunks EXCEPT ![askers[c].fixture] = @ + 1]
    /\ Asks(c, [askers[c] EXCEPT !.op = "load"])
    /\ UNCHANGED <<documents, metricsOf, upload>>

\* _load_chunks of the case, or of everything.
Loaded(c) == IF askers[c].fixture = Nobody THEN Table ELSE {k \in Table : k[1] = askers[c].fixture}

\* The three best of the chunks, and the answer made of them.
Found(c, rows) ==
    \E hits \in {H \in SUBSET rows : Cardinality(H) <= 3} :
        Asks(c, [op |-> IF askers[c].live THEN "meta" ELSE "answer", company |-> askers[c].company,
                 fixture |-> askers[c].fixture, hits |-> hits, pieces |-> <<>>])

LoadChunks(c) ==
    /\ askers[c].op = "load"
    /\ IF Loaded(c) = {} /\ askers[c].company # Nobody
       THEN Asks(c, [askers[c] EXCEPT !.op = "load all"])
       ELSE Found(c, Loaded(c))
    /\ UNCHANGED <<documents, metricsOf, chunks, upload>>

\* Nothing was loaded, and a company is given: a second look, at everything.
LoadAllChunks(c) ==
    /\ askers[c].op = "load all"
    /\ Found(c, Table)
    /\ UNCHANGED <<documents, metricsOf, chunks, upload>>

Told(c, type, source, claims) ==
    [askers[c] EXCEPT !.op = type, !.pieces = Append(@, [from |-> source, llm_used |-> claims])]

\* ask_company in one piece: a notice, what the model says, or extracts. An
\* empty answer of the model is replaced, and still called the model's.
Answer(c) ==
    /\ askers[c].op = "answer"
    /\ IF askers[c].hits = {} THEN Asks(c, Told(c, "over", "notice", FALSE))
       ELSE \/ Asks(c, Told(c, "over", "model", TRUE))
            \/ \E claims \in BOOLEAN : Asks(c, Told(c, "over", "extract", claims))
    /\ UNCHANGED <<documents, metricsOf, chunks, upload>>

\* The first event of a stream has the citations.
SendMeta(c) ==
    /\ askers[c].op = "meta"
    /\ IF askers[c].hits = {} THEN Asks(c, Told(c, "notice", "meta", FALSE))
       ELSE Asks(c, Told(c, "model", "meta", TRUE))
    /\ UNCHANGED <<documents, metricsOf, chunks, upload>>

From(c, source) == Len(SelectSeq(askers[c].pieces, LAMBDA e : e.from = source))

\* A piece of the model's answer, or of the extracts, or the notice.
SendPiece(c) ==
    /\ askers[c].op \in {"model", "extract", "notice"}
    /\ From(c, askers[c].op) < MaxPieces
    /\ Asks(c, Told(c, IF askers[c].op = "notice" THEN "done" ELSE askers[c].op, askers[c].op, FALSE))
    /\ UNCHANGED <<documents, metricsOf, chunks, upload>>

\* The model has said all, be it nothing; the extracts are never empty.
PiecesEnd(c) ==
    /\ askers[c].op = "model" \/ (askers[c].op = "extract" /\ From(c, "extract") > 0)
    /\ Asks(c, [askers[c] EXCEPT !.op = "done"])
    /\ UNCHANGED <<documents, metricsOf, chunks, upload>>

\* The model is not configured, refuses, or breaks off: extracts instead.
ModelFails(c) ==
    /\ askers[c].op = "model"
    /\ Asks(c, [askers[c] EXCEPT !.op = "extract"])
    /\ UNCHANGED <<documents, metricsOf, chunks, upload>>

SendDone(c) ==
    /\ askers[c].op = "done"
    /\ Asks(c, Told(c, "over", "done", FALSE))
    /\ UNCHANGED <<documents, metricsOf, chunks, upload>>

\* The page has its answer, or leaves before.
Leave(c) ==
    /\ askers[c].op \in {"model", "extract", "notice", "done", "over"}
    /\ Asks(c, Silent)
    /\ UNCHANGED <<documents, metricsOf, chunks, upload>>

DocNext ==
    \/ TakeFile \/ ReplaceMetrics \/ SaveDocument \/ IndexFile
    \/ \E c \in Askers :
         \/ Ask(c) \/ IndexFixture(c) \/ LoadChunks(c) \/ LoadAllChunks(c) \/ Answer(c)
         \/ SendMeta(c) \/ SendPiece(c) \/ PiecesEnd(c) \/ ModelFails(c) \/ SendDone(c) \/ Leave(c)
    \/ DocCrash

\* A generator that is asked for its next event gives one.
NextEvent(c) == SendMeta(c) \/ SendPiece(c) \/ PiecesEnd(c) \/ ModelFails(c) \/ SendDone(c)
DocFairness == \A c \in Askers : WF_docVars(NextEvent(c))

DocSpec == DocInit /\ [][DocNext]_docVars /\ DocFairness

-----------------------------------------------------------------------------
(* The agent: classify_intent and handle_agent_message *)

\* What the words of a message ask for, in the order they are looked for.
Intents == <<"add_rule_nl", "analyze_risk", "gen_report", "start_dd", "ask_doc">>
Words == {Intents[i] : i \in DOMAIN Intents} \cup {"export"}

_heuristic_intent(words) ==
    LET named == {i \in DOMAIN Intents : Intents[i] \in words}
    IN  IF named = {} THEN "unknown" ELSE Intents[CHOOSE i \in named : \A j \in named : i <= j]

\* The model's JSON: an intent, perhaps one that does not exist, and confirm
\* as a boolean, as the text "false", or missing. An intent "none" is no JSON.
Drafts == [intent : {"none", "gen_report", "analyze_risk", "unknown", "unheard"}, confirm : {"missing", "true", "false", "text"}]

classify_intent(words, draft) ==
    IF _heuristic_intent(words) # "unknown"
    THEN [intent |-> _heuristic_intent(words), confirm |-> IF "export" \in words THEN "true" ELSE "false"]
    ELSE IF draft.intent \in {"none", "unheard"} THEN [intent |-> "ask_doc", confirm |-> "missing"]
    ELSE draft

AgentInit ==
    /\ acted = [intent |-> "none", exported |-> FALSE, wanted |-> FALSE]
    /\ session = [shown |-> "none", stored |-> "none", metrics |-> "none"]

\* The intent is carried out, or a company asked for: a rule is compiled and
\* saved, an analysis run, a report made, a workflow started, or a question put
\* to the documents. bool() of any text is true.
handle_agent_message ==
    /\ \E words \in SUBSET Words, draft \in Drafts, target \in BOOLEAN :
         LET classified == classify_intent(words, draft)
             intent == IF ~target /\ classified.intent \in {"analyze_risk", "gen_report"} THEN "clarify"
                       ELSE IF classified.intent = "unknown" THEN "ask_doc" ELSE classified.intent
         IN  acted' = [intent |-> intent,
                       exported |-> intent = "gen_report" /\ classified.confirm \in {"true", "text"},
                       wanted |-> classified.confirm = "true"]
    /\ UNCHANGED session

\* start_background_session: the company is stored under the name typed; the
\* register's name of the same brand is shown. ensure_company finds the row
\* there and leaves it. The name of a demo case brings its metrics along.
start_background_session ==
    /\ \E register \in {"not configured", "failed", "same name", "same brand", "other brand"}, demo \in BOOLEAN :
         session' = [shown |-> IF register = "same brand" THEN "registered" ELSE "typed", stored |-> "typed",
                     metrics |-> IF demo THEN "demo case" ELSE "none"]
    /\ UNCHANGED acted

AgentNext == handle_agent_message \/ start_background_session

AgentSpec == AgentInit /\ [][AgentNext]_agentVars

-----------------------------------------------------------------------------
(* Properties *)

Replying(c) == askers[c].op \in {"meta", "model", "extract", "notice", "done", "answer", "over"}

\* An answer about a demo case is made of the texts of that case alone, however
\* many questions index it anew at the same time, and whatever is uploaded: the
\* old chunks go and the new ones come in one transaction, so that no question
\* finds the case without a text and turns to everybody's documents.
FixtureAnswersCiteFixture ==
    \A c \in Askers : (Replying(c) /\ askers[c].fixture \in Fixtures) => \A k \in askers[c].hits : k[1] = askers[c].fixture

\* A streamed answer that has begun ends with its last event, though the model
\* refuses or breaks off, unless the page leaves or the process dies.
AnswersEnd ==
    \A c \in Askers : (askers[c].op = "meta") ~> (askers[c].op \in {"silent", "over"})

\* Chunks are of documents on record that were parsed, crashes included.
IndexedIsParsed ==
    \A d \in 1..MaxUploads : chunks[d] > 0 => d \in DOMAIN documents /\ documents[d].status = "parsed"

\* doc/数据来源与合规说明.md: the index serves the questions of its own session.
\* Without a demo case every document is searched.
OwnDocumentsOnly ==
    \A c \in Askers : (Replying(c) /\ askers[c].company # Nobody) =>
        \A k \in askers[c].hits : k[1] \notin Fixtures => documents[k[1]].company = askers[c].company

\* llm_used tells whether the model has spoken.
MetaTellsModel ==
    \A c \in Askers : (Replying(c) /\ askers[c].op = "over") =>
        LET told == askers[c].pieces
        IN  (\E i \in DOMAIN told : told[i].llm_used) <=> (\E i \in DOMAIN told : told[i].from = "model")

\* A page gets one answer. After a break the extracts follow what was sent.
OneVoice ==
    \A c \in Askers : Replying(c) => ~(From(c, "model") > 0 /\ From(c, "extract") > 0)

\* A streamed answer says something: an empty answer of the model is replaced
\* in one piece, and not in a stream.
AnswersSaySomething ==
    \A c \in Askers : (Replying(c) /\ askers[c].op = "over") =>
        \E i \in DOMAIN askers[c].pieces : askers[c].pieces[i].from \in {"model", "extract", "notice"}

\* What is cited can be looked up. Every question about a demo case gives its
\* chunks new ids.
CitationsResolve == \A c \in Askers : Replying(c) => askers[c].hits \subseteq Table

\* Metrics on file are of a document on file; a crash between the two leaves
\* them without.
MetricsHaveDocument ==
    \A o \in Companies : metricsOf[o] > 0 =>
        \/ metricsOf[o] \in DOMAIN documents /\ documents[metricsOf[o]].company = o
        \/ upload # NoUpload

\* Exports are confirmed by a person (doc/13-features-and-differentiators.md):
\* the text "false" of a model's JSON confirms.
ExportsAreWanted == acted.exported => acted.wanted

\* A background check is on file under the name it shows.
SessionNameIsStored == session.stored = session.shown

=============================================================================
