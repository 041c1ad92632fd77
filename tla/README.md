# Verification of BizAtlas

BizAtlas scores the credit risk of small companies: it collects their metrics,
grades them, writes reports with the help of a language model, and drives a
pre-loan due-diligence process in which a human must review high-risk
conclusions before anything is submitted.  This directory holds TLA+ models of
the parts of it that are concurrent, fail half way or follow a protocol, the
TLC configurations that check them on small instances, and proofs, checked by
TLAPS, of the properties that matter most.

Paths below are relative to `src/`; `bizatlas/` stands for
`packages/bizatlas/`.

## 1. The system

One uvicorn process (`apps/api/app/main.py`) serves the API.  Coroutine
endpoints run on its event loop, plain ones on a thread pool.  State lives in
one relational database (`bizatlas/data/repo.py`) reached with short
transactions, in a few in-process objects (the gate of the LLM client, the
circuit breakers, the rate limiter's windows), in files (exported reports, the
YAML rules), and, when `TEMPORAL_ENABLED` is set, in the event histories of a
Temporal service whose worker runs workflows and activities.

| part | state it keeps | operations | what is hard | what makes it correct |
|---|---|---|---|---|
| Due diligence, synchronous engine (`bizatlas/workflow/due_diligence.py`) | one `workflows` row: stage and payload (analysis, report, review flag and decision, history) | create, advance(sync, mark, analyze, report, submit), review | every request reads the row and saves it last, after exports that are committed on their own; data and rules change under a request; the stages can be walked in any order | a high-risk conclusion is not submitted without an approval; a submission has its export |
| Due diligence, Temporal (`bizatlas/temporal/workflows/due_diligence.py`, `activities.py`) | the workflow's payload; a mirror row | `run()`, updates `advance` and `review`, their activities | handlers interleave at every await; activities run at least once and may give up; a handler that raises late fails the workflow task | as above; the mirror tells the truth; every update is answered |
| HTTP gateway to Temporal (`apps/api/app/temporal_gateway.py`) | none of its own | start, advance, review, detail; pipeline start, poll and stream | two names of one workflow; queries before the workflow knows itself; waiting for results that never come | answers agree with the run and with the old engine |
| Risk-analysis workflow and its readers (`bizatlas/temporal/workflows/risk_analysis.py`) | `progress`, `status`, `result` | `run()` with six activities; queries | each fact a query of its own while the run moves on; a failed run | the page gets every event once, in order, and its stream ends |
| In-process analysis stream (`bizatlas/orchestrator/stream.py`, `main.py`) | a queue between a thread and a response | generator steps, put, take, disconnect | an exception in another thread than the response; a page that leaves | as above |
| Circuit breaker (`bizatlas/tools/circuit.py`) | state, failure and success counts, time stamp; no lock | `call`, `reset` | threads between any two calls it makes; late results of old calls | trips when it must, lets nothing through while open, recovers |
| LLM client (`bizatlas/llm/client.py`) | a semaphore, the table of cached answers | plain and streamed calls, retries, curl fall-back | slots on every path; streams that break or are abandoned; keys of cached answers | bounded concurrency, no answers mixed up, every call ends |
| Tool registry, permissions, sandbox (`bizatlas/tools/`) | scopes, one breaker per tool, child processes | `call` | breaker creation; join before the result is read; a sandboxed tool by-passes the breaker | every call ends; its outcome is the tool's |
| Analysis kernel, scoring, credit decision, evidence (`bizatlas/orchestrator/analyze.py`, `risk/`, `credit/`, `kg/`, `industry/`) | a row of the score history | `run_analyze`, reports, stress, admission decision | layers of different completeness; overrides one after the other; rules that change between two readings | bad news never helps, a veto stays a veto, what is shown adds up to what is decided |
| Agents, number gate (`bizatlas/agents/`, `llm/polish.py`, `llm/number_gate.py`) | none | classify, plan, research, write; polish, gate | a model that invents, a search that fails | gaps and invented figures are told |
| Score history, reports (`bizatlas/data/repo.py`) | tables, files under the export directory | `save_risk_score`, `save_report`, the exports | read-then-insert; a row committed before its files | the history has no repeats; row, files and signature are of one payload |
| Rules (`bizatlas/rules/`) | a YAML file and a table | compile, save, activate, match | two copies written one after the other; ids that change with the process | a saved rule loads; nothing scores before somebody asked |
| Identity (`bizatlas/identity/`, `apps/api/auth_deps.py`) | users, sessions, mail tokens, API keys | register, log in, refresh, reset, verify, bootstrap, create, rotate, revoke | check and write in separate transactions | passwords and verified addresses are proven; retired secrets stay dead |
| Model providers of users (`bizatlas/identity/model_providers.py`) | rows with a status | try, store, mark, delete, choose for a chat | three steps to a status, two to a choice | only tried keys are used, each by its owner |
| Request guards (`apps/api/rate_limit.py`, the route table of `main.py`) | a deque of time stamps per key | sweep, measure, append; dispatch | no lock; routes are matched in the order of declaration | the limit holds; a path gets its handler |
| Documents, questions, agent of the chat (`ingest/upload.py`, `rag/simple.py`, `llm/agent.py`, `llm/intent.py`, `llm/background.py`) | documents, metrics, chunks | upload, ask (whole and streamed), route a message, open a background check | three transactions per upload; an index made again for every question; streams that break | an answer about a case cites that case; a stream ends |
| Data providers, MCP, observability, front ends | little or none | parsing, layout, HTTP | mostly text and I/O | outside the models, see section 8 |

How they interact.  A page calls the API; the API calls the synchronous engine,
or the gateway, which starts and addresses Temporal runs.  Both engines call
the analysis kernel (`bizatlas/orchestrator/analyze.py`): `run_analyze` scores
the data of the moment, `generate_onepager_report` scores it again and, for an
export, commits a `reports` row and then writes four files.  The analysis
pipelines run the same kernel and five agents and feed a page with events.
The agents reach tools through breakers and the model through the LLM client.

`PROJECT.json` lists every component with its status and every hazard with its
line and the properties that cover it.

## 2. Modules

| module | models | extends |
|---|---|---|
| `SubmissionGate` | abstract: what a due-diligence engine promises about drafts, reviews, exports and submissions | |
| `DueDiligence` | the synchronous engine on one row | |
| `MCDueDiligence` | grades for TLC | `DueDiligence` |
| `DueDiligenceProofs` | its theorems | `DueDiligence` |
| `DueDiligenceTemporal` | the workflow with its updates, activities and mirror | |
| `DueDiligenceGateway` | start, update, detail calls between pages and runs | |
| `MCDueDiligenceTemporal` | the two side by side; grades and symmetry for TLC | the two |
| `DueDiligenceTemporalProofs` | theorems about the workflow and the gateway | the two |
| `EventFeed` | abstract: what the page that follows an analysis is promised | |
| `AnalysisEvents` | the events of an analysis, shared by the next two | |
| `RiskPipeline` | the analysis on Temporal with its stream and its poll | `AnalysisEvents` |
| `PipelineStream` | the in-process analysis stream | `AnalysisEvents` |
| `FeedProofs` | theorems about both | the two |
| `CircuitBreaker`, `CircuitBreakerProofs` | the breaker shared by threads; theorems | |
| `LlmClient`, `LlmClientProofs` | gate, retries, fall-back and cache shared by threads; theorems | |
| `ToolGovernance` | the registry of tools: scopes, breakers by name, sandboxed children | |
| `MCLlmClient` | the calls out of the process, model and tools, side by side | the two |
| `RuleMatching` | which rules hit: conditions, pilot rules, gradual release | |
| `RiskScore` | rule severity, distress, behaviour, their fusion, calibration, reason codes | `RuleMatching` |
| `CreditDecision` | policy table, overrides, limit with its haircut, conditions | `RiskScore` |
| `RiskEvidence` | conflicts, attribution, stress, citations, guarantee graph and contagion, benchmarks | `CreditDecision` |
| `NumberGate` | the figures a model may show, the polishing, the replies of a background check | `RiskScore` |
| `AgentPipeline` | classifier, planner, researcher, writer, disclosures, trace | `NumberGate` |
| `AnalysisPipeline` | one analysis from the request to the decision, composed of the six above | `RiskEvidence`, `AgentPipeline` |
| `MCAnalysisPipeline` | files, events, rule bases, graphs and texts for TLC | `AnalysisPipeline` |
| `AnalysisPipelineProofs` | its theorems, and lemmas about the operators of the six | `AnalysisPipeline` |
| `Identity`, `IdentityProofs` | accounts, sessions, mail tokens, access tokens, API keys, the first administrator; theorems | |
| `RuleStore` | the language compiler, the file and the table of rules | |
| `ModelProviders` | trial, row, status and choice of users' models | |
| `RecordStore` | score history, reports, exported files, signature | |
| `RequestGuards` | sliding window and route table | |
| `ChatDocs` | uploads, questions, the chat agent's intents, the opening of a background check | |
| `ServicesProofs` | theorems about `RuleStore`, `ModelProviders`, `RecordStore` and `ChatDocs` | the four |
| `MCServices` | these services in one process, and their instances for TLC | all six |

`MCServices`, `MCLlmClient` and `MCDueDiligenceTemporal` have a variable `part`,
chosen in the initial state: what they put side by side shares a process and a
database but no row and no variable (the gateway has a coarser view of its own of
the workflows it names), so a behaviour moves one part and TLC explores the sum of
their state spaces and not the product.

Two abstract specifications are implemented twice each: `SubmissionGate` by
`DueDiligence` and `DueDiligenceTemporal`, `EventFeed` by `RiskPipeline` and
`PipelineStream`.  That is where the documents promise that the Temporal path
and the old one behave the same.

In a module, a definition named `X_Y` that stands right before `X` and is
commented as a mutant is a wrong version of `X` (a dropped guard, a missing
reset, a swapped order).  Replacing `X` by it makes the property named in
`PROJECT.json` fail, which shows that the property depends on that code.

### How states and actions correspond to the code

**DueDiligence.**  The workflow endpoints are coroutines without an await, so
two requests on a row never overlap; metrics and rules are written on the
thread pool and may change at any step (`ReplaceMetrics`, `ChangeRules`).  A
request is therefore a sequence of steps of one server: `BeginReport` takes the
guard and the fresh scoring, `SaveReport` the assignments and the save;
a submit is `BeginSubmit`, `SaveExportRow`, `WriteExportFiles`, `SaveSubmit`.
`Abort` is an exception or the end of the process in between: what was
committed stays, the row is as it was.  `kernel` is the grade `run_analyze`
would compute now; a workflow that follows a fixture is scored on the fixture,
so metrics do not move it but rules do.  Metrics are never removed
(`replace_metrics` ignores an empty list).  The audit trail, blockers, remarks
and remediation texts are display data and left out, except the status of the
latest decision.

**DueDiligenceTemporal.**  Each coroutine (two updates and `run()`) has a
program counter that names the activity it awaits, and the state of that
activity: scheduled, executed, or none.  `Work` is the worker doing the work;
`Resume` is the coroutine from a result to its next await, in one step because
the SDK runs a coroutine without interruption up to its next await;
`LoseAttempt` loses an attempt after or before its work.  `report`, `analyze`
and `submit` have `_ACT_RETRY` (three attempts in the code) and give up; the
others retry without end.  `load_template` is folded into `create`: it has no
effect and nothing else can run before it returns.  `image` is the argument of
a mirror write, taken when it is asked for.  Facts of the SDK that the model
takes as given: a ValueError raised before an update's first await refuses the
update; raised later it fails the workflow task, and every replay of it
(`stuck`), since `worker.py` sets no `workflow_failure_exception_types`; an
activity asked for in the activation in which `run()` returns is never
dispatched.  One coroutine is resumed at a time; activations that carry several
results are not modelled here (in the gateway's view an update that sets another
stage may come between a submit and the look at the wait, which is what such an
activation can do to an answer).

**DueDiligenceGateway.**  What the workflow does inside is cut down to its first
task (`loaded`), its row and its knowing it (`open`), the refresh and the mirror that
`run()` awaits before its wait (`waiting`), updates, and the end.  A submit sets
`staged` (the stage, which another update may overwrite) and `recorded` (the entry of
the history, which stays); the run ends when it is at its wait and the stage is
still there.  An update answers after its mirror, whether the run has ended, may end
or stays open; if the end comes first it is turned to the result.  A run has a Temporal id `dd-...`, made by
the gateway, and a row id `wf-...`, made by its first activities and reported in
its snapshot.  A call addresses a run by either; Temporal finds it by the
first, the table by the second.  The insertion of the row and the moment the
workflow learns its id are one step.  `AfterFailure` is the `except` branch of
`advance_due_diligence_wf`.

**RiskPipeline.**  `run()` awaits six activities one after the other; the
events it appends in one activation are appended in one step.  The SSE reader
queries `status`, then `progress`, yields what is new, and looks at the status
it saw before; the polling endpoint makes two or three queries.  Every query is
a step of its own and may fail.

**PipelineStream.**  The thread's generator, its `except` and its `finally`,
the queue, and the response that takes from it.  Heartbeats change nothing.

**CircuitBreaker.**  A thread may be switched between any two method calls of
the breaker; `derive` and `allow` are the two reads of the state property in
`call`, `open` and `stamp` the two writes of `_open`.  Time is the boolean
`cooled`, which a step of the clock sets after an opening.

**LlmClient.**  A caller is at the cache, at the gate, posting, backing off, in
curl, storing or served.  All calls ask the same question, so cache keys differ
only by provider.  An answer is `whole`, `part`, `garbled` or `nothing`, with the
provider that gave it.  A consumer may close a stream at any piece (`Abandon`,
`AtPiece`).

**AnalysisPipeline.**  `step` is where `run_analyze`, the agents, the trace and the
decision are; `out` is the record of what has been computed so far.  Between any
two steps a user may change the rules (`ChangeRules`); the model refuses or
answers with a text of `Replies`; the save of the score fails or not; the search of
the documents fails, finds nothing or finds something.  What each step computes
is an operator of the modules it extends, named as the function it stands for.
Floats are integers: scores and metrics in hundredths, probabilities in basis
points, with the code's roundings at the places where it rounds.  The two
logarithms (`severity_from_pd`, Ohlson's probability) are CONSTANTS, given by
tables in `MCAnalysisPipeline`.  A text is the sequence of the figures it shows;
wording and prompts are left out, and of a template what it counts and what it quotes
stays: the section on the search quotes the openings of two answers, which are extracts of
documents or the model's own words, and the summary the model's name for the industry.

**Identity.**  A handler runs on a thread of the pool; `threads[c]` is what it has
read so far, and every transaction is a step, so that everything read in one may
be stale in the next.  `register` is the look-up (`AuthRegister`), `InsertUser`,
`Welcome`; `authenticate` is `AuthLogin`, `CheckPassword`, `OpenSession`; a mail
token is read (`ReadMailToken`) and used (`UseMailToken`).  The bearer token is
signed and kept by the client only.  `retired` is a history variable.

**RuleStore.**  A sentence is what the compiler looks for in it.  A rule's id is a
`Hash` of the text with its condition and of the process (`epoch`: `hash()` is salted
anew), any function of the two: two rules may have one id.  A save is `ReadRuleFile`,
`WriteRuleFile`, `UpsertRule`, or `UpsertFails` when the table cannot be written; the
file is read and written whole.  `RuleEngine(readable)` is what an analysis scores
with: all rules, or the files alone when the table cannot be read
(`rules/engine.py:96-101`).

**ToolGovernance.**  `ToolRegistry.call` from the scope check on; the two steps of
`get_breaker`; the child process with its state (running, answered, blocked on a
result that does not fit the pipe, dead) and the parent's `join` and `get`.  A child that
the system kills while it writes leaves `Torn`, a part of its message; the time-out of
`get` is for the first byte, and the parent, which holds a write end of the pipe too,
waits for the rest without one.

**ModelProviders, RecordStore, RequestGuards.**  One action per transaction or per
operation on the deque.  `touched` ranks rows by `updated_at`; `created_at` has
the code's resolution of a second, and ids are random.

**ChatDocs.**  Uploads run on the event loop, one at a time; each transaction of
`ingest_metrics_file` is a step and the process may die in between.  A question
runs on a thread: `Ask`, `IndexFixture` (one transaction), `LoadChunks`,
`LoadAllChunks`, then `Answer` in one piece, or one step per streamed event.  The
index of a document is one chunk with a version, because indexing again gives
every chunk a new id.  `handle_agent_message` and `start_background_session` are
one action each: what matters is which branch they take and what they leave.

## 3. Runs

States are distinct states found by TLC.  Each property is broken by a mutant of
the code listed in `PROJECT.json`.

| run | instance | states | what it shows |
|---|---|---|---|
| `due_diligence` | grades GREEN, ORANGE, UNRATED, of which ORANGE needs a review; at most 3 exports | 150k | `TypeOK`; `HighRiskDraftIsFlagged`: whatever was re-analysed, returned or rejected, a draft waiting for a human carries the flag that its analysis calls for; `AnalysedIsComplete`; `SubmissionsBacked`: no submission without its report row and files, whatever request died where; `ExportFollowsApproval`: the latest decision is the one that counts; `ImplementsGate` |
| `due_diligence_review` | the same grades, at most 1 export | | **violated**: `HighRiskSubmitReviewed` |
| `due_diligence_temporal` | workflow: 2 updates, 2 grades, 1 attempt, 1 loss, 4 requests; gateway: 2 starts, 2 calls, 1 query | 1.52M | `HighRiskDraftIsFlagged` and `SubmissionsBacked` under every interleaving; `MirrorNeverAhead`: a late or repeated mirror write is old, never false; `ImplementsGate` with permits held over the export and its retries; `SubmitAnswersRecorded`: whatever overwrites the stage and wherever `run()` is, a submit is answered only for a run that has one on record; `AnswerHasRow` |
| `risk_pipeline` | 3 attempts, 4 losses | 44k | `ProgressIsOrdered`, `PollIsConsistent`, `ImplementsFeed`, `CompletedStreamEnds` |
| `pipeline_stream` | one run, no bound | 547 | `ClosedStreamTells`, `ImplementsFeed`, `StreamEnds` |
| `circuit_breaker` | 3 threads, thresholds 2 | 15k | `NoTripLost`, `Recovers` |
| `llm_client` | model: 2 callers, 1 slot, 1 retry; tools: 2 callers, 2 calls each | 164k | `SlotsConserved`, `StreamedAnswersOwn`, `CallsReturn`; `SandboxedCallsEnd`: a call into a sandbox ends unless its child was killed in the middle of its message |
| `decisions` | 167 requests, each with a rule under trial and with it half released, 1 change of the rules | 47k | `VetoIsFinal`: a veto survives every recomputation, enriched or stressed; `BadNewsNeverFavours`: a veto, a conflict, a dishonest guarantor, or one more serious hit while the same layers count, never raises the limit and never spares the human; `AttributionExplainsScore`; `GapsReachReport`: a search that failed shows in the finding, the report and the trace; `FiguresHaveSource`: every unmarked figure of a text is permitted by the gate, counted by the program, or quoted in the one section that quotes; `ContagionOnlyRaises` |
| `report_figures` | the same, without a name for the industry | | **violated**: `InventedFiguresMarked` |
| `decisions_chain` | the same | | **violated**: `DishonestChainReviewed` |
| `services` | see below | 1.33M | `VerifiedMailProven`, `LoginNeedsVerifiedMail`, `RetiredSecretsStayDead`, `PasswordNeedsResetMail` (Identity); `SavedRulesLoad`, `ScoresOnlyAfterActivation` (RuleStore); `ChatsUseTriedKeys` (ModelProviders); `SignatureCovers` (RecordStore); `FixtureAnswersCiteFixture` (ChatDocs) |
| `services_stream` | the same | | **violated**: `StreamIsServed` |

Deadlock is checked where the system never stops: in `due_diligence` and
`circuit_breaker` some request can always be made.  It is off
in the other runs because the system really stops there: a Temporal run is over,
or stuck; every request the bounds allow has been made; a stream is closed; an
analysis has been decided; the rows a bound allows have been made.  In
the gateway a refused submit waits for a run nobody ends, and a tool's caller may wait for
the rest of a message.

### Bounds, and why they are enough

- *Grades.*  Only membership in `REVIEW_REQUIRED_GRADES` matters to the code; two
  grades outside it in `due_diligence` show that nothing depends on which.
- *MaxExports = 3.*  Two submissions and a failed one; the theorems hold for any.
- *Updates = 2, MaxRequests = 4.*  The interleavings of interest are between two
  handlers; four accepted updates reach analyze, report, review and submit, and
  every shorter story with updates to spare that run against it.  With five
  (2.84M states) the same properties hold.
- *MaxAttempts = 1 and MaxLosses = 1* in `due_diligence_temporal`: one loss already
  makes an activity of either policy run twice or give up.  The pipeline has the
  code's 3 attempts.
- *Starts = 2*: a collision of identifiers needs two.  *Calls = 2*: a submit, and the update
  that overwrites its stage.  *MaxQueries = 1*: queries change nothing; the further
  configuration has the code's 6.
- *Threads = 3, thresholds = 2*: one thread opening, one succeeding, one late.
- *Callers = 2, Slots = 1*: contention, hand-over and sharing of the cache; three
  callers on two slots (1.04M states) show nothing new.
- *Requests of `decisions`*: seventeen files (complete, indebted, thin, distressed,
  with and without a balance sheet, each side of the thresholds of the policy and
  of the layers), eight sets of events, the demo cases with a second source that
  disagrees, an unknown company, documents to search, a model at hand for the texts of the
  analysis or for the answers of the search.  *Replies, refinements, answers*: each with a figure
  of its own, so that one that reaches a text can be told from those of the files.  *MaxRuleChanges = 1*: one change
  between two readings of the rules is what can split them.
- *Sizes of `Identity`*: two threads and two addresses race for the first
  administrator; one thread and one address live through everything; two
  passwords; two mails to one address.  A race needs two handlers, a replay two
  tokens.
- *`RuleStore`*: two editors, one restart (*MaxEpoch = 1*), a seed that waits for
  activation, a share with a percent sign and a sentence the patterns miss; a hash that
  tells them apart in the first process and not in the second.
- *`ToolGovernance`* (under `llm_client`): two callers with two calls each, thresholds 2, two
  breakers of a name.  *`ModelProviders`*: two threads, two slots, two rows, a good and a bad key.
  *`RecordStore`*: two scores, three rows, two seconds, one report.
- *`RequestGuards`*: limit and window 2, three ticks: a window can fill, slide and fill
  again.
- *`ChatDocs`*: two askers, a demo case with a text and one without, one upload, two
  versions of an index: a question can be overtaken by another's index and by an
  upload at every step.

### Fairness

Threads, the event loop, the worker and the Temporal service make progress: an
enabled step of each is eventually taken (weak fairness on `Work` and `Resume`
of each coroutine, on `Run`, `Fail`, `Follow`, `Working`, `Settle`, on the steps
of each breaker thread and LLM call, on the parent of a sandboxed child, whose
`join` has a time-out and whose `get` finds a message or has one too, unless the message is torn, and on a generator that is asked for its next
event).  That is what the operating system, the
worker's polling loop and the service's retries do.  Nothing obliges users or
the environment: requests, uploads, lost attempts, disconnects, broken streams
and failing queries are never fair, and bounded only where a count must stay
finite.  A consumer of an LLM stream either takes the next piece or closes it;
generators that nobody holds are closed by the interpreter.

## 4. Where the code and what it says differ

Four disagreements are runs of `PROJECT.json` and reported there as findings:

1. `HighRiskSubmitReviewed` (due_diligence.py:368: a high-risk conclusion must
   pass a review before it is submitted).  The flag the gate reads is raised when
   the report is drafted.  Draft under GREEN, analyze again, now ORANGE, submit:
   no review.
2. `DishonestChainReviewed` (main.py:1529: a dishonest or executed subject in the
   guarantee chain forces a human).  credit/decision.py:171 looks for the labels
   dishonest, 失信, 被执行; the graphs say "high" and put 被执行 in the name.
3. `StreamIsServed` (doc/TEMPORAL.md:187: the events are pushed one by one).  The route
   `/v1/analyze/pipeline/{workflow_id}` is declared first and takes "stream" for an id.
4. `InventedFiguresMarked` (agents/writer.py:6: any figure comes from the allowed set, or the
   template stands).  The template of the section on the search quotes 80 characters of
   two answers (writer.py:105), and `ask_company` answers with the model's own text
   (rag/simple.py:150-168), which no gate has seen.  When the polish is refused, fails or is
   not asked for, a figure the model made up stands unmarked in the report; the summary
   quotes the model's name for the industry in the same way (writer.py:65).

### Further configurations

A `*Further.cfg` beside a run's configuration lists first the properties that a
document, a comment or a test states and the code does not keep (of
`HitsDisfavour` no document speaks: it is what a reader would expect), then properties
that hold and are not worth a run of their own.  To see one trace, leave only its
line and run `tlc -config X.cfg M`.

| configuration, module | violated property | what the trace shows |
|---|---|---|
| `DueDiligenceFurther`, `MCDueDiligence` | `ReportFollowsAnalysis` | review(return) on a fresh workflow sets the stage `analyzed`, which opens the report step without an analysis (due_diligence.py:346-347) |
| | `RejectionBlocksSubmission` | an unflagged draft that was rejected is submitted (due_diligence.py:242 calls a rejection terminal) |
| `DueDiligenceTemporalFurther`, `DueDiligenceTemporal` | `NoDuplicateExport` | an export whose result was lost is made again (temporal/workflows/due_diligence.py:9 says it is not) |
| | `MirrorIsCurrent` | mirror writes of two updates land in the wrong order, or the last one never |
| | `FlaggedSubmitReviewed` | a rejection during the export does not stop the submission |
| | `SubmittedIsFinal` | another update that was under way moves a submitted workflow back |
| `DueDiligenceTemporalLive`, `DueDiligenceTemporal` | `UpdatesAnswered` | analyze on incomplete data fails the workflow task for ever; `UpdatesReturn` (an accepted update returns unless the workflow ends or its task gets stuck) holds |
| `DueDiligenceGatewayFurther`, `DueDiligenceGateway` | `PagesReachTheirRuns` | the page gets the row's id and sends it back, Temporal knows another (doc/TEMPORAL.md:182: the contract stays as it was) |
| | `SubmitAnswersFinal` | a submit is answered while `run()` still awaits its refresh or mirror, or after another update has overwritten the stage: the run is open (temporal/workflows/due_diligence.py:76-80) |
| | `StartAnswersId` | the snapshot is taken before the workflow has an id |
| | `DetailFallsBack` | the mirror is looked up by the Temporal id |
| | `SubmitReturns` | a refused submit waits for the end of an open run; `StartReturns` holds |
| `RiskPipelineFurther`, `RiskPipeline` | `FailedStreamEnds` | no code ever sets the status `failed` that the stream waits for (temporal_gateway.py:112, doc/TEMPORAL.md:92) |
| `CircuitBreakerFurther`, `CircuitBreaker` | `OpenRejects` | there is no lock (circuit.py:33 says there is); between `_state = "open"` and the new time stamp a call is let through on the old one |
| | `OneProbe` | all calls pass a half-open circuit (circuit.py:6 says one) |
| `LlmClientFurther`, `MCLlmClient` | `AnswersNotMixed` | the key of a cached answer is made from the `provider` argument, the call from the request context (llm/client.py:76, :402) |
| | `CachedAnswersWhole` | a truncated, doubled or empty stream is cached |
| | `UpstreamBounded` | curl runs after the slot was given back |
| | `SandboxedCallsReturn` | a child that is killed while it writes a large result leaves part of it, and the parent waits for the rest without a bound (sandbox.py:89) |
| | `ReturnedMeansOk` | a result larger than the pipe blocks the child until it is killed as too slow (sandbox.py:77) |
| | `OneBreakerPerName` | two first calls make two breakers (circuit.py:137) |
| | `SandboxedToolsBreak` | a sandboxed tool never reaches its breaker (registry.py:66) |
| `AnalysisPipelineFurther`, `MCAnalysisPipeline` | `ConflictsReviewed` | a conflict turns an approval into one with conditions, without the human that the comment promises (decision.py:415) |
| | `MissingNeverFavours` | leaving out a bad metric raises the limit while enough core metrics remain |
| | `ConditionalHasConditions` | a grade that the layers raise to yellow without any hit is admitted with conditions, and none is named |
| | `HitsAreSourced` | rules of the custom file and of the table are in no file of the map of citations |
| | `HitsDisfavour` (with `Requests <- MCBrink`, `RuleBases <- MCBrinkRules`) | a layer that is less than `UPLIFT_MIN_DELTA` above the score of the rules is dropped whole (score.py:243), so that one more serious hit can lower the combined score, from 41.20 ORANGE to 39.70 YELLOW, and raise the limit |
| | `StressNeverEases` | scenarios are scored without the layers that enriched the baseline, and may come out better |
| `ServicesFurther`, `MCServices` | `OneBootstrap` | two requests that have both seen no administrator make two (main.py:706) |
| | `MailTokensWorkOnce` | two handlers that have found a token unused both use it (identity/service.py:319) |
| | `SavedRulesScore` | an analysis that cannot read the table scores without the rules that a concurrent save dropped from the file (rules/engine.py:96-101) |
| | `SavesKeepOthers` (with `Sentences <- MCSmallShares`, `LlmDrafts <- MCNoDrafts`) | two rules whose ids collide replace each other (nl_compiler.py:56) |
| | `ActivationsStick` | a save that read the file before an activation takes it back |
| | `OneRulePerSentence` | ids are made with the salted `hash()`: another process, another rule |
| | `RulesCountOnce` (with `SeedIds = {R001}`, `PilotSeeds = {}`) | an activated seed is copied, and both copies score |
| | `PercentsAreFractions` (with `Sentences <- MCSmallShares`, `LlmDrafts <- MCNoDrafts`) | 0.5 % stays 0.5 (nl_compiler.py:112, :155) |
| | `OneConfigPerSlot` | nothing removes the earlier configuration (model_providers.py:24) |
| | `UnverifiedIsBrief` | a crash before the status leaves the row unverified for good |
| | `HistoryNeverRepeats`, `LatestIsLast` | two requests insert the same score; rows of one second are ordered by a random id |
| | `ExportedHasFiles` | the row says exported before the first file is written |
| | `WindowAlwaysHolds` | threads pass the length check together; with one thread `WindowHolds` |
| | `OwnDocumentsOnly` | without a demo case every company's documents are searched (doc/数据来源与合规说明.md:47) |
| | `MetaTellsModel`, `OneVoice`, `AnswersSaySomething` | a stream says that the model speaks before it has; a broken stream is followed by the extracts from the start; an empty answer of the model is streamed as nothing, and replaced when whole but still called the model's |
| | `CitationsResolve` | every question about a demo case gives its chunks new ids |
| | `MetricsHaveDocument` | a crash between the transactions of an upload leaves metrics without a document |
| | `ExportsAreWanted` | the text "false" of a model's JSON confirms an export (llm/agent.py:85) |
| | `SessionNameIsStored` | `ensure_company` leaves the row that exists, so the registered name is shown and never stored |

Others that came up while the code was translated and that no property states:
`_pd_to_grade` (calibration.py:111) is off by one band from its comment, and AA
cannot be reached; a grade raised by Ohlson's probability has no reason code; the
headline is not refreshed when the layers change the score; a grade is
computed with all hits, the attribution drops those of dimensions it does not know
(no compiler or seed makes one); the gate of figures keeps up to two unknown ones,
marked, and calls the text accepted; `_compile_regex` reads severity words inside
comparisons (不高于); the trace shows one passage per source; `/v1/metrics` is declared twice.

## 5. What is proved

TLAPS checks the proofs for every value of the constants under the named
assumptions of each module (`GradeAssumption`, `BoundAssumption`, and those
of the breaker and the client): the grades that need a review are grades,
`NoGrade` is not one; the bounds are natural numbers; thresholds and slots are
positive; the platform's provider is none of the users'.  TLC evaluates the same
assumptions in the runs.

**DueDiligenceProofs.**  `TypeCorrect`, `HighRiskDraftAlwaysFlagged`,
`AnalysedAlwaysComplete`, `SubmissionsAlwaysBacked`, `ExportAlwaysFollowsApproval`,
`EngineImplementsGate`.  The invariants are not inductive as they stand: a request
takes several steps, and what its guard saw must still be true when it saves.  The
strengthening is `Inv`, a conjunction of `TypeOK`; `RequestInv` (the guard of the
request being served still holds); `ReviewInv` (`review_passed` holds exactly when
the filed decision is an approval); `LedgerInv` (submissions, bundles and rows,
with the ones of the request under way, are in order); and the two properties
about drafts and analyses.  `NextInv` goes through the actions;
the action property and the refinement follow from `Inv` step by step, each
action of the engine being named with the step of the gate it is, or a stutter.

**CircuitBreakerProofs.**  `TypeCorrect`, `NoTripEverLost`, for any number of
threads and any thresholds.  `TypeOK /\ NoTripLost` is inductive: the type of
the counters bounds the arithmetic of `NoTripLost`, and the bound on the success
count is kept because the success that would reach its threshold closes the
circuit and resets the count.  The lemmas treat the flags apart from the
counters because they need different provers.

**LlmClientProofs.**  `TypeCorrect`, `StreamedAnswersAlwaysOwn`, `SlotsAlwaysConserved`.  `BackOffCounted`
(a call that backs off has retries left) makes `TypeOK` inductive; `OwnRows` (the
cache row of a user's provider holds that provider's answers) and `OwnAnswers`
(so does a streamed call about to store or serve one) give the second.  For the slots, every
action is shown to keep the set of holders, to add one caller to it or to remove
one, and the library's theorems on cardinalities do the counting; the set of
callers need not be finite, as the holders are.

**DueDiligenceTemporalProofs**, the workflow.  `DraftsFlagged`, `SubmissionsAreBacked`,
`MirrorNeverLies`, `WorkflowImplementsGate`, for any number of updates that
interleave at every await, and any grades, retries and lost attempts.  The
invariant counts exports: those whose work is done and whose handler has not
resumed (`Unclaimed`) and the submissions on record are together no more than
the exports (`LedgerInv`); and whatever a stage says, in the payload, in the row or in the
image of a write under way, has happened (`StageInv`), which a late or repeated mirror write
cannot undo because drafts and submissions are never undone.  For the refinement the
permits of the gate are the exports awaited; `submit` reads its guard before the
await and nothing after it, and the proof shows that this is enough for the gate.

**DueDiligenceTemporalProofs**, the gateway.  `SubmitsAnswerRecorded`, `AnswersHaveRows`, for any
number of starts, calls and queries, with updates that answer before, after and without
the end of the run.  The invariant (`GatewayInv`): a run never goes back, its row is made before it
is open, and its id is answered only from then on; a stage "submitted", and the end of a
run, have a submit on record, which nothing takes back; only a submit waits for a result, so
that what a submit is answered with is its own record or that of the one that ended the run.
That the run has ended is not among the conclusions: it is false (`SubmitAnswersFinal`).

**FeedProofs.**  `EventsInOrder`, `PollsAreWhole`, `ClosedStreamsTell`,
`TemporalImplementsFeed`, `InProcessImplementsFeed`, for any bound on attempts.
Everything is a beginning of one story (`Beginning`): what is told, fetched and received on
Temporal (`RunInv`, `ReaderInv`, `PollerInv`), where a reader that saw the end
holds the whole; in the process the queue holds what is produced and not sent, then
the error, then the end (`QueueInv`).

**IdentityProofs.**  `VerificationIsProven`, `OnlyVerifiedLogIn`, `RetiredSecretsAreDead`,
`PasswordsNeedResetMail`, `TokensStayWithinRole`, for any addresses, secrets and
numbers of handlers.  A handler acts on what it read in an earlier transaction:
`ThreadsInv` says that it is still true, because accounts are only raised
and verified and tokens only consumed (`AccountsKept`, `TokensKept`).  `KeysInv` (a secret
is of one key, an active key's is not retired) is what the order of the steps of a
rotation must keep.

**ServicesProofs.**  `ChatsAlwaysUseTriedKeys`: between two steps a handler relies on what it
has read (`Remembers`: the row it is about to mark has the key it tried, the row a chat
has chosen is of its slot and its key was accepted); it stays true because no
other handler gives a row another owner, slot or key (`RowsKept`).
`SavedRulesAlwaysLoad`, `OnlyActivatedRulesScore`: every rule of the file, of the table and of every
copy of the file an editor holds is earned, it is a seed or was asked for; a
concurrent save may lose rules of the file by writing an old copy, but can only bring back earned
ones, and the table never loses a row.  The first is about an analysis that can read the
table, the second about any analysis; both hold for every hash, colliding or not.
(`SavedRulesScore`, of any analysis, is false.)  `SignaturesCover`: a request that exports holds the payload
its row was saved with, and rows keep it.  `FixtureAnswersStayHome`: an index once written
is never without a text again, so that no question about a demo case falls back to
everybody's documents.

**AnalysisPipelineProofs.**  `VetoesAreFinal`, `GapsAreReported`, `FiguresAreSourced`,
`AttributionsExplain`, `BadNewsIsBad`, `ContagionRises`, `LayersOnlyRaise`, `UnknownIsUnrated`,
`ApprovalsAreClean`, for any requests, rule bases, changes of the rules, texts of the
model and answers of the search.  The invariant (`PipelineInv`) says of each part of the result
what it was computed from: the score from rules that were on file (`Judged`), the
stress scenarios from rules that were on file too and perhaps others (`Stressed`), the graph
from the request and the attribution from the score (`Attributed`), each text
from a reply through the gate (`Headed`, `Explained`, `Written`), what was searched and how the
company was classed from answers of the model (`Searched`, `Labelled`), the decision and the report from all
of them (`Published`); `Grown` says which parts there are at each step, and that a part is added
once.  The properties are read off it with lemmas about the operators:
`VetoGrade`, `RiskCarries` (a veto survives every layer), `ShockKeepsVeto`, `VetoDeclines`,
`GatedIsSourced` (what comes out of the gate shows permitted, marked, or the template's
figures) with `TemplateOfSection` (which figures those are, section by section), `MatchHits` (every hit is the hit of a rule on file).

The code's loops over lists of hits, rules and edges are folds and recursive functions here,
and what they compute is proved by least counterexamples: `LeastNumber` gives the first step where a
claim about a recursive function would fail, `LeastSubset` the smallest set of terms
where one about a fold would.  `FoldExists`, `TotalRemoves` and `SumGrows` say of sums what
is needed: they are integers, any term may be taken out first, larger terms make a larger sum.
`BadNewsIsBad` goes from there: one more hit never lowers the score of the rules
(`HitRaisesScore`), nor the score blended with the same layers, since the layers weigh less
than the rules (`UpliftShrinks`, `BlendRaises`); a higher score has no better grade
(`RanksGrow`), a worse grade no kinder policy (`PoliciesWorsen`), and a decision on a file that is no better
in anything it looks at grants no more and calls the human as well
(`DecisionWorsens`).  `ContagionRises` compares the products over the edges: a worse end of an edge lets no more
survive, so neither does the whole graph (`SurvivalShrinks`), in whatever order the edges are taken, as long as
it is the same in both.

What the proofs taught about the models.  The arms of three CASEs overlapped and
are disjoint now (`PipelineStream`, `_grade`): the code's `elif` makes the order part of the guard.  The figures of
a template are not all permitted by the gate (a narrative with more than five hits counts
them, a section quotes the model): `FiguresHaveSource` names for each text the figures that have
another source than the gate, and where a quotation of the model may stand.  `AttributionExplainsScore` needs the rules to be of the five dimensions
(`RulesAssumption`): the score counts a hit of another dimension as financial, the attribution drops
it.  The seeds and both compilers give only these five.  `BadNewsNeverFavours` once said of every
further hit that it favours nobody; the sums are monotone, but the proof got no further than the
threshold below which `blend_severity` drops a layer, and a file on the brink is a
counterexample.  What is true, and proved, is the property with the same layers;
`HitsDisfavour` is the other, violated.

Assumptions on the constants, besides those above: `UserAssumption`,
`SizesAssumption` (`NoUser` is no account; the addresses and passwords of an installation are
among those of the model),
`FixtureAssumption` (nobody is no demo case), `QueriesAssumption` (the retries of a query are a
number), `NoneAssumption` (None is no veto reason and no graph), `AppliedAssumption` (an amount is an integer or
None), `SeverityAssumption` (a probability's log-odds severity is a natural number),
`FilesAssumption` (Ohlson's probability of a file is in basis points or missing, its depth of
guarantees an integer or missing, its events are counted),
`GraphsAssumption` (a stored graph names a company once and carries the known labels, as
the three `graph.json` do), `RulesAssumption`, `RepliesAssumption`,
`RefinementsAssumption`, `AnswersAssumption` (a reply, the model's name for an industry and
the opening of an answer are texts).

## 6. What is only model-checked

Liveness (`CompletedStreamEnds`, `StreamEnds`, `Recovers`, `CallsReturn`,
`SandboxedCallsEnd`, `UpdatesReturn`, `StartReturns`, `AnswersEnd`): temporal reasoning
under fairness and `ENABLED` are out of the prover's reach.  The refinements are
proved as far as the abstract specifications go: they state no fairness.
The invariants of the further configurations that hold are checked by TLC only, except
`UpliftOnlyRaises`, `UnknownIsNotSafe` and `ApprovalIsClean`.  What is violated there
is false, and has nothing to prove.

## 7. Plan

Done: the two due-diligence engines and the gate, the gateway, the two pipelines and
the feed, the breaker, the LLM client, the analysis from score to decision with its
agents, the tools, the six services and the chat agent; proofs of all safety properties and refinements that a passing run
checks.  Left:

1. Proofs of the invariants of the further configurations that hold, `TypeOK` of `AnalysisPipeline`
   and `WindowHolds` of `RequestGuards` first.
2. `start_pipeline_and_wait`, and activations that carry several results in `DueDiligenceTemporal`.

## 8. What is not modelled, and why

Logarithms, prompts, templates, report layout, spreadsheet and PDF parsing, HTTP clients
of data providers, logging and metrics, evaluation scripts, the front ends and
deployment files: pure computation on text and numbers, or pure I/O, with no state
shared between actors.  The MCP server is a thin adapter over functions seen
here from the engines.  The audit log is appended to and decides nothing.
`start_pipeline_and_wait` is one blocking call.  The figures inside the messages of rules
and the names of companies, which some templates repeat, are not followed: they are data
of the installation and not of the model.  Hazards that no property of a run
covers are marked in `PROJECT.json`, with the property of a further configuration that
states them.
