---------------------------- MODULE RecordStore -----------------------------
(***************************************************************************)
(* What an analysis leaves behind: the history of scores of a company      *)
(* (data/repo.py save_risk_score), its reports with their exported files   *)
(* and their signature (repo.save_report, orchestrator/analyze.py          *)
(* generate_onepager_report and generate_credit_report,                    *)
(* contracts/integrity.py). One company.                                   *)
(***************************************************************************)
EXTENDS Naturals, FiniteSets, Sequences

CONSTANTS
    Scores,         \* the key fields of a score: grade, score, scale, PD, reasons
    RowIds,         \* random row ids, by the order ORDER BY id gives them
    WriterPools,    \* pools of threads to try
    MaxSeconds,     \* bound on the clock
    MaxReports      \* bound on the reports

VARIABLES
    second,     \* created_at has a resolution of one second
    riskRows,   \* rows of risk_scores, in the order they were inserted
    writers,    \* the request of each thread
    reports,    \* rows of reports: status, payload
    files       \* report -> the files under the export directory

recordVars == <<second, riskRows, writers, reports, files>>

Resting == [op |-> "resting"]
Writes(w, state) == writers' = [writers EXCEPT ![w] = state]

RecordInit ==
    /\ second = 0 /\ riskRows = <<>>
    /\ \E pool \in WriterPools : writers = [w \in pool |-> Resting]
    /\ reports = <<>> /\ files = <<>>

Tick == second < MaxSeconds /\ second' = second + 1 /\ UNCHANGED <<riskRows, writers, reports, files>>

-----------------------------------------------------------------------------
(* Scores *)

\* ORDER BY created_at DESC, id DESC.
Later(r, s) == r.second > s.second \/ (r.second = s.second /\ r.id > s.id)

Latest == {i \in DOMAIN riskRows : \A j \in DOMAIN riskRows \ {i} : Later(riskRows[i], riskRows[j])}

\* save_risk_score: a score that equals the latest row is not stored again ...
ReadLatest(w) ==
    /\ writers[w] = Resting
    /\ \E s \in Scores :
         IF \E i \in Latest : riskRows[i].score = s THEN UNCHANGED writers
         ELSE Writes(w, [op |-> "insert", score |-> s])
    /\ UNCHANGED <<second, riskRows, reports, files>>

\* ... and another one gets a row.
InsertScore(w) ==
    /\ writers[w].op = "insert"
    /\ \E id \in RowIds \ {riskRows[i].id : i \in DOMAIN riskRows} :
         riskRows' = Append(riskRows, [id |-> id, second |-> second, score |-> writers[w].score])
    /\ Writes(w, Resting)
    /\ UNCHANGED <<second, reports, files>>

-----------------------------------------------------------------------------
(* Reports *)

Kinds == {"onepager", "credit"}
FilesOf(kind) == IF kind = "onepager" THEN {"md", "docx", "pdf", "integrity"} ELSE {"docx", "pdf", "integrity"}

\* The payload as the analysis and, where it was asked for, the pipeline of
\* agents leave it.
Payload(kind, pipeline) == [kind |-> kind, narrative |-> pipeline]

\* mutant
SaveReport_early(w) ==
    /\ writers[w] = Resting /\ Len(reports) < MaxReports
    /\ \E kind \in Kinds, pipeline, confirm \in BOOLEAN :
         /\ reports' = Append(reports, [status |-> IF confirm THEN "exported" ELSE "generated",
                                        payload |-> Payload(kind, FALSE), signed |-> <<>>])
         /\ files' = Append(files, {})
         /\ Writes(w, IF confirm THEN [op |-> "export", report |-> Len(reports) + 1,
                                       payload |-> Payload(kind, pipeline)] ELSE Resting)
    /\ UNCHANGED <<second, riskRows>>

\* The row is saved with its final status before the first file is written.
SaveReport(w) ==
    /\ writers[w] = Resting /\ Len(reports) < MaxReports
    /\ \E kind \in Kinds, pipeline, confirm \in BOOLEAN :
         /\ reports' = Append(reports, [status |-> IF confirm THEN "exported" ELSE "generated",
                                        payload |-> Payload(kind, pipeline), signed |-> <<>>])
         /\ files' = Append(files, {})
         /\ Writes(w, IF confirm THEN [op |-> "export", report |-> Len(reports) + 1,
                                       payload |-> Payload(kind, pipeline)] ELSE Resting)
    /\ UNCHANGED <<second, riskRows>>

\* The order of the export: text, Word, PDF, and the signature last.
NextFile(kind, have) ==
    LET left == FilesOf(kind) \ have
    IN  IF "md" \in left THEN {"md"} ELSE IF "docx" \in left THEN {"docx"} ELSE IF "pdf" \in left THEN {"pdf"} ELSE left

\* One file of the export, or an error of it that ends the request.
ExportFile(w) ==
    /\ writers[w].op = "export"
    /\ LET r == writers[w].report
       IN  \E f \in NextFile(writers[w].payload.kind, files[r]), fails \in BOOLEAN :
             IF fails THEN Writes(w, Resting) /\ UNCHANGED <<reports, files>>
             ELSE /\ files' = [files EXCEPT ![r] = @ \cup {f}]
                  /\ reports' = IF f = "integrity" THEN [reports EXCEPT ![r].signed = <<writers[w].payload>>] ELSE reports
                  /\ Writes(w, IF files'[r] = FilesOf(writers[w].payload.kind) THEN Resting ELSE writers[w])
    /\ UNCHANGED <<second, riskRows>>

RecordNext ==
    \/ Tick
    \/ \E w \in DOMAIN writers : ReadLatest(w) \/ InsertScore(w) \/ SaveReport(w) \/ ExportFile(w)

RecordSpec == RecordInit /\ [][RecordNext]_recordVars

-----------------------------------------------------------------------------
(* Properties *)

Alone(i) == \A j \in DOMAIN riskRows \ {i} : riskRows[j].second # riskRows[i].second

\* The point of the comparison with the latest row: reading a company again and
\* again does not grow its history. With one thread, and no two rows in the same
\* second, no row repeats the one before it.
HistoryHasNoRepeats ==
    Cardinality(DOMAIN writers) = 1 =>
        \A i \in 1..(Len(riskRows) - 1) :
            (\A k \in DOMAIN riskRows : Alone(k)) => riskRows[i].score # riskRows[i + 1].score

\* The same without the conditions: two requests that have read the same latest
\* row both insert, and rows of one second are ordered by a random id.
HistoryNeverRepeats ==
    \A i \in 1..(Len(riskRows) - 1) : riskRows[i].score # riskRows[i + 1].score

\* What the order of the rows calls the latest score is the one stored last.
LatestIsLast ==
    riskRows # <<>> => Latest = {Len(riskRows)}

\* A signature vouches for the whole export and for the saved report: the other
\* files are there, and what was signed is what the row holds, the narrative of
\* the pipeline included.
SignatureCovers ==
    \A r \in DOMAIN reports : "integrity" \in files[r] =>
        /\ files[r] = FilesOf(reports[r].payload.kind)
        /\ reports[r].signed = <<reports[r].payload>>
        /\ reports[r].status = "exported"

\* A report that is listed as exported has its files, once its request is over.
ExportedHasFiles ==
    \A r \in DOMAIN reports :
        (reports[r].status = "exported" /\ \A w \in DOMAIN writers : writers[w].op = "export" => writers[w].report # r)
            => files[r] = FilesOf(reports[r].payload.kind)

=============================================================================
