--------------------------- MODULE SubmissionGate ---------------------------
(***************************************************************************)
(* What a due-diligence engine promises about the outside world, whatever  *)
(* drives it: a report bundle is exported only on a permit, a permit is    *)
(* granted only when a draft exists and a review that is required has been *)
(* approved, and a submission is recorded only for a permit whose export   *)
(* succeeded.  The synchronous engine (DueDiligence) and the Temporal      *)
(* workflow (DueDiligenceTemporal) are both shown to implement it.         *)
(***************************************************************************)
EXTENDS Naturals

CONSTANT Submitter          \* the concurrent submit requests an engine can have

VARIABLES
    drafted,                \* a report draft is on file
    required,               \* the conclusion on file needs a human review
    approved,               \* the latest review decision was approve
    permits,                \* the submit requests that passed the gate
    exports,                \* exports begun so far
    submissions             \* submissions recorded so far

gateVars == <<drafted, required, approved, permits, exports, submissions>>

Init ==
    /\ drafted = FALSE
    /\ required = FALSE
    /\ approved = FALSE
    /\ permits = {}
    /\ exports = 0
    /\ submissions = 0

(* A draft is written; it may raise the review requirement, never lift it. *)
Draft ==
    /\ drafted' = TRUE
    /\ required' \in {required, TRUE}
    /\ UNCHANGED <<approved, permits, exports, submissions>>

(* A reviewer decides; the latest decision is the one that counts. *)
Review ==
    /\ approved' \in BOOLEAN
    /\ UNCHANGED <<drafted, required, permits, exports, submissions>>

(* The hard gate. *)
Grant(s) ==
    /\ s \notin permits
    /\ drafted
    /\ required => approved
    /\ permits' = permits \cup {s}
    /\ UNCHANGED <<drafted, required, approved, exports, submissions>>

(* An export begins under a permit; a retried export begins again. *)
Export(s) ==
    /\ s \in permits
    /\ exports' = exports + 1
    /\ UNCHANGED <<drafted, required, approved, permits, submissions>>

(* A submission is recorded: it spends a permit and an export. *)
Submit(s) ==
    /\ s \in permits
    /\ submissions < exports
    /\ permits' = permits \ {s}
    /\ submissions' = submissions + 1
    /\ UNCHANGED <<drafted, required, approved, exports>>

(* A request that failed, or died with its process, gives its permit back. *)
Forfeit(s) ==
    /\ s \in permits
    /\ permits' = permits \ {s}
    /\ UNCHANGED <<drafted, required, approved, exports, submissions>>

Next ==
    \/ Draft
    \/ Review
    \/ \E s \in Submitter : Grant(s) \/ Export(s) \/ Submit(s) \/ Forfeit(s)

Spec == Init /\ [][Next]_gateVars
=============================================================================
