------------------------------ MODULE JobStore ------------------------------
(***************************************************************************)
(* The job state machine (src/src/state/state-machine.mjs) and the durable *)
(* job record and audit trail (src/src/persistence/durable-store.mjs).     *)
(***************************************************************************)
EXTENDS Naturals

CONSTANTS
  Jobs,   \* job identifiers
  NoJob   \* no record yet

VARIABLES
  jobs,   \* the state in the durable record of each job
  audit   \* the dispatch and outcome lines of audit.ndjson, as a set

States == {"received", "normalized", "capability_checked", "planned", "awaiting_approval",
           "approved", "dispatched", "attempted", "provider_confirmed", "reconciling",
           "reconciled", "blocked", "failed", "skipped", "expired", "recovery_required",
           "cancelled"}

\* The transition graph.
Graph(state) ==
  CASE state = "received"           -> {"normalized", "blocked", "cancelled"}
    [] state = "normalized"         -> {"capability_checked", "blocked", "cancelled"}
    [] state = "capability_checked" -> {"planned", "blocked", "cancelled"}
    [] state = "planned"            -> {"awaiting_approval", "blocked", "cancelled"}
    [] state = "awaiting_approval"  -> {"approved", "expired", "recovery_required", "blocked",
                                        "cancelled"}
    [] state = "approved"           -> {"dispatched", "expired", "blocked", "cancelled"}
    [] state = "dispatched"         -> {"attempted", "failed", "recovery_required", "blocked",
                                        "cancelled"}
    [] state = "attempted"          -> {"provider_confirmed", "failed", "recovery_required",
                                        "blocked"}
    [] state = "provider_confirmed" -> {"reconciling", "failed", "recovery_required"}
    [] state = "reconciling"        -> {"reconciled", "failed", "recovery_required"}
    [] state = "reconciled"         -> {"recovery_required"}
    [] state = "recovery_required"  -> {"capability_checked", "planned", "cancelled", "failed"}
    [] OTHER                        -> {}

\* Of the audit's events only these are told apart from none.
Audited    == {"dispatched", "execution_outcome"}
AuditLines == [job : Jobs, event : Audited]

StoreTypeOK ==
  /\ jobs \in [Jobs -> States \cup {NoJob}]
  /\ audit \subseteq AuditLines

StoreInit == jobs = [j \in Jobs |-> NoJob] /\ audit = {}

\* saveJob replaces the record whatever it was; appendAudit adds a line.
SaveJob(job, state) == jobs' = [jobs EXCEPT ![job] = state]
AppendAudit(job, event) ==
  audit' = audit \cup {[job |-> job, event |-> e] : e \in {event} \cap Audited}

\* A mutant of Recorded: the audit line is forgotten.
SavedOnly(job, state, event) == SaveJob(job, state) /\ UNCHANGED audit

\* recordTransition, recordOutcome and recordFailure: save, then append.  A
\* crash or an I/O error strikes before both, between them, or not at all;
\* nobody reads the record in between.
Recorded(job, state, event) == SaveJob(job, state) /\ AppendAudit(job, event)
RecordingFails(job, state)  == (SaveJob(job, state) \/ UNCHANGED jobs) /\ UNCHANGED audit
=============================================================================
