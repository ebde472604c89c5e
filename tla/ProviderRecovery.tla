------------------------- MODULE ProviderRecovery -------------------------
(***************************************************************************)
(* What follows an uncertain provider mutation: ProviderOutcomeRecovery-   *)
(* Coordinator (src/src/recovery/provider-outcome-recovery.mjs) observes   *)
(* the target through the converging observer and classifies what it saw;  *)
(* DurableProviderOutcomeRecoveryCoordinator stores the classification     *)
(* before it answers; and only "requires_new_authorization" lets an        *)
(* operator have a new request approved over the observed baseline.        *)
(***************************************************************************)
EXTENDS GitHubContents

CONSTANTS
  Recoverers,  \* processes that run recover()
  Attempts,    \* bound: reads the observer makes before it settles (20)
  Stamps       \* observation times and provider request ids

ASSUME RecoveryAssumption == Attempts \in Nat \ {0}

VARIABLES
  job,      \* job[p]: the recovery p is running
  record,   \* provider_recovery_records, by request
  answers,  \* what callers have been answered, by request
  family    \* the request each request is a retry of, or itself

recoveryVars == <<job, record, answers, family>>
vars == <<contentsVars, recoveryVars>>

Dispositions == {"do_not_retry_reconcile", "requires_new_authorization",
                 "forbidden_until_resolved"}
Outcomes == [state : {"confirmed_applied", "confirmed_not_applied", "still_unknown"},
             reason : {"DESIRED_FINGERPRINT_OBSERVED", "BASELINE_MONOTONIC_REVISION_UNCHANGED",
                       "ABSENCE_HISTORY_UNPROVEN", "BASELINE_RESTORATION_AMBIGUOUS",
                       "PROVIDER_STATE_DIVERGED", "PROVIDER_OBSERVATION_TIMEOUT",
                       "PROVIDER_OBSERVATION_FAILED"},
             disposition : Dispositions,
             observation : Observations \cup {None},
             stamp : Stamps \cup {None}]
Jobs == [request : Requests, stamp : Stamps, reads : 0..Attempts,
         outcome : Outcomes \cup {None}]

ASSUME NoneIsNoOutcome == None \notin Outcomes \cup Jobs

TypeOK ==
  /\ ContentsTypeOK
  /\ job \in [Recoverers -> Jobs \cup {None}]
  /\ record \in [Requests -> Outcomes \cup {None}]
  /\ answers \in [Requests -> SUBSET Outcomes]
  /\ family \in [Requests -> Requests]

----------------------------------------------------------------------------
(* Classification.                                                         *)

Unchanged(baseline, seen) ==
  /\ baseline.content # Absent
  /\ SameBaseline(seen, baseline)

\* A mutant of ProvesNonApplication: any version token is trusted.
BaselineIsBack(baseline, seen) == Unchanged(baseline, seen)

\* Only an unchanged monotonic revision proves that nothing was written.
ProvesNonApplication(baseline, seen) ==
  /\ Unchanged(baseline, seen)
  /\ baseline.semantics = "monotonic_revision"
  /\ seen.semantics = "monotonic_revision"

\* A mutant of ProvesApplication: any content but the baseline's will do.
SomethingChanged(request, seen) == seen.content # request.baseline.content

ProvesApplication(request, seen) == seen.content = request.desired

Unresolved(reason, seen, stamp) ==
  [state |-> "still_unknown", reason |-> reason,
   disposition |-> "forbidden_until_resolved", observation |-> seen, stamp |-> stamp]

WhyUnknown(baseline, seen) ==
  CASE baseline.content = Absent /\ seen.content = Absent -> "ABSENCE_HISTORY_UNPROVEN"
    [] Unchanged(baseline, seen) -> "BASELINE_RESTORATION_AMBIGUOUS"
    [] OTHER -> "PROVIDER_STATE_DIVERGED"

Classify(request, seen, stamp) ==
  CASE ProvesApplication(request, seen) ->
         [state |-> "confirmed_applied", reason |-> "DESIRED_FINGERPRINT_OBSERVED",
          disposition |-> "do_not_retry_reconcile", observation |-> seen, stamp |-> stamp]
    [] ~ ProvesApplication(request, seen) /\ ProvesNonApplication(request.baseline, seen) ->
         [state |-> "confirmed_not_applied",
          reason |-> "BASELINE_MONOTONIC_REVISION_UNCHANGED",
          disposition |-> "requires_new_authorization",
          observation |-> seen, stamp |-> stamp]
    [] OTHER -> Unresolved(WhyUnknown(request.baseline, seen), seen, stamp)

\* providerRecoveryFingerprint: everything but which state of the file it was.
Evidence(o) ==
  <<o.state, o.reason, o.disposition, o.stamp,
    IF o.observation = None THEN None
    ELSE <<o.observation.content, o.observation.version, o.observation.semantics>>>>

----------------------------------------------------------------------------
(* A recovery: it never touches the provider, and may run while the PUT it *)
(* asks about is still on its way, or next to another recovery.            *)

Recover(p, r, stamp) ==
  /\ job[p] = None
  /\ stage[r] = "unresolved"
  /\ job' = [job EXCEPT ![p] = [request |-> r, stamp |-> stamp, reads |-> 0, outcome |-> None]]
  /\ UNCHANGED <<contentsVars, record, answers, family>>

Observing(p) == job[p] # None /\ job[p].outcome = None

OutOfReads(reads) == reads >= Attempts

\* One read of the observer's: the last one it makes is classified.
Observe(p, i) ==
  LET r == job[p].request
      seen == Observation(i)
      last == OutOfReads(job[p].reads + 1) \/ seen.content = intent[r].desired
  IN /\ job' = [job EXCEPT ![p].reads = @ + 1,
                           ![p].outcome = IF last THEN Classify(intent[r], seen, job[p].stamp)
                                          ELSE None]
     /\ UNCHANGED <<contentsVars, record, answers, family>>

\* The deadline passes or a read fails.
GiveUp(p, reason) ==
  /\ job' = [job EXCEPT ![p].outcome = Unresolved(reason, None, None)]
  /\ UNCHANGED <<contentsVars, record, answers, family>>

Forget(p) == job' = [job EXCEPT ![p] = None]

Concluded(p) == job[p] # None /\ job[p].outcome # None

Reply(p) == answers' = [answers EXCEPT ![job[p].request] = @ \cup {job[p].outcome}]

\* record(): the first outcome of a request is stored and answered.
Store(p) ==
  /\ Concluded(p)
  /\ record[job[p].request] = None
  /\ record' = [record EXCEPT ![job[p].request] = job[p].outcome]
  /\ Reply(p) /\ Forget(p)
  /\ UNCHANGED <<contentsVars, family>>

\* A mutant of SameEvidence: the state and the reason are enough.
SameConclusion(stored, reported) == stored.reason = reported.reason

SameEvidence(stored, reported) == Evidence(stored) = Evidence(reported)

\* record(): the same evidence again.
Replay(p) ==
  /\ Concluded(p)
  /\ record[job[p].request] # None
  /\ SameEvidence(record[job[p].request], job[p].outcome)
  /\ Reply(p) /\ Forget(p)
  /\ UNCHANGED <<contentsVars, record, family>>

\* The ledger refuses: other evidence is on record, or it is locked or full;
\* or the process dies.  Nobody is answered.
Abandon(p) ==
  /\ job[p] # None
  /\ Forget(p)
  /\ UNCHANGED <<contentsVars, record, answers, family>>

\* The operator's part: a new request for the same mutation.
Retry(q, r) ==
  /\ record[r] # None
  /\ record[r].disposition = "requires_new_authorization"
  /\ Intend(q, intent[r].desired, record[r].observation)
  /\ family' = [family EXCEPT ![q] = family[r]]
  /\ UNCHANGED <<job, record, answers>>

Init ==
  /\ ContentsInit
  /\ job = [p \in Recoverers |-> None]
  /\ record = [r \in Requests |-> None]
  /\ answers = [r \in Requests |-> {}]
  /\ family = [r \in Requests |-> r]

Next ==
  \/ ContentsNext /\ UNCHANGED recoveryVars
  \/ \E q, r \in Requests : Retry(q, r)
  \/ \E p \in Recoverers :
       \/ \E r \in Requests, stamp \in Stamps : Recover(p, r, stamp)
       \/ /\ Observing(p)
          /\ \/ \E i \in Readable(job[p].request) : Observe(p, i)
             \/ \E reason \in {"PROVIDER_OBSERVATION_TIMEOUT", "PROVIDER_OBSERVATION_FAILED"} :
                  GiveUp(p, reason)
       \/ Store(p) \/ Replay(p) \/ Abandon(p)

Spec == Init /\ [][Next]_vars

----------------------------------------------------------------------------
\* ConclusionsAreProven: a recovery on record as confirmed_applied saw the
\* desired content at a time since the plan; one on record as
\* confirmed_not_applied saw a state of the file before which the request had
\* not written.  Neither a restored baseline nor a stale read breaks this.
ConclusionsAreProven ==
  \A r \in Requests : record[r] # None =>
    /\ record[r].state = "confirmed_applied" =>
         \E i \in Readable(r) : history[i].content = intent[r].desired
    /\ record[r].state = "confirmed_not_applied" =>
         \A i \in 1..record[r].observation.at : ~ Wrote(r, i)

\* NoDoubleMutation: a request and the retries its recovery allows write once
\* between them, even when the PUT that was declared not applied arrives late.
NoDoubleMutation ==
  \A i, j \in DOMAIN history :
    i # j /\ history[i].by # Other /\ history[j].by # Other =>
      family[history[i].by] # family[history[j].by]

\* AnswersAreOnRecord: of recoveries that run at the same time or after a
\* restart, all that answer give the answer on record, however the file has
\* changed between their observations.
AnswersAreOnRecord ==
  \A r \in Requests : \A answer \in answers[r] :
    record[r] # None /\ Evidence(answer) = Evidence(record[r])
=============================================================================
