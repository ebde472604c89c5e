------------------------- MODULE VerifiedExecution -------------------------
(***************************************************************************)
(* VerifiedExecutionLedger (src/src/execution/verified-execution-          *)
(* ledger.mjs), the supported write boundary of the execution ledger.  Its *)
(* checks read the tables BEFORE the transaction that writes them, so      *)
(* another process may write in between: a call is one read, for some      *)
(* methods a second one, and the transaction.                              *)
(***************************************************************************)
EXTENDS ExecutionLedger

CONSTANT Reporters   \* processes that report evidence

VARIABLES
  stage,   \* where each reporter's call stands
  args,    \* what it was called with
  seen,    \* the operation as it last read it
  outcome, \* how its last call ended
  clock

reporterVars == <<stage, args, seen, outcome>>
vars == <<tables, reporterVars, clock>>

CallArgs == UNION {[request : Requests, key : {key}, evidence : Evidence(key[1]), now : Times] :
                     key \in TransitionKeys}

ReportersTypeOK ==
  /\ TypeOK
  /\ stage \in [Reporters -> {"idle", "operation", "events", "commit"}]
  /\ \A r \in Reporters : args[r] # Null => args[r] \in CallArgs
  /\ seen \in [Reporters -> OperationRows \cup {Null}]
  /\ outcome \in [Reporters -> {"none", "done", "thrown"}]
  /\ clock \in Times

Tick ==
  /\ clock + 1 \in Times
  /\ clock' = clock + 1
  /\ UNCHANGED <<tables, reporterVars>>

Goto(r, s) == stage' = [stage EXCEPT ![r] = s]
Ends(r, how) == Goto(r, "idle") /\ outcome' = [outcome EXCEPT ![r] = how]

\* The time an attempt, confirmation, start or result claims for itself.
EvidenceTime(method, evidence) ==
  CASE method = "attempt"      -> evidence.startedAt
    [] method = "confirmation" -> evidence.confirmedAt
    [] method = "start"        -> evidence.startedAt
    [] method = "result"       -> evidence.observedAt

\* A mutant of InTime: evidence may postdate its report.
InTimeAfter(method, evidence, operation, now) ==
  operation.updatedAt <= EvidenceTime(method, evidence)

\* assertEvidenceTime: not before the state it follows, not after the report.
InTime(method, evidence, operation, now) ==
  /\ operation.updatedAt <= EvidenceTime(method, evidence)
  /\ EvidenceTime(method, evidence) <= now

\* A reporter calls a method.  recordDispatched has no checks of its own.
Report(r, request, key, evidence, now) ==
  /\ stage[r] = "idle"
  /\ args' = [args EXCEPT ![r] =
       [request |-> request, key |-> key, evidence |-> evidence, now |-> now]]
  /\ Goto(r, IF key[1] = "dispatch" THEN "commit" ELSE "operation")
  /\ seen' = [seen EXCEPT ![r] = Null]
  /\ outcome' = [outcome EXCEPT ![r] = "none"]
  /\ UNCHANGED <<tables, clock>>

\* The first read, and the checks of the methods that read only once.
ReadOperation(r) ==
  LET a == args[r]
      row == operations[a.request]
      method == a.key[1]
  IN
  /\ stage[r] = "operation"
  /\ seen' = [seen EXCEPT ![r] = row]
  /\ IF row = Null THEN Ends(r, "thrown")
     ELSE IF method \in {"confirmation", "result"} THEN Goto(r, "events") /\ UNCHANGED outcome
     ELSE IF InTime(method, a.evidence, row, a.now) THEN Goto(r, "commit") /\ UNCHANGED outcome
     ELSE Ends(r, "thrown")
  /\ UNCHANGED <<tables, args, clock>>

\* recordProviderConfirmation needs an attempt; the identifiers it compares are
\* fixed by the operation, so evidence about another attempt is left out.
ConfirmationFits(chain) == HasEvent(chain, "attempt")

\* A mutant of ResultFits: the claim of a match is believed.
ResultFitsClaimed(chain, result) ==
  /\ HasEvent(chain, "confirmation") /\ HasEvent(chain, "start")
  /\ result.expected = LastEvidence(chain, "confirmation").after
  /\ result.observer = LastEvidence(chain, "start").observer

\* completeReconciliation compares the result with what was confirmed and how
\* the observation was started.
ResultFits(chain, result) ==
  /\ HasEvent(chain, "confirmation") /\ HasEvent(chain, "start")
  /\ result.expected = LastEvidence(chain, "confirmation").after
  /\ result.observer = LastEvidence(chain, "start").observer
  /\ result.matches = (result.observed = result.expected)

\* The second read, against which the time is checked with the first one's row.
ReadEvents(r) ==
  LET a == args[r]
      chain == events[a.request]
      fits == IF a.key[1] = "confirmation" THEN ConfirmationFits(chain)
              ELSE ResultFits(chain, a.evidence)
  IN
  /\ stage[r] = "events"
  /\ IF fits /\ InTime(a.key[1], a.evidence, seen[r], a.now)
       THEN Goto(r, "commit") /\ UNCHANGED outcome
       ELSE Ends(r, "thrown")
  /\ UNCHANGED <<tables, args, seen, clock>>

Commit(r) ==
  LET a == args[r] IN
  /\ stage[r] = "commit"
  /\ IF a.key[1] = "dispatch" THEN RecordDispatched(a.evidence, a.key, a.now)
     ELSE Transition(a.request, a.key, a.evidence, a.now)
  /\ seen' = [seen EXCEPT ![r] = operations'[a.request]]
  /\ Ends(r, "done")
  /\ UNCHANGED <<args, clock>>

\* The transaction refuses, or the write lock is not available.
Refuse(r) ==
  /\ stage[r] = "commit"
  /\ Ends(r, "thrown")
  /\ UNCHANGED <<tables, args, seen, clock>>

CallNext(r) == ReadOperation(r) \/ ReadEvents(r) \/ Commit(r) \/ Refuse(r)

ReportersInit ==
  /\ TablesInit
  /\ stage = [r \in Reporters |-> "idle"]
  /\ args = [r \in Reporters |-> Null]
  /\ seen = [r \in Reporters |-> Null]
  /\ outcome = [r \in Reporters |-> "none"]
  /\ clock \in Times /\ \A t \in Times : clock <= t

\* Any reporter may report anything it knows now or knew before.
ReportersNext ==
  \/ Tick
  \/ \E r \in Reporters :
       \/ CallNext(r)
       \/ \E key \in TransitionKeys, request \in Requests : \E evidence \in Evidence(key[1]) :
            /\ key[1] = "dispatch" => request = evidence.request
            /\ key[1] # "dispatch" => EvidenceTime(key[1], evidence) <= clock
            /\ Report(r, request, key, evidence, clock)

ReportersSpec == ReportersInit /\ [][ReportersNext]_vars

-----------------------------------------------------------------------------
(* Properties.                                                              *)

\* A reconciled operation went through an attempt and a confirmation, and what
\* was observed, by the method announced at the start, is what was confirmed;
\* anything else ends in recovery_required, although the checks read early.
ReconciledIsProven ==
  \A q \in Requests :
    LET chain == events[q] IN
    operations[q] # Null /\ operations[q].state \in {"reconciled", "recovery_required"} =>
      LET result == LastEvidence(chain, "result") IN
      /\ HasEvent(chain, "attempt")
      /\ ResultFits(chain, result)
      /\ operations[q].state = "reconciled" <=> result.observed = LastEvidence(chain, "confirmation").after

\* Reports that race, repeat and arrive in any order never add up to more than
\* the one path of each request: the ledger, read and written in separate steps,
\* implements the protocol that its document draws.
Confirmed(q) ==
  IF HasEvent(events[q], "confirmation") THEN LastEvidence(events[q], "confirmation").after ELSE Null
Observed(q) ==
  IF HasEvent(events[q], "result") THEN LastEvidence(events[q], "result").observed ELSE Null
Protocol == INSTANCE ReconciledExecution WITH
  dispatched <- [q \in Requests |-> IF operations[q] = Null THEN Null ELSE operations[q].receipt],
  standing   <- [q \in Requests |-> IF operations[q] = Null THEN "none" ELSE operations[q].state],
  confirmed  <- [q \in Requests |-> Confirmed(q)],
  observed   <- [q \in Requests |-> Observed(q)]
ImplementsProtocol == Protocol!Spec

\* src/docs/EXECUTION_LEDGER.md: evidence does not predate the durable state it
\* follows.
EvidenceInOrder ==
  \A q \in Requests : \A i \in 2..Len(events[q]) :
    events[q][i - 1].occurredAt <= EvidenceTime(events[q][i].method, events[q][i].evidence)
=============================================================================
