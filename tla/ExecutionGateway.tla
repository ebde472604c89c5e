-------------------------- MODULE ExecutionGateway --------------------------
(***************************************************************************)
(* What VerifiedColossusGateway does with an accepted dispatch: dispatch   *)
(* records the receipt through the DurableDispatchCoordinator, its attempt *)
(* and the provider's confirmation; reconcile records the start and the    *)
(* result of an observation.  Every record is a call of the façade of      *)
(* VerifiedExecution, with its own reads and transaction.  Between them    *)
(* the call awaits the evidence bridge, which is external.  That a receipt *)
(* is returned once per idempotency key is the fence's part, and what      *)
(* VerifiedGateway shows of the two together.                              *)
(***************************************************************************)
EXTENDS VerifiedExecution

VARIABLES
  step,     \* where each gateway call stands
  answered  \* idempotency keys whose single receipt was returned

gatewayVars == <<step, answered>>
allVars == <<vars, gatewayVars>>

ASSUME GatewayKeys        == TransitionKeys = Methods \X Requests  \* `attempt:${requestId}` etc.
ASSUME ReceivedAssumption == \A receipt \in Receipts : receipt.receivedAt \in Times

Resting == {"free", "confirmed", "reconciled", "failed"}

GatewayTypeOK ==
  /\ ReportersTypeOK
  /\ step \in [Reporters -> Resting \cup {"recording", "attempting", "confirming",
                                          "starting", "resolving"}]
  /\ answered \subseteq {receipt.key : receipt \in Receipts}

Becomes(r, s) == step' = [step EXCEPT ![r] = s]

\* The façade call of the previous step returned.
Returned(r, s) == step[r] = s /\ stage[r] = "idle" /\ outcome[r] = "done"

-----------------------------------------------------------------------------
(* dispatch                                                                 *)

\* dispatchAndRecord: the adapter returns the receipt, whose own receivedAt the
\* coordinator gives the ledger as the time of the transition.
Accept(r, receipt) ==
  /\ step[r] \in Resting
  /\ receipt.key \notin answered
  /\ Report(r, receipt.request, <<"dispatch", receipt.request>>, receipt, receipt.receivedAt)
  /\ Becomes(r, "recording")
  /\ answered' = answered \cup {receipt.key}

\* The next record of the same request, at the present time.
Continue(r, from, method, evidence, to) ==
  LET q == args[r].request IN
  /\ Returned(r, from)
  /\ Report(r, q, <<method, q>>, evidence, clock)
  /\ Becomes(r, to)
  /\ UNCHANGED answered

Attempt(r) == Continue(r, "recording", "attempt", [startedAt |-> clock], "attempting")

\* awaitProviderConfirmation returned; the provider dates its confirmation.
Confirm(r, confirmation) ==
  Continue(r, "attempting", "confirmation", confirmation, "confirming")

\* The head the transaction returned is checked before dispatch returns, and so
\* is the chain, whose head and events verifyEventChain reads one after the
\* other: a call that goes on with the operation meanwhile makes it throw.
ReturnConfirmation(r) ==
  /\ Returned(r, "confirming")
  /\ \/ Becomes(r, IF seen[r].state = "provider_confirmed" THEN "confirmed" ELSE "failed")
     \/ operations[args[r].request].version > seen[r].version /\ Becomes(r, "failed")
  /\ UNCHANGED <<vars, answered>>

-----------------------------------------------------------------------------
(* reconcile                                                                *)

\* A mutant of StartReconciliation: an interrupted reconciliation is resumed.
ResumeReconciliation(r, q, observer) ==
  /\ step[r] \in Resting
  /\ operations[q] # Null /\ operations[q].state \in {"provider_confirmed", "reconciling"}
  /\ Report(r, q, <<"start", q>>, [observer |-> observer, startedAt |-> clock], clock)
  /\ Becomes(r, "starting")
  /\ UNCHANGED answered

\* Only an operation found provider-confirmed is reconciled.
StartReconciliation(r, q, observer) ==
  /\ step[r] \in Resting
  /\ operations[q] # Null /\ operations[q].state = "provider_confirmed"
  /\ Report(r, q, <<"start", q>>, [observer |-> observer, startedAt |-> clock], clock)
  /\ Becomes(r, "starting")
  /\ UNCHANGED answered

Resolve(r, result) == Continue(r, "starting", "result", result, "resolving")

\* A mutant of ReturnReconciliation: the stored state is not looked at.
ReturnAnyReconciliation(r) ==
  /\ Returned(r, "resolving")
  /\ Becomes(r, "reconciled")
  /\ UNCHANGED <<vars, answered>>

ReturnReconciliation(r) ==
  /\ Returned(r, "resolving")
  /\ Becomes(r, IF seen[r].state = "reconciled" THEN "reconciled" ELSE "failed")
  /\ UNCHANGED <<vars, answered>>

-----------------------------------------------------------------------------
(* Failures                                                                 *)

\* The façade threw, or the bridge did before its evidence was reported.
Fail(r) ==
  /\ step[r] \notin Resting
  /\ stage[r] = "idle"
  /\ outcome[r] = "thrown" \/ step[r] \in {"attempting", "starting"}
  /\ Becomes(r, "failed")
  /\ UNCHANGED <<vars, answered>>

\* The process dies between two steps.
Crash(r) ==
  /\ step[r] \notin Resting
  /\ Becomes(r, "free")
  /\ Goto(r, "idle")
  /\ args' = [args EXCEPT ![r] = Null]
  /\ seen' = [seen EXCEPT ![r] = Null]
  /\ outcome' = [outcome EXCEPT ![r] = "none"]
  /\ UNCHANGED <<tables, clock, answered>>

GatewayInit ==
  /\ ReportersInit
  /\ step = [r \in Reporters |-> "free"]
  /\ answered = {}

GatewayCall(r) ==
  \/ CallNext(r) /\ UNCHANGED gatewayVars
  \/ \E receipt \in Receipts : Accept(r, receipt)
  \/ Attempt(r)
  \/ \E confirmation \in Confirmations : Confirm(r, confirmation)
  \/ ReturnConfirmation(r)
  \/ \E q \in Requests, observer \in Observers : StartReconciliation(r, q, observer)
  \/ \E result \in Results : Resolve(r, result)
  \/ ReturnReconciliation(r)
  \/ Fail(r) \/ Crash(r)

GatewayNext ==
  \/ Tick /\ UNCHANGED gatewayVars
  \/ \E r \in Reporters : GatewayCall(r)

GatewaySpec == GatewayInit /\ [][GatewayNext]_allVars

-----------------------------------------------------------------------------
(* Properties.                                                              *)

\* src/docs/EXECUTION_LEDGER.md: no evidence predates the durable state it
\* follows or postdates its own record.  The façade alone cannot promise it
\* (EvidenceInOrder); the gateway, which reports each method once per request
\* and dispatches a request from one call only, can.
EvidenceInsideWindow ==
  /\ EvidenceInOrder
  /\ \A q \in Requests : \A i \in 2..Len(events[q]) :
       EvidenceTime(events[q][i].method, events[q][i].evidence) <= events[q][i].occurredAt

\* What a call returned to the orchestrator is what the ledger holds: the
\* confirmation of dispatch is stored and still stands, and a reconciliation
\* reported as successful is the one stored result, whoever else reconciles.
ReturnsAreDurable ==
  \A r \in Reporters :
    /\ step[r] = "confirmed" =>
         LastEvidence(events[args[r].request], "confirmation") = args[r].evidence
    /\ step[r] = "reconciled" =>
         /\ operations[args[r].request].state = "reconciled"
         /\ LastEvidence(events[args[r].request], "result") = args[r].evidence

\* An operation whose call died or threw before it was finished keeps its state
\* for ever: no later dispatch or reconcile resumes it, finishes it from other
\* evidence or takes it for confirmed.
Stands(q, state) == operations[q] # Null /\ operations[q].state = state
Unattended(q, state) ==
  /\ Stands(q, state)
  /\ \A r \in Reporters : step[r] \notin Resting => args[r].request # q
StrandedOperationsStayOpen ==
  \A q \in Requests, state \in {"dispatched", "attempted", "reconciling"} :
    [](Unattended(q, state) => []Stands(q, state))

\* src/docs/CLAIM_LEDGER.md: the provider's timestamp is never promoted into the
\* local transition clock, so no transition is dated after the present.
TransitionsAreLocallyTimed ==
  \A q \in Requests : operations[q] # Null => operations[q].updatedAt <= clock
=============================================================================
