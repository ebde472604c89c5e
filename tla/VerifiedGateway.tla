--------------------------- MODULE VerifiedGateway ---------------------------
(***************************************************************************)
(* VerifiedColossusGateway as one component: calls of dispatch, from the   *)
(* signed approval over the one-shot fence to the provider's confirmation, *)
(* and calls of reconcile, in processes that share both database files.    *)
(* The receipt that leaves the fence is the one the execution ledger gets; *)
(* no transaction spans the two files.  A process that dies loses the call *)
(* wherever it is.                                                         *)
(***************************************************************************)
EXTENDS ExecutionGateway

CONSTANTS  \* of ColossusDispatch
  Keys, Plans, ApprovalIds, Signers, Approvals, TrustStores, PermitTtl, Envelopes,
  Fingerprints, \* of receipts
  UnsignedApprovals, LegacyApprovals

VARIABLES approvals, permits, schema, attempts, pc, call, trust, keyring, deliveries

D == INSTANCE ColossusDispatch WITH Workers <- Reporters, Prints <- Fingerprints

\* requestIdentity is a hash of the subject, so a request is its key and plan.
ASSUME RequestAssumption == Requests = [key : Keys, plan : Plans]
ASSUME TtlAssumption   == PermitTtl \in Nat \ {0}
ASSUME DocsAssumption  == Approvals \subseteq D!ApprovalDocs
ASSUME TrustAssumption == TrustStores \subseteq [Signers -> D!KeyRecords]
ASSUME EnvelopeAssumption == Envelopes = D!EnvelopeShape
ASSUME NoRowAssumption ==
  /\ Null \notin D!ApprovalRows /\ Null \notin D!PermitRows /\ Null \notin Keys
  /\ Null \notin Times /\ Null \notin Envelopes /\ Null \notin Fingerprints
  /\ Null \notin D!ReceiptStatuses
ASSUME LegacyAssumption ==
  /\ UnsignedApprovals \subseteq Approvals /\ LegacyApprovals \subseteq Approvals
  /\ \A d, e \in UnsignedApprovals \cup LegacyApprovals : d.id = e.id => d = e
  /\ \A d, e \in LegacyApprovals : d.key = e.key => d = e
  /\ UnsignedApprovals \cap LegacyApprovals = {}
  /\ \A d \in LegacyApprovals :
       d.issuedAt < d.expiresAt /\ d.expiresAt <= d.issuedAt + PermitTtl

fenceVars   == <<approvals, permits, schema, attempts, pc, call, trust, keyring, deliveries>>
ledgerSide  == <<tables, reporterVars, gatewayVars>>
verifiedVars == <<allVars, fenceVars>>

\* A mutant of Answers: a receipt for an earlier envelope of the request will do.
AnswersRequest(receipt, c) ==
  /\ receipt.request = [key |-> c.doc.key, plan |-> c.doc.plan]
  /\ receipt.key = c.doc.key

\* validateReceipt: a receipt is bound to the request, its key and the envelope.
Answers(receipt, c) ==
  /\ receipt.request = [key |-> c.doc.key, plan |-> c.doc.plan]
  /\ receipt.key = c.doc.key
  /\ receipt.envelope = c.envelope

-----------------------------------------------------------------------------
(* The first half of dispatch, up to the stored transport outcome.          *)

Dispatch(r, doc) ==
  /\ step[r] \in Resting
  /\ D!Submit(r, doc)
  /\ UNCHANGED ledgerSide

\* The steps up to the transport's answer, and those of a call that fails.
Fence(r) ==
  /\ \/ D!Register(r) \/ D!Claim(r) \/ D!Authorize(r) \/ D!AuthorityFails(r) \/ D!Begin(r)
     \/ D!EnterTransport(r) \/ D!TransportFails(r) \/ D!Refuse(r) \/ D!Classify(r)
     \/ \E receipt \in D!ReceiptShape : D!Receive(r, receipt)
  /\ UNCHANGED ledgerSide

\* The transport reported anything but "dispatched".
Rejected(r) ==
  /\ D!Complete(r) /\ pc'[r] = "failing"
  /\ UNCHANGED ledgerSide

\* The outcome is stored as accepted, the adapter returns the receipt and the
\* coordinator calls the execution ledger with it.
Accepted(r) ==
  /\ D!Complete(r) /\ pc'[r] = "accepted"
  /\ \E receipt \in Receipts :
       /\ Answers(receipt, call[r])
       /\ Report(r, receipt.request, <<"dispatch", receipt.request>>, receipt, receipt.receivedAt)
       /\ answered' = answered \cup {receipt.key}
  /\ Becomes(r, "recording")

-----------------------------------------------------------------------------
(* The second half of dispatch, and reconcile.                              *)

Record(r) ==
  /\ \/ CallNext(r) /\ UNCHANGED gatewayVars
     \/ Attempt(r) \/ ReturnConfirmation(r) \/ ReturnReconciliation(r) \/ Fail(r)
     \/ \E confirmation \in Confirmations : Confirm(r, confirmation)
     \/ \E result \in Results : Resolve(r, result)
  /\ UNCHANGED fenceVars

Reconcile(r, q, observer) ==
  /\ pc[r] \in D!Resting
  /\ StartReconciliation(r, q, observer)
  /\ UNCHANGED fenceVars

-----------------------------------------------------------------------------
(* Processes, keys, time.                                                   *)

StartProcess(r) == D!Start(r) /\ UNCHANGED ledgerSide

EndProcess(r) ==
  /\ D!Crash(r)
  /\ IF step[r] \in Resting THEN UNCHANGED ledgerSide ELSE Crash(r)

Surroundings == (D!Tick \/ D!RotateKeys) /\ UNCHANGED ledgerSide

VerifiedInit == GatewayInit /\ D!DispatchInit

VerifiedCall(r) ==
  \/ \E doc \in Approvals : Dispatch(r, doc)
  \/ Fence(r) \/ Rejected(r) \/ Accepted(r) \/ Record(r)
  \/ \E q \in Requests, observer \in Observers : Reconcile(r, q, observer)
  \/ StartProcess(r) \/ EndProcess(r)

VerifiedNext == Surroundings \/ \E r \in Reporters : VerifiedCall(r)

VerifiedSpec == VerifiedInit /\ [][VerifiedNext]_verifiedVars

-----------------------------------------------------------------------------
(* Properties.                                                              *)

\* A receipt is the answer to the one accepted attempt of its key, which was made
\* for the plan its permit was issued for.
Followed(receipt) ==
  LET attempt == attempts[receipt.key]
      permit  == permits[receipt.key]
  IN
  /\ attempt.state = "accepted" /\ attempt.envelope = receipt.envelope
  /\ deliveries[receipt.key] = 1
  /\ permit # Null /\ receipt.request = [key |-> receipt.key, plan |-> permit.plan]

\* The execution ledger holds what went through the fence and nothing else,
\* although no transaction spans the two files and processes die between them:
\* no operation stands for a dispatch that was rejected, is uncertain, was sent
\* twice, or was permitted for another plan.
RecordsFollowTheFence ==
  \A q \in Requests :
    operations[q] # Null => operations[q].receipt.request = q /\ Followed(operations[q].receipt)

\* The fence is what ExecutionGateway takes for granted: it lets one receipt per
\* key through.  So what holds of the gateway's records holds behind the fence.
ImplementsGateway == GatewaySpec
=============================================================================
