---------------------------- MODULE VerticalSlice ----------------------------
(***************************************************************************)
(* The orchestrator over the verified gateway, as src/docs/VERTICAL_SLICE.md *)
(* lists the layers and src/tests/verified-colossus-gateway.test.mjs puts  *)
(* them together: claim files outside, signed permits and the one-shot     *)
(* fence inside.  A call of the orchestrator that stands at "gateway"      *)
(* awaits a call of the gateway, whose end decides what the orchestrator   *)
(* may do next; the two ledgers are separate files and no lock spans them. *)
(* A process that dies takes both calls with it.                           *)
(***************************************************************************)
EXTENDS Orchestrator

CONSTANTS  \* of ColossusDispatch
  ApprovalIds, Signers, Approvals, TrustStores, Times, PermitTtl, Envelopes, Prints,
  UnsignedApprovals, LegacyApprovals

VARIABLES
  approvals, permits, schema, attempts, pc, call, trust, clock, keyring,
  entries,  \* calls of transport.dispatch, by key
  given     \* the approval each call of the orchestrator was given

\* The gateway binds a permit to the job as well, the claim file to the plan only.
Bindings == [job : Jobs, plan : Plans]

G == INSTANCE ColossusDispatch WITH Plans <- Bindings, Workers <- Calls, deliveries <- entries

ASSUME TimesAssumption == Times \subseteq Nat
ASSUME TtlAssumption   == PermitTtl \in Nat \ {0}
ASSUME DocsAssumption  == Approvals \subseteq G!ApprovalDocs
ASSUME TrustAssumption == TrustStores \subseteq [Signers -> G!KeyRecords]
ASSUME EnvelopeAssumption == Envelopes = G!EnvelopeShape
ASSUME NullAssumption  ==
  /\ Null \notin G!ApprovalRows /\ Null \notin G!PermitRows /\ Null \notin Keys
  /\ Null \notin Times /\ Null \notin Envelopes /\ Null \notin Prints
  /\ Null \notin G!ReceiptStatuses
ASSUME LegacyAssumption ==
  /\ UnsignedApprovals \subseteq Approvals /\ LegacyApprovals \subseteq Approvals
  /\ \A d, e \in UnsignedApprovals \cup LegacyApprovals : d.id = e.id => d = e
  /\ \A d, e \in LegacyApprovals : d.key = e.key => d = e
  /\ UnsignedApprovals \cap LegacyApprovals = {}
  /\ \A d \in LegacyApprovals :
       d.issuedAt < d.expiresAt /\ d.expiresAt <= d.issuedAt + PermitTtl

gatewayVars == <<approvals, permits, schema, attempts, pc, call, trust, clock, keyring, entries>>
sliceVars   == <<vars, gatewayVars, given>>

Binding(c) == [job |-> request[c].job, plan |-> Plan(c)]

-----------------------------------------------------------------------------
(* Processes and calls.                                                     *)

StartProcess(c) == G!Start(c) /\ UNCHANGED <<vars, given>>

EndProcess(c) ==
  /\ G!Crash(c)
  /\ IF at[c] \in Resting THEN UNCHANGED vars ELSE Crash(c)
  /\ given' = [given EXCEPT ![c] = Null]

Begin(c) ==
  /\ pc[c] # "down"
  /\ (\E m \in Moves : Move(c, m)) \/ Compensate(c)
  /\ given' = [given EXCEPT ![c] = Null]
  /\ UNCHANGED gatewayVars

-----------------------------------------------------------------------------
(* The orchestrator's part.                                                 *)

\* The gatekeeper answers; assertApprovalBinding compares and reads the clock.
Answer(c, doc) ==
  LET binds == doc.key = Key(c) /\ doc.plan = Binding(c) /\ G!InWindow(doc, clock) IN
  /\ Decide(c, IF binds THEN "bound" ELSE "unbound")
  /\ given' = [given EXCEPT ![c] = IF binds THEN doc ELSE Null]
  /\ UNCHANGED gatewayVars

\* The transition to dispatched is recorded and the gateway is called with the
\* approval.
Dispatch(c) ==
  /\ at[c] = "dispatch" /\ Advance(c)
  /\ G!Submit(c, given[c])
  /\ UNCHANGED given

\* Every other step of the orchestrator, the gateway being idle or, at the end
\* of a call of it, waiting to be heard.
Outside(c) ==
  /\ \/ at[c] # "dispatch" /\ Step(c)
     \/ at[c] = "dispatch" /\ StoreFails(c)
     \/ (at[c] # "gateway" \/ pc[c] \in {"accepted", "boundary"}) /\ Throw(c)
     \/ Observe(c)
  /\ UNCHANGED <<gatewayVars, given>>

\* The gateway resolved: its transport accepted, its records were written.
Resolved(c) ==
  /\ at[c] = "gateway" /\ pc[c] = "accepted"
  /\ Goto(c, "attempt")
  /\ UNCHANGED <<claims, jobs, audit, request, job, fresh, boundary, reached, verdict, deliveries,
                 gatewayVars, given>>

\* The gateway rejected with an error that is marked as provably pre-boundary.
RejectedWithProof(c) ==
  /\ at[c] = "gateway" /\ pc[c] = "pre_boundary"
  /\ boundary' = [boundary EXCEPT ![c] = FALSE]
  /\ Goto(c, "caught")
  /\ UNCHANGED <<claims, jobs, audit, request, job, fresh, reached, verdict, deliveries,
                 gatewayVars, given>>

-----------------------------------------------------------------------------
(* The gateway's part, while the orchestrator waits.                        *)

\* transport.dispatch is called: the mutation is on its way.
Deliver(c) ==
  /\ at[c] = "gateway" /\ G!EnterTransport(c)
  /\ reached' = [reached EXCEPT ![c] = TRUE]
  /\ deliveries' = [deliveries EXCEPT ![Key(c)] = @ + 1]
  /\ UNCHANGED <<claims, jobs, audit, at, request, job, fresh, boundary, verdict, given>>

\* The steps of the gateway that wait for nobody.
Inside(c) ==
  /\ \/ G!Register(c) \/ G!Claim(c) \/ G!Begin(c)
     \/ G!TransportFails(c) \/ G!Complete(c) \/ G!Refuse(c) \/ G!Classify(c)
  /\ at[c] = "gateway"
  /\ UNCHANGED <<vars, given>>

\* What the dispatch authority and the transport answer.
Heard(c) ==
  /\ G!Authorize(c) \/ G!AuthorityFails(c) \/ \E receipt \in G!ReceiptShape : G!Receive(c, receipt)
  /\ at[c] = "gateway"
  /\ UNCHANGED <<vars, given>>

Surroundings == (G!Tick \/ G!RotateKeys) /\ UNCHANGED <<vars, given>>

-----------------------------------------------------------------------------
SliceInit ==
  /\ Init /\ G!DispatchInit
  /\ given = [c \in Calls |-> Null]

SliceCall(c) ==
  \/ StartProcess(c) \/ EndProcess(c) \/ Begin(c)
  \/ \E doc \in Approvals : Answer(c, doc)
  \/ Dispatch(c) \/ Outside(c) \/ Resolved(c) \/ RejectedWithProof(c)
  \/ Deliver(c) \/ Inside(c) \/ Heard(c)

SliceNext == Surroundings \/ \E c \in Calls : SliceCall(c)

SliceSpec == SliceInit /\ [][SliceNext]_sliceVars

-----------------------------------------------------------------------------
(* Properties.                                                              *)

Attempted(k) == attempts[k].state \in {"started", "accepted", "rejected"}

\* Whatever the inner fence has reserved is still claimed outside, for the plan
\* of the permit it was reserved with: no order of refusals, crashes and retries
\* lets the outer ledger forget a key the inner one has used, so no other call
\* ever finds it free.
AttemptedKeysStayClaimed ==
  \A k \in Keys :
    Attempted(k) =>
      /\ claims[k].state \in {"claimed", "completed"}
      /\ claims[k].plan = permits[k].plan.plan

\* A key is completed outside only if the transport accepted it inside.
CompletedKeysWereAccepted ==
  \A k \in Keys : claims[k].state = "completed" => attempts[k].state = "accepted"

\* The two ledgers, written in different files at different times, never
\* contradict each other about a key.
LayersAgree == AttemptedKeysStayClaimed /\ CompletedKeysWereAccepted

\* The gateway is the environment Orchestrator assumes: it gives its proof only
\* to a call that sent nothing, a receipt only to one that did, and lets each
\* call through once.  So what holds of the orchestrator holds of the slice.
ImplementsOrchestrator == Spec
=============================================================================
