-------------------------- MODULE ColossusDispatch --------------------------
(***************************************************************************)
(* Calls of VerifiedColossusGateway.dispatch up to the durable outcome of  *)
(* their transport attempt: register the approval, claim the permit, await *)
(* the authority, reserve the attempt, enter the transport, race its       *)
(* answer against the timeout, complete the attempt, classify a failure.   *)
(* A worker is one such call in one process; several processes share the   *)
(* ledger file.  Each ledger transaction is one step, and the clock, the   *)
(* key configuration and the other workers move between them.  The         *)
(* transport and the provider behind it are external: they may answer      *)
(* anything, late, or never.                                               *)
(***************************************************************************)
EXTENDS ClaimLedger

CONSTANT Workers

VARIABLES
  pc,         \* where each worker stands
  call,       \* the local variables of its call
  trust,      \* the trust store its process was constructed with
  clock,      \* the time
  keyring,    \* the key records a process started now would load
  deliveries  \* how often transport.dispatch was called, by idempotency key

workerVars == <<pc, call, trust>>
vars == <<ledgerVars, workerVars, clock, keyring, deliveries>>

\* The envelope is fingerprinted with the request and the time of dispatch.
EnvelopeShape == [key : Keys, plan : Plans, createdAt : Times]
ReceiptShape  == [status : ReceiptStatuses, print : Prints]

ASSUME EnvelopeAssumption == Envelopes = EnvelopeShape

Resting == {"idle", "accepted", "pre_boundary", "boundary"}
Working == {"submitted", "registered", "claimed", "authorized", "begun",
            "waiting", "received", "failing"}

CallShape == [doc : Approvals \cup {Null}, now : Times \cup {Null},
              permit : PermitRows \cup {Null}, envelope : Envelopes \cup {Null},
              receipt : ReceiptShape \cup {Null}]

NoCall == [doc |-> Null, now |-> Null, permit |-> Null, envelope |-> Null, receipt |-> Null]

WorkersTypeOK ==
  /\ TypeOK
  /\ pc \in [Workers -> {"down"} \cup Resting \cup Working]
  /\ call \in [Workers -> CallShape]
  /\ trust \in [Workers -> TrustStores]
  /\ clock \in Times
  /\ keyring \in TrustStores
  /\ deliveries \in [Keys -> Nat]

Goto(w, label) == pc' = [pc EXCEPT ![w] = label]

SubjectOf(doc) == [approval |-> doc.id, key |-> doc.key, plan |-> doc.plan]

-----------------------------------------------------------------------------
(* Mutants: what a plausible slip in the code would make of the definitions  *)
(* below.  Nothing uses them but the runs that show which property notices.  *)

\* A failed delivery is tried once more.
EnterTransportAgain(w) ==
  /\ pc[w] \in {"begun", "failing"} /\ call[w].envelope # Null
  /\ deliveries' = [deliveries EXCEPT ![call[w].doc.key] = @ + 1]
  /\ Goto(w, "waiting")
  /\ UNCHANGED <<ledgerVars, call, trust, clock, keyring>>

\* Nothing bounds the wait for the transport.
TransportNeverFails(w) ==
  /\ pc[w] = "waiting" /\ call[w].receipt # Null
  /\ Goto(w, "failing")
  /\ UNCHANGED <<ledgerVars, call, trust, clock, keyring, deliveries>>

\* An attempt without an outcome is taken for one that was not made.
ClassifyByOutcome(w) ==
  /\ pc[w] = "failing"
  /\ Goto(w, IF call[w].permit = Null \/ attempts[call[w].doc.key].state \in {"none", "started"}
               THEN "pre_boundary" ELSE "boundary")
  /\ UNCHANGED <<ledgerVars, call, trust, clock, keyring, deliveries>>

-----------------------------------------------------------------------------
(* Time, configuration, processes.                                          *)

Tick ==
  /\ clock + 1 \in Times
  /\ clock' = clock + 1
  /\ UNCHANGED <<ledgerVars, workerVars, keyring, deliveries>>

RotateKeys ==
  /\ keyring' \in TrustStores
  /\ UNCHANGED <<ledgerVars, workerVars, clock, deliveries>>

\* A process starts: it loads the key records and opens the ledger.
Start(w) ==
  /\ pc[w] = "down"
  /\ OpenStore
  /\ Goto(w, "idle")
  /\ trust' = [trust EXCEPT ![w] = keyring]
  /\ UNCHANGED <<call, clock, keyring, deliveries>>

\* A process dies between two steps and forgets its call.
Crash(w) ==
  /\ pc[w] # "down"
  /\ Goto(w, "down")
  /\ call' = [call EXCEPT ![w] = NoCall]
  /\ UNCHANGED <<ledgerVars, trust, clock, keyring, deliveries>>

-----------------------------------------------------------------------------
(* One call of dispatch.                                                    *)

\* dispatch(input): the approval, plan and subject agree; the clock is read
\* once for both ledger transactions.
Submit(w, doc) ==
  /\ pc[w] \in Resting
  /\ call' = [call EXCEPT ![w] = [NoCall EXCEPT !.doc = doc, !.now = clock]]
  /\ Goto(w, "submitted")
  /\ UNCHANGED <<ledgerVars, trust, clock, keyring, deliveries>>

Register(w) ==
  /\ pc[w] = "submitted"
  /\ RegisterApproval(call[w].doc, trust[w], call[w].now)
  /\ Goto(w, "registered")
  /\ UNCHANGED <<call, trust, clock, keyring, deliveries>>

Claim(w) ==
  LET subject == SubjectOf(call[w].doc) IN
  /\ pc[w] = "registered"
  /\ ClaimDispatchPermit(subject, trust[w], call[w].now)
  /\ call' = [call EXCEPT ![w].permit = permits'[subject.key]]
  /\ Goto(w, "claimed")
  /\ UNCHANGED <<trust, clock, keyring, deliveries>>

\* The dispatch authority answered; the request is built and the clock is read
\* for the dispatch, which fixes the envelope.
Authorize(w) ==
  /\ pc[w] = "claimed"
  /\ call' = [call EXCEPT ![w].envelope =
       [key |-> call[w].doc.key, plan |-> call[w].doc.plan, createdAt |-> clock]]
  /\ Goto(w, "authorized")
  /\ UNCHANGED <<ledgerVars, trust, clock, keyring, deliveries>>

\* The authority answers with an error, or with a malformed grant.
AuthorityFails(w) ==
  /\ pc[w] = "claimed"
  /\ Goto(w, "failing")
  /\ UNCHANGED <<ledgerVars, call, trust, clock, keyring, deliveries>>

\* The adapter validates the permit and the ledger reserves its one attempt,
\* with the time read before the write lock was waited for.
Begin(w) ==
  /\ pc[w] = "authorized"
  /\ BeginDispatchAttempt(call[w].doc.key, call[w].permit, call[w].envelope,
                          call[w].envelope.createdAt)
  /\ Goto(w, "begun")
  /\ UNCHANGED <<call, trust, clock, keyring, deliveries>>

\* dispatchOnce calls transport.dispatch.
EnterTransport(w) ==
  /\ pc[w] = "begun"
  /\ deliveries' = [deliveries EXCEPT ![call[w].doc.key] = @ + 1]
  /\ Goto(w, "waiting")
  /\ UNCHANGED <<ledgerVars, call, trust, clock, keyring>>

\* The transport resolves in time with a receipt validateReceipt accepts.
Receive(w, receipt) ==
  /\ pc[w] = "waiting"
  /\ call' = [call EXCEPT ![w].receipt = receipt]
  /\ Goto(w, "received")
  /\ UNCHANGED <<ledgerVars, trust, clock, keyring, deliveries>>

\* The timer fires first, or the transport throws, or its receipt is not bound
\* to the request: whatever the provider does later goes unheard.
TransportFails(w) ==
  /\ pc[w] = "waiting"
  /\ Goto(w, "failing")
  /\ UNCHANGED <<ledgerVars, call, trust, clock, keyring, deliveries>>

\* The outcome is stored with a local time no earlier than the dispatch.
Complete(w) ==
  LET c == call[w]
      now == IF clock < c.envelope.createdAt THEN c.envelope.createdAt ELSE clock
  IN
  /\ pc[w] = "received"
  /\ CompleteDispatchAttempt(c.doc.key, c.permit, c.envelope,
                             c.receipt.status, c.receipt.print, now)
  /\ Goto(w, IF c.receipt.status = "dispatched" THEN "accepted" ELSE "failing")
  /\ UNCHANGED <<call, trust, clock, keyring, deliveries>>

\* A step throws: the ledger refuses it, or its write lock is not available in
\* time, or a check of the request fails before the fence.
Refuse(w) ==
  /\ pc[w] \in {"submitted", "registered", "authorized", "received"}
  /\ Goto(w, "failing")
  /\ UNCHANGED <<ledgerVars, call, trust, clock, keyring, deliveries>>

\* classifyDispatchFailure: only a call that holds no permit, or whose permit
\* provably has no attempt, is reported as failed before the provider.
Classify(w) ==
  /\ pc[w] = "failing"
  /\ \/ /\ call[w].permit = Null \/ attempts[call[w].doc.key].state = "none"
        /\ Goto(w, "pre_boundary")
     \/ /\ call[w].permit # Null   \* an attempt exists, or the lookup threw
        /\ Goto(w, "boundary")
  /\ UNCHANGED <<ledgerVars, call, trust, clock, keyring, deliveries>>

-----------------------------------------------------------------------------
DispatchInit ==
  /\ Init
  /\ pc = [w \in Workers |-> "down"]
  /\ call = [w \in Workers |-> NoCall]
  /\ trust \in [Workers -> TrustStores]
  /\ clock \in Times /\ \A t \in Times : clock <= t
  /\ keyring \in TrustStores
  /\ deliveries = [k \in Keys |-> IF attempts[k].state = "none" THEN 0 ELSE 1]

\* What a worker's own process does next without anyone's help: it runs its
\* synchronous steps, and the dispatch timer bounds the wait for the transport.
\* Nothing bounds the wait for the authority, so Authorize is not among them.
Step(w) ==
  \/ Register(w) \/ Claim(w) \/ Begin(w) \/ EnterTransport(w)
  \/ TransportFails(w) \/ Complete(w) \/ Refuse(w) \/ Classify(w)

WorkerNext(w) ==
  \/ Start(w) \/ Crash(w)
  \/ \E doc \in Approvals : Submit(w, doc)
  \/ Authorize(w) \/ AuthorityFails(w)
  \/ \E receipt \in ReceiptShape : Receive(w, receipt)
  \/ Step(w)

DispatchNext == Tick \/ RotateKeys \/ \E w \in Workers : WorkerNext(w)

DispatchSpec == DispatchInit /\ [][DispatchNext]_vars
FairSpec == DispatchSpec /\ \A w \in Workers : WF_vars(Step(w))

-----------------------------------------------------------------------------
(* Properties.                                                              *)

InFlight(w) == pc[w] \in {"begun", "waiting", "received"}

\* However many processes hold the same permit, crash, time out and are asked
\* again, transport.dispatch is called at most once for an idempotency key, and
\* never again for one that was attempted under the earlier schema.
AtMostOneEntry == \A k \in Keys : deliveries[k] <= 1

\* A call past the fence owns it: the row it reserved is still open with its own
\* envelope, and no other call is past the fence for that key.
ReservationIsExclusive ==
  \A w \in Workers :
    InFlight(w) =>
      LET k == call[w].doc.key IN
      /\ attempts[k].state = "started" /\ attempts[k].envelope = call[w].envelope
      /\ \A v \in Workers \ {w} : InFlight(v) => call[v].doc.key # k

\* What reaches the transport was approved: by the document recorded under that
\* approval id, under a key this process trusts (also when its permit came from
\* another process), for this key and plan, inside the approval's window at the
\* time of dispatch.
EntryIsAuthorized ==
  \A w \in Workers :
    InFlight(w) =>
      LET doc == call[w].doc IN
      /\ approvals[doc.id].doc = doc
      /\ VerifiesUnder(trust[w], doc)
      /\ permits[doc.key].approval = doc.id /\ permits[doc.key].plan = doc.plan
      /\ InWindow(doc, call[w].envelope.createdAt)

\* A call reports success only for the outcome the ledger holds.
AcceptedIsDurable ==
  \A w \in Workers :
    pc[w] = "accepted" =>
      LET row == attempts[call[w].doc.key] IN
      /\ row.state = "accepted"
      /\ row.envelope = call[w].envelope /\ row.print = call[w].receipt.print

\* A call that held a permit is reported as failed before the provider only
\* when nobody has entered the transport with that permit.
PreBoundaryIsProven ==
  [][\A w \in Workers :
       pc[w] # "pre_boundary" /\ pc'[w] = "pre_boundary" /\ call[w].permit # Null =>
         deliveries[call[w].doc.key] = 0]_vars

\* An attempt whose process died, timed out or could not store the answer stays
\* open for recovery: no later call closes it, releases it or takes it over.
StrandedAttemptsStayOpen ==
  [][\A k \in Keys :
       attempts[k].state = "started"
         /\ ~ (\E w \in Workers : InFlight(w) /\ call[w].doc.key = k) =>
       attempts'[k] = attempts[k]]_vars

\* Once it has its authority a call ends, although the transport may never answer
\* and any ledger call may be refused, unless its process dies.
AuthorizedCallsSettle ==
  \A w \in Workers :
    pc[w] = "authorized" ~> pc[w] \in Resting \cup {"down"}

-----------------------------------------------------------------------------
\* The abstract fence, read off the ledger and the entries made.
Fence == INSTANCE OneShot WITH
  reserved <- {k \in Keys : attempts[k].state # "none"},
  entered  <- deliveries,
  outcome  <- [k \in Keys |-> IF attempts[k].state \in {"accepted", "rejected"}
                                THEN attempts[k].state ELSE "unknown"]

\* Workers, ledger and transport together keep the promise of the fence.
ImplementsOneShot == Fence!Spec
=============================================================================
