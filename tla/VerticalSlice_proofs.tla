------------------------ MODULE VerticalSlice_proofs ------------------------
(***************************************************************************)
(* Proofs about VerticalSlice for any number of calls, keys and approvals. *)
(* Every step of the slice is a step of the gateway or leaves it alone, so *)
(* the theorems of ColossusDispatch_proofs hold of it.  For the            *)
(* orchestrator that has to be earned: its environment may resolve only    *)
(* after the mutation and give its proof only before it, and that follows  *)
(* from where the awaited gateway call stands and from who owns the claim  *)
(* of its key.                                                             *)
(***************************************************************************)
EXTENDS VerticalSlice, Orchestrator_proofs

\* The theorems about the gateway, with the slice's parameters.
GP == INSTANCE ColossusDispatch_proofs
  WITH Plans <- Bindings, Workers <- Calls, deliveries <- entries

Bound(c, doc) == doc \in Approvals /\ doc.key = Key(c) /\ doc.plan = Binding(c)

\* A call of the gateway that has reserved nothing, and one that has sent.
Unreserved == {"submitted", "registered", "claimed", "authorized", "pre_boundary"}
Sent       == {"waiting", "received", "accepted"}
Ways       == {"submitted", "registered", "claimed", "authorized", "begun", "waiting",
               "received", "failing", "accepted", "pre_boundary", "boundary"}

\* The gateway's call while the orchestrator's awaits it.
Served(c) ==
  /\ Bound(c, call[c].doc)
  /\ pc[c] \in Ways
  /\ pc[c] \in Unreserved => ~ Attempted(Key(c))
  /\ pc[c] \in Sent => reached[c]
  /\ reached[c] => pc[c] \in Sent \cup {"failing", "boundary"} /\ Attempted(Key(c))
  /\ pc[c] = "begun" => Attempted(Key(c))
  /\ Attempted(Key(c)) => call[c].permit # Null
  /\ call[c].permit # Null => permits[Key(c)] # Null /\ permits[Key(c)].plan = Binding(c)
  /\ pc[c] = "accepted" => attempts[Key(c)].state = "accepted"

Linked(c) ==
  /\ at[c] \in {"claim", "write", "approve", "dispatch"} => Bound(c, given[c])
  /\ at[c] = "gateway" => Served(c)
  /\ fresh[c] /\ Attempted(Key(c)) => boundary[c]
  /\ at[c] \in Received => attempts[Key(c)].state = "accepted"

SliceInv ==
  /\ OInv
  /\ GP!DInv
  /\ given \in [Calls -> Approvals \cup {Null}]
  /\ \A c \in Calls : Linked(c)
  /\ LayersAgree
  /\ \A k \in Keys : Attempted(k) => permits[k] # Null

-----------------------------------------------------------------------------
(* The gateway of the slice is the gateway of the theorems.                 *)

\* What the theorems about the gateway assume of its constants.
LEMMA GatewayAssumptions ==
  /\ Times \subseteq Nat /\ PermitTtl \in Nat \ {0} /\ Approvals \subseteq GP!ApprovalDocs
  /\ TrustStores \subseteq [Signers -> GP!KeyRecords] /\ Envelopes = GP!EnvelopeShape
  /\ Null \notin GP!ApprovalRows /\ Null \notin GP!PermitRows /\ Null \notin Keys
  /\ Null \notin Times /\ Null \notin Envelopes /\ Null \notin Prints
  /\ Null \notin GP!ReceiptStatuses
  /\ UnsignedApprovals \subseteq Approvals /\ LegacyApprovals \subseteq Approvals
  /\ \A c, d \in UnsignedApprovals \cup LegacyApprovals : c.id = d.id => c = d
  /\ \A c, d \in LegacyApprovals : c.key = d.key => c = d
  /\ UnsignedApprovals \cap LegacyApprovals = {}
  /\ \A c \in LegacyApprovals :
       c.issuedAt < c.expiresAt /\ c.expiresAt <= c.issuedAt + PermitTtl
BY TimesAssumption, TtlAssumption, DocsAssumption, TrustAssumption, NullAssumption,
   EnvelopeAssumption, LegacyAssumption
DEF G!ApprovalDocs, GP!ApprovalDocs, G!KeyRecords, GP!KeyRecords, G!KeyStatuses, GP!KeyStatuses,
    G!EnvelopeShape, GP!EnvelopeShape, G!ApprovalRows, GP!ApprovalRows, G!PermitRows,
    GP!PermitRows, G!ReceiptStatuses, GP!ReceiptStatuses

\* The two instances of the gateway start alike.
LEMMA SameInit == G!DispatchInit => GP!DispatchInit
BY DEF G!DispatchInit, GP!DispatchInit, G!Init, GP!Init, G!LegacyPermit, GP!LegacyPermit,
       G!LegacyRows, GP!LegacyRows, G!LegacyRow, GP!LegacyRow, G!NoAttempt, GP!NoAttempt,
       G!NoCall, GP!NoCall

\* They register, claim and authorize alike.
LEMMA SamePermit ==
  ASSUME NEW c \in Calls
  PROVE  /\ G!Register(c) => GP!Register(c)
         /\ G!Claim(c) => GP!Claim(c)
         /\ G!Authorize(c) => GP!Authorize(c)
         /\ G!AuthorityFails(c) => GP!AuthorityFails(c)
<1>1. G!Register(c) => GP!Register(c)
  BY DEF G!Register, GP!Register, G!RegisterApproval, GP!RegisterApproval, G!CanRegister,
         GP!CanRegister, G!VerifiesUnder, GP!VerifiesUnder, G!InWindow, GP!InWindow,
         G!NewApprovalRow, GP!NewApprovalRow, G!Goto, GP!Goto
<1>2. G!Claim(c) => GP!Claim(c)
  BY DEF G!Claim, GP!Claim, G!ClaimDispatchPermit, GP!ClaimDispatchPermit, G!CanClaim,
         GP!CanClaim, G!CanReplayClaim, GP!CanReplayClaim, G!SubjectOf, GP!SubjectOf, G!Binds,
         GP!Binds, G!VerifiesUnder, GP!VerifiesUnder, G!InWindow, GP!InWindow, G!NewPermit,
         GP!NewPermit, G!Earlier, GP!Earlier, G!Goto, GP!Goto, G!ledgerVars, GP!ledgerVars
<1>3. /\ G!Authorize(c) => GP!Authorize(c)
      /\ G!AuthorityFails(c) => GP!AuthorityFails(c)
  BY DEF G!Authorize, GP!Authorize, G!AuthorityFails, GP!AuthorityFails, G!Goto, GP!Goto,
         G!ledgerVars, GP!ledgerVars
<1> QED
  BY <1>1, <1>2, <1>3

\* They reserve, enter the transport and settle alike.
LEMMA SameAttempt ==
  ASSUME NEW c \in Calls
  PROVE  /\ G!Begin(c) => GP!Begin(c)
         /\ G!EnterTransport(c) => GP!EnterTransport(c)
         /\ \A receipt \in G!ReceiptShape :
              receipt \in GP!ReceiptShape /\ (G!Receive(c, receipt) => GP!Receive(c, receipt))
         /\ G!TransportFails(c) => GP!TransportFails(c)
         /\ G!Complete(c) => GP!Complete(c)
         /\ G!Refuse(c) => GP!Refuse(c)
         /\ G!Classify(c) => GP!Classify(c)
<1> USE DEF G!Goto, GP!Goto, G!ledgerVars, GP!ledgerVars
<1>1. G!Begin(c) => GP!Begin(c)
  BY DEF G!Begin, GP!Begin, G!BeginDispatchAttempt, GP!BeginDispatchAttempt, G!CanBegin,
         GP!CanBegin, G!NewAttempt, GP!NewAttempt
<1>2. G!EnterTransport(c) => GP!EnterTransport(c)
  BY DEF G!EnterTransport, GP!EnterTransport
<1>3. \A receipt \in G!ReceiptShape :
        receipt \in GP!ReceiptShape /\ (G!Receive(c, receipt) => GP!Receive(c, receipt))
  BY DEF G!Receive, GP!Receive, G!ReceiptShape, GP!ReceiptShape,
         G!ReceiptStatuses, GP!ReceiptStatuses
<1>4. G!Complete(c) => GP!Complete(c)
  BY DEF G!Complete, GP!Complete, G!CompleteDispatchAttempt, GP!CompleteDispatchAttempt,
         G!CanComplete, GP!CanComplete, G!CanReplayCompletion, GP!CanReplayCompletion,
         G!Settled, GP!Settled
<1>5. /\ G!TransportFails(c) => GP!TransportFails(c)
      /\ G!Refuse(c) => GP!Refuse(c)
      /\ G!Classify(c) => GP!Classify(c)
  BY DEF G!TransportFails, GP!TransportFails, G!Refuse, GP!Refuse, G!Classify, GP!Classify
<1> QED
  BY <1>1, <1>2, <1>3, <1>4, <1>5

\* Every step of the one is a step of the other.
LEMMA SameWorker ==
  ASSUME NEW c \in Calls, G!WorkerNext(c)
  PROVE  GP!WorkerNext(c)
<1>1. G!Start(c) => GP!Start(c)
  BY DEF G!Start, GP!Start, G!OpenStore, GP!OpenStore, G!Migrated, GP!Migrated, G!Goto, GP!Goto
<1>2. /\ G!Crash(c) => GP!Crash(c)
      /\ \A doc \in Approvals : G!Submit(c, doc) => GP!Submit(c, doc)
  BY DEF G!Crash, GP!Crash, G!Submit, GP!Submit, G!NoCall, GP!NoCall, G!Goto, GP!Goto,
         G!ledgerVars, GP!ledgerVars, G!Resting, GP!Resting
<1> QED
  BY <1>1, <1>2, SamePermit, SameAttempt DEF G!WorkerNext, GP!WorkerNext, G!Step, GP!Step

\* So every step of the slice's gateway is one the theorems speak of.
LEMMA SameNext == [G!DispatchNext]_(G!vars) => [GP!DispatchNext]_(GP!vars)
<1>1. G!vars = GP!vars /\ G!vars' = GP!vars'
  BY DEF G!vars, GP!vars, G!ledgerVars, GP!ledgerVars, G!workerVars, GP!workerVars
<1>2. G!Tick \/ G!RotateKeys => GP!Tick \/ GP!RotateKeys
  BY DEF G!Tick, GP!Tick, G!RotateKeys, GP!RotateKeys, G!ledgerVars, GP!ledgerVars,
         G!workerVars, GP!workerVars
<1> QED
  BY <1>1, <1>2, SameWorker DEF G!DispatchNext, GP!DispatchNext

\* The gateway's invariant starts true and no step of the slice's gateway breaks it.
LEMMA GatewayInv ==
  /\ G!DispatchInit => GP!DInv
  /\ GP!DInv /\ [G!DispatchNext]_(G!vars) => GP!DInv'
BY GatewayAssumptions, SameInit, SameNext, GP!InitDInv, GP!NextDInv

\* What the gateway's types say of its variables.
LEMMA GatewayTypes ==
  ASSUME GP!DInv
  PROVE  /\ attempts \in [Keys -> GP!AttemptRows]
         /\ pc \in [Calls -> {"down", "idle"} \cup Ways]
         /\ call \in [Calls -> GP!CallShape]
         /\ \A c \in Calls : pc[c] \in GP!Working => call[c].doc \in Approvals
BY DEF GP!DInv, GP!WorkersTypeOK, GP!TypeOK, GP!Resting, GP!Working, GP!CallsInOrder, Ways

\* What is settled in the ledger stays settled.
LEMMA LedgerStands ==
  ASSUME GP!DInv, [G!DispatchNext]_(G!vars), NEW k \in Keys
  PROVE  /\ Attempted(k) => Attempted(k)'
         /\ attempts[k].state = "accepted" => attempts'[k].state = "accepted"
         /\ permits[k] # Null => permits'[k] = permits[k]
<1>1. GP!TypeOK /\ [GP!Next]_(GP!ledgerVars)
  BY SameNext, GatewayAssumptions, GP!LedgerStep DEF GP!DInv, GP!WorkersTypeOK
<1>2. /\ permits[k] # Null => permits'[k] = permits[k]
      /\ attempts[k].state = "started" => attempts'[k].state \in {"started", "accepted", "rejected"}
      /\ attempts[k].state \in {"accepted", "rejected", "legacy_uncertain"} =>
           attempts'[k] = attempts[k]
  BY <1>1, GatewayAssumptions, GP!StepKeepsHistory
<1> QED
  BY <1>2 DEF Attempted

\* Only the reservation of an attempt makes a key an attempted one.
LEMMA OnlyBeginAttempts ==
  ASSUME GP!DInv, NEW c \in Calls, G!WorkerNext(c), NEW k \in Keys, Attempted(k)', ~ Attempted(k)
  PROVE  G!Begin(c) /\ call[c].doc.key = k
<1>0. attempts \in [Keys -> GP!AttemptRows]
  BY GatewayTypes
<1>1. CASE G!Start(c)
  BY <1>0, <1>1 DEF G!Start, G!OpenStore, G!Migrated, Attempted, GP!AttemptRows
<1>2. CASE G!Complete(c)
  <2>1. PICK key, status, print, now :
          \/ attempts' = attempts
          \/ /\ attempts[key].state = "started"
             /\ attempts' = [attempts EXCEPT ![key] = G!Settled(attempts[key], status, print, now)]
    BY <1>2 DEF G!Complete, G!CompleteDispatchAttempt, G!CanComplete, G!ledgerVars
  <2>2. attempts'[k] # attempts[k] => k = key
    BY <1>0, <2>1
  <2> QED
    BY <2>1, <2>2 DEF Attempted
<1>3. CASE G!Begin(c)
  <2>1. attempts'[k] # attempts[k] => k = call[c].doc.key
    BY <1>0, <1>3 DEF G!Begin, G!BeginDispatchAttempt
  <2> QED
    BY <1>3, <2>1 DEF Attempted
<1>4. CASE UNCHANGED attempts
  BY <1>4 DEF Attempted
<1> QED
  BY <1>1, <1>2, <1>3, <1>4
  DEF G!WorkerNext, G!Step, G!Crash, G!Submit, G!Register, G!Claim, G!Authorize, G!AuthorityFails,
      G!EnterTransport, G!Receive, G!TransportFails, G!Refuse, G!Classify, G!RegisterApproval,
      G!ClaimDispatchPermit, G!ledgerVars

-----------------------------------------------------------------------------
(* What a step of the slice is for the two sides.                           *)

\* A step of a call is a step of its orchestrator's call or none, and a step of
\* its gateway's call or none.
LEMMA CallActs ==
  ASSUME SliceInv, NEW c \in Calls, SliceCall(c)
  PROVE  /\ CallNext(c) \/ UNCHANGED vars
         /\ G!WorkerNext(c) \/ UNCHANGED gatewayVars
<1>0. Linked(c) /\ TypeOK
  BY DEF SliceInv, OInv, IInv
<1>1. CASE StartProcess(c)
  BY <1>1 DEF StartProcess, G!WorkerNext
<1>2. CASE EndProcess(c)
  BY <1>2 DEF EndProcess, G!WorkerNext, CallNext
<1>3. CASE Begin(c)
  BY <1>3 DEF Begin, CallNext
<1>4. CASE \E doc \in Approvals : Answer(c, doc)
  <2>1. (Decide(c, "bound") \/ Decide(c, "unbound")) /\ UNCHANGED gatewayVars
    BY <1>4 DEF Answer
  <2> QED
    BY <2>1 DEF CallNext
<1>5. CASE Dispatch(c)
  <2>1. given[c] \in Approvals
    BY <1>0, <1>5 DEF Dispatch, Linked, Bound
  <2> QED
    BY <1>5, <2>1 DEF Dispatch, CallNext, Step, G!WorkerNext
<1>6. CASE Outside(c)
  BY <1>6 DEF Outside, CallNext, Step
<1>7. CASE Resolved(c)
  <2>1. reached[c]
    BY <1>0, <1>7 DEF Resolved, Linked, Served, Sent
  <2> QED
    BY <1>7, <2>1 DEF Resolved, CallNext, Receipt
<1>8. CASE RejectedWithProof(c)
  <2>1. ~ reached[c]
    BY <1>0, <1>8 DEF RejectedWithProof, Linked, Served, Sent
  <2> QED
    BY <1>8, <2>1 DEF RejectedWithProof, CallNext, RefusedBeforeProvider
<1>9. CASE Deliver(c)
  <2>1. ~ reached[c]
    BY <1>0, <1>9 DEF Deliver, G!EnterTransport, Linked, Served, Sent
  <2> QED
    BY <1>9, <2>1 DEF Deliver, CallNext, ReachProvider, G!WorkerNext, G!Step
<1>10. CASE Inside(c) \/ Heard(c)
  BY <1>10 DEF Inside, Heard, G!WorkerNext, G!Step
<1> QED
  BY <1>1, <1>2, <1>3, <1>4, <1>5, <1>6, <1>7, <1>8, <1>9, <1>10 DEF SliceCall

\* Every step of the slice is one of the orchestrator and one of the gateway.
LEMMA StepActs ==
  SliceInv /\ [SliceNext]_sliceVars => [Next]_vars /\ [G!DispatchNext]_(G!vars)
<1> SUFFICES ASSUME SliceInv, [SliceNext]_sliceVars
             PROVE  [Next]_vars /\ [G!DispatchNext]_(G!vars)
  OBVIOUS
<1>1. UNCHANGED gatewayVars => UNCHANGED G!vars
  BY DEF gatewayVars, G!vars, G!ledgerVars, G!workerVars
<1>2. CASE UNCHANGED sliceVars
  BY <1>1, <1>2 DEF sliceVars
<1>3. CASE Surroundings
  BY <1>3 DEF Surroundings, G!DispatchNext
<1>4. ASSUME NEW c \in Calls, SliceCall(c)
      PROVE  [Next]_vars /\ [G!DispatchNext]_(G!vars)
  BY <1>1, <1>4, CallActs DEF Next, G!DispatchNext
<1> QED
  BY <1>2, <1>3, <1>4 DEF SliceNext

-----------------------------------------------------------------------------
(* The owner of a key is the only call that can attempt it.                 *)

\* A call that is past claiming names a key and a plan, and holds the claim.
LEMMA CallFacts ==
  ASSUME SliceInv, NEW c \in Calls, at[c] # "idle"
  PROVE  /\ Key(c) \in Keys /\ Plan(c) \in Plans /\ Binding(c).plan = Plan(c)
         /\ at[c] \in Holding => fresh[c]
         /\ fresh[c] => claims[Key(c)].state = "claimed" /\ claims[Key(c)].plan = Plan(c)
         /\ at[c] = "write" => claims[Key(c)].state = "torn"
BY RequestFacts
DEF SliceInv, OInv, IInv, CallInOrder, OwnersHold, Key, Plan, Binding

\* A step of another call never attempts the key of a call with a fresh claim.
LEMMA OthersDoNotAttempt ==
  ASSUME SliceInv, NEW c \in Calls, SliceCall(c), NEW d \in Calls, fresh[d], d # c,
         NEW k \in Keys, k = Key(d), Attempted(k)'
  PROVE  Attempted(k)
<1> SUFFICES ASSUME ~ Attempted(k) PROVE FALSE
  OBVIOUS
<1>1. GP!DInv /\ Linked(c)
  BY DEF SliceInv
<1>2. CASE UNCHANGED gatewayVars
  BY <1>2 DEF Attempted, gatewayVars
<1>3. CASE G!WorkerNext(c)
  <2>1. G!Begin(c) /\ call[c].doc.key = k
    BY <1>1, <1>3, OnlyBeginAttempts
  <2>2. at[c] = "gateway"
    <3>1. pc[c] = "authorized" /\ pc'[c] = "begun" /\ ~ UNCHANGED gatewayVars
      <4>1. attempts'[k] # attempts[k]
        BY DEF Attempted
      <4> QED
        BY <1>1, <2>1, <4>1, GatewayTypes DEF G!Begin, G!Goto, gatewayVars
    <3> QED
      BY <3>1, <1>1, GatewayTypes
      DEF SliceCall, StartProcess, EndProcess, Begin, Answer, Dispatch, Outside, Resolved,
          RejectedWithProof, Deliver, Inside, Heard, G!Start, G!Crash, G!Submit, G!Goto, G!Resting
  <2>3. fresh[c] /\ Key(c) = k
    BY <1>1, <2>1, <2>2 DEF Linked, Served, Bound, SliceInv, OInv, IInv, CallInOrder, Holding
  <2> QED
    BY <2>3 DEF SliceInv, OInv, IInv, OwnersDiffer, Owns
<1> QED
  BY <1>2, <1>3, CallActs

\* The other calls keep what links them to the gateway.
LEMMA OthersLinked ==
  ASSUME SliceInv, NEW c \in Calls, SliceCall(c), NEW d \in Calls, d # c
  PROVE  Linked(d)'
<1>0. /\ GP!DInv /\ TypeOK /\ Linked(d) /\ given \in [Calls -> Approvals \cup {Null}]
      /\ CallInOrder(d) /\ [G!DispatchNext]_(G!vars)
  BY CallActs DEF SliceInv, OInv, IInv, G!DispatchNext, gatewayVars, G!vars, G!ledgerVars,
                  G!workerVars
<1>1. /\ at'[d] = at[d] /\ request'[d] = request[d] /\ fresh'[d] = fresh[d]
      /\ boundary'[d] = boundary[d] /\ reached'[d] = reached[d]
  <2>1. CASE UNCHANGED vars
    BY <2>1 DEF vars, callVars
  <2>2. CASE CallNext(c)
    BY <1>0, <2>2, OthersStand
  <2> QED
    BY <2>1, <2>2, CallActs
<1>2. pc'[d] = pc[d] /\ call'[d] = call[d]
  <2>1. CASE UNCHANGED gatewayVars
    BY <2>1 DEF gatewayVars
  <2>2. CASE G!WorkerNext(c)
    BY <1>0, <2>2, SameWorker, GatewayAssumptions, GP!OthersStand DEF GP!DInv
  <2> QED
    BY <2>1, <2>2, CallActs
<1>3. given'[d] = given[d]
  BY <1>0
  DEF SliceCall, StartProcess, EndProcess, Begin, Answer, Dispatch, Outside, Resolved,
      RejectedWithProof, Deliver, Inside, Heard
<1>4. /\ Key(d)' = Key(d) /\ Binding(d)' = Binding(d)
  BY <1>1 DEF Key, Binding, Plan
<1>5. Bound(d, given[d])' <=> Bound(d, given[d])
  BY <1>3, <1>4 DEF Bound
<1>6. CASE ~ fresh[d]
  <2>1. at[d] \notin Holding
    BY <1>0, <1>6 DEF CallInOrder
  <2>2. at[d] \notin Received /\ at[d] # "gateway"
    BY <2>1 DEF Holding, Received
  <2> QED
    BY <1>0, <1>1, <1>5, <1>6, <2>2 DEF Linked
<1>7. CASE fresh[d]
  <2>1. at[d] # "idle"
    BY <1>0, <1>7 DEF CallInOrder
  <2>2. PICK k \in Keys : k = Key(d)
    BY <2>1, CallFacts
  <2>3. /\ Attempted(k)' <=> Attempted(k)
        /\ attempts[k].state = "accepted" => attempts'[k].state = "accepted"
        /\ permits[k] # Null => permits'[k] = permits[k]
    BY <1>0, <1>7, <2>2, LedgerStands, OthersDoNotAttempt
  <2>4. /\ Attempted(Key(d))' <=> Attempted(Key(d))
        /\ attempts[Key(d)].state = "accepted" => (attempts[Key(d)].state = "accepted")'
        /\ permits[Key(d)] # Null => (permits[Key(d)])' = permits[Key(d)]
    BY <1>4, <2>2, <2>3 DEF Attempted
  <2>5. Served(d) => Served(d)'
    <3>1. Bound(d, call[d].doc)' <=> Bound(d, call[d].doc)
      BY <1>2, <1>4 DEF Bound
    <3> QED
      BY <1>1, <1>2, <1>4, <2>4, <3>1 DEF Served
  <2> QED
    BY <1>0, <1>1, <1>5, <2>4, <2>5 DEF Linked
<1> QED
  BY <1>6, <1>7

-----------------------------------------------------------------------------
(* A call's own link.                                                       *)

\* The start and the end of a call leave it unlinked.
LEMMA EndsLinked ==
  ASSUME SliceInv, NEW c \in Calls, StartProcess(c) \/ EndProcess(c) \/ Begin(c)
  PROVE  Linked(c)'
<1>0. GP!DInv /\ TypeOK /\ Linked(c) /\ at[c] \in Stages /\ CallInOrder(c)
  BY DEF SliceInv, OInv, IInv, TypeOK
<1>1. CASE Begin(c) \/ (EndProcess(c) /\ at[c] \notin Resting)
  <2>1. at'[c] \in {"normalize", "recover", "idle"} /\ ~ fresh'[c]
    BY <1>0, <1>1 DEF Begin, EndProcess, Move, Compensate, Crash, Enter, Goto, TypeOK
  <2> QED
    BY <2>1 DEF Linked, Received
<1>2. CASE StartProcess(c) \/ (EndProcess(c) /\ at[c] \in Resting)
  <2>1. /\ UNCHANGED vars /\ G!WorkerNext(c) /\ ~ G!Begin(c)
        /\ at[c] # "gateway"
        /\ at[c] \in {"claim", "write", "approve", "dispatch"} \cup Received =>
             given'[c] = given[c]
    <3>1. CASE StartProcess(c)
      BY <1>0, <3>1 DEF StartProcess, G!WorkerNext, G!Start, G!Begin, Linked, Served, Ways
    <3>2. CASE EndProcess(c) /\ at[c] \in Resting
      <4>1. UNCHANGED vars /\ G!Crash(c)
        BY <3>2 DEF EndProcess
      <4>2. ~ G!Begin(c)
        BY <1>0, <4>1, GatewayTypes DEF G!Crash, G!Begin, G!Goto
      <4> QED
        BY <3>2, <4>1, <4>2 DEF G!WorkerNext, Resting, Received
    <3> QED
      BY <1>2, <3>1, <3>2
  <2>2. [G!DispatchNext]_(G!vars)
    BY <2>1 DEF G!DispatchNext
  <2>3. /\ Key(c)' = Key(c) /\ Binding(c)' = Binding(c) /\ at'[c] = at[c] /\ fresh'[c] = fresh[c]
        /\ boundary'[c] = boundary[c]
    BY <2>1 DEF vars, callVars, Key, Binding, Plan
  <2>4. fresh[c] \/ at[c] \in Received =>
          /\ Attempted(Key(c))' => Attempted(Key(c))
          /\ attempts[Key(c)].state = "accepted" => (attempts[Key(c)].state = "accepted")'
    <3> SUFFICES ASSUME fresh[c] \/ at[c] \in Received
                 PROVE  /\ Attempted(Key(c))' => Attempted(Key(c))
                        /\ attempts[Key(c)].state = "accepted" =>
                             (attempts[Key(c)].state = "accepted")'
      OBVIOUS
    <3>1. PICK k \in Keys : k = Key(c)
      BY <1>0, CallFacts DEF CallInOrder, Received
    <3>2. /\ Attempted(k)' => Attempted(k)
          /\ attempts[k].state = "accepted" => attempts'[k].state = "accepted"
      BY <1>0, <2>1, <2>2, OnlyBeginAttempts, LedgerStands
    <3> QED
      BY <2>3, <3>1, <3>2 DEF Attempted
  <2>5. at[c] \in {"claim", "write", "approve", "dispatch"} => Bound(c, given[c])'
    BY <1>0, <2>1, <2>3 DEF Linked, Bound
  <2> QED
    BY <1>0, <2>1, <2>3, <2>4, <2>5 DEF Linked
<1> QED
  BY <1>1, <1>2

\* A call that goes on by itself stays linked.
LEMMA OutsideLinked ==
  ASSUME SliceInv, NEW c \in Calls,
         Outside(c) \/ Resolved(c) \/ RejectedWithProof(c)
           \/ \E doc \in Approvals : Answer(c, doc)
  PROVE  Linked(c)'
<1>0. /\ TypeOK /\ Linked(c) /\ CallInOrder(c) /\ InRecord(c) /\ at[c] # "idle"
      /\ given \in [Calls -> Approvals \cup {Null}]
  BY DEF SliceInv, OInv, IInv, TypeOK, Outside, Resolved, RejectedWithProof, Answer, Step,
         Advance, StoreFails, Throw, Observe, Claim, Write, Lookup, RecordOutcome, Complete,
         Rename, Catch, Release, Unlink, Mark, Report, Decide, Advancing, Target
<1>1. UNCHANGED <<attempts, permits, pc, call>>
  BY DEF Outside, Resolved, RejectedWithProof, Answer, gatewayVars
<1>2. UNCHANGED request
  BY DEF Outside, Resolved, RejectedWithProof, Answer, Step,
         Advance, StoreFails, Throw, Observe, Claim, Write, Lookup, RecordOutcome, Complete,
         Rename, Catch, Release, Unlink, Mark, Report, Decide
<1>3. /\ Key(c)' = Key(c) /\ Binding(c)' = Binding(c)
      /\ Attempted(Key(c))' <=> Attempted(Key(c))
      /\ (attempts[Key(c)].state = "accepted")' <=> attempts[Key(c)].state = "accepted"
  BY <1>1, <1>2 DEF Key, Binding, Plan, Attempted
<1>4. CASE \E doc \in Approvals : Answer(c, doc)
  <2>1. PICK doc \in Approvals : Answer(c, doc)
    BY <1>4
  <2>2. /\ at'[c] \in {"claim", "caught"} /\ fresh' = fresh /\ boundary' = boundary
        /\ at'[c] = "claim" => Bound(c, given'[c])
    BY <1>0, <2>1 DEF Answer, Decide, Goto, Bound, TypeOK
  <2>3. at'[c] = "claim" => Bound(c, given[c])'
    BY <1>3, <2>2 DEF Bound
  <2> QED
    BY <1>0, <1>3, <2>2, <2>3 DEF Linked, Received
<1>5. CASE Resolved(c)
  BY <1>0, <1>3, <1>5 DEF Resolved, Goto, Linked, Served, Received, TypeOK
<1>6. CASE RejectedWithProof(c)
  BY <1>0, <1>3, <1>6 DEF RejectedWithProof, Goto, Linked, Served, Unreserved, Received, TypeOK
<1>7. CASE Outside(c)
  <2>1. Bound(c, given[c])' <=> Bound(c, given[c])
    BY <1>3, <1>7 DEF Outside, Bound
  <2>2. /\ at'[c] \in {"claim", "write", "approve", "dispatch"} =>
             at[c] \in {"claim", "write", "approve", "dispatch"}
        /\ at'[c] # "gateway"
        /\ at'[c] \in Received => at[c] \in Received
    <3>1. CASE Advance(c) /\ at[c] # "dispatch"
      BY <1>0, <3>1 DEF Advance, Goto, Advancing, Target, After, Received, TypeOK
    <3>2. CASE StoreFails(c) \/ Throw(c) \/ Observe(c) \/ Claim(c) \/ Write(c) \/ Lookup(c)
      BY <1>0, <3>2 DEF StoreFails, Throw, Observe, Claim, Write, Lookup, Goto, Received, TypeOK
    <3>3. CASE RecordOutcome(c) \/ Complete(c) \/ Rename(c) \/ Catch(c) \/ Release(c)
               \/ Unlink(c) \/ Mark(c) \/ Report(c)
      BY <1>0, <3>3 DEF RecordOutcome, Complete, Rename, Catch, Release, Unlink, Mark, Report,
                        Goto, Received, TypeOK
    <3> QED
      BY <1>7, <3>1, <3>2, <3>3 DEF Outside, Step
  <2>3. fresh'[c] /\ Attempted(Key(c)) => boundary'[c]
    <3>1. CASE Write(c)
      <4>1. claims[Key(c)].state = "torn" /\ Key(c) \in Keys
        BY <1>0, <3>1, CallFacts DEF Write
      <4>2. ~ Attempted(Key(c))
        BY <4>1 DEF SliceInv, LayersAgree, AttemptedKeysStayClaimed
      <4> QED
        BY <4>2
    <3>2. CASE ~ Write(c)
      <4>1. (fresh'[c] => fresh[c]) /\ (boundary[c] => boundary'[c])
        BY <1>0, <1>7, <3>2
        DEF Outside, Step, Advance, StoreFails, Throw, Observe, Claim, Lookup, RecordOutcome,
            Complete, Rename, Catch, Release, Unlink, Mark, Report, TypeOK
      <4> QED
        BY <1>0, <4>1 DEF Linked
    <3> QED
      BY <3>1, <3>2
  <2> QED
    BY <1>0, <1>3, <2>1, <2>2, <2>3 DEF Linked
<1> QED
  BY <1>4, <1>5, <1>6, <1>7

\* A call that calls the gateway is served from there on.
LEMMA DispatchLinked ==
  ASSUME SliceInv, NEW c \in Calls, Dispatch(c)
  PROVE  Linked(c)'
<1>0. /\ TypeOK /\ Linked(c) /\ CallInOrder(c) /\ InRecord(c) /\ at[c] = "dispatch" /\ GP!DInv
  BY DEF SliceInv, OInv, IInv, Dispatch
<1>1. /\ at'[c] = "gateway" /\ fresh' = fresh /\ reached' = reached /\ request' = request
      /\ boundary'[c] /\ given' = given
  <2>1. After["dispatch"] = "gateway"
    BY DEF After
  <2>2. at'[c] = After[at[c]] /\ boundary'[c] = (boundary[c] \/ at[c] = "dispatch")
    BY <1>0 DEF Dispatch, Advance, Goto, TypeOK
  <2> QED
    BY <1>0, <2>1, <2>2 DEF Dispatch, Advance
<1>2. /\ pc'[c] = "submitted" /\ call'[c].doc = given[c] /\ call'[c].permit = Null
      /\ UNCHANGED <<attempts, permits>>
  BY <1>0, GatewayTypes DEF Dispatch, G!Submit, G!Goto, G!NoCall, G!ledgerVars
<1>3. ~ Attempted(Key(c))
  BY <1>0 DEF Linked, CallInOrder, Holding, InRecord, Before
<1>4. ~ reached[c]
  BY <1>0 DEF CallInOrder, Later
<1>5. Bound(c, given[c])
  BY <1>0 DEF Linked
<1>6. Key(c)' = Key(c) /\ Binding(c)' = Binding(c) /\ (Attempted(Key(c))' <=> Attempted(Key(c)))
  BY <1>1, <1>2 DEF Key, Binding, Plan, Attempted
<1>7. Bound(c, call[c].doc)'
  BY <1>2, <1>5, <1>6 DEF Bound
<1>8. Served(c)'
  BY <1>1, <1>2, <1>3, <1>4, <1>6, <1>7 DEF Served, Ways, Sent, Unreserved
<1> QED
  BY <1>1, <1>3, <1>6, <1>8 DEF Linked, Received

\* Registering, claiming and asking for the authority reserve nothing, and a
\* permit a call comes to hold is the one stored for its key and its plan.
LEMMA PermitServed ==
  ASSUME SliceInv, NEW c \in Calls, at[c] = "gateway", Served(c), UNCHANGED vars,
         G!Register(c) \/ G!Claim(c) \/ G!Authorize(c) \/ G!AuthorityFails(c)
  PROVE  Served(c)'
<1>0. GP!DInv /\ TypeOK
  BY DEF SliceInv, OInv, IInv
<1>1. /\ reached' = reached /\ request' = request
  BY DEF vars, callVars
<1>2. /\ attempts' = attempts /\ pc[c] \in Unreserved
      /\ pc'[c] \in {"registered", "claimed", "authorized", "failing"}
  BY <1>0, GatewayTypes
  DEF G!Register, G!Claim, G!Authorize, G!AuthorityFails, G!RegisterApproval,
      G!ClaimDispatchPermit, G!ledgerVars, G!Goto, Unreserved
<1>3. call'[c].doc = call[c].doc
  BY <1>0, GatewayTypes
  DEF G!Register, G!Claim, G!Authorize, G!AuthorityFails, GP!CallShape
<1>4. Key(c)' = Key(c) /\ Binding(c)' = Binding(c) /\ (Attempted(Key(c))' <=> Attempted(Key(c)))
  BY <1>1, <1>2 DEF Key, Binding, Plan, Attempted
<1>5. Bound(c, call[c].doc)'
  BY <1>3, <1>4 DEF Bound, Served
<1>6. ~ Attempted(Key(c)) /\ ~ reached[c]
  BY <1>2 DEF Served, Unreserved, Sent
<1>7. call'[c].permit # Null => permits'[Key(c)] # Null /\ permits'[Key(c)].plan = Binding(c)
  <2>1. CASE G!Claim(c)
    <3>1. /\ call[c].doc.key = Key(c) /\ call[c].doc.plan = Binding(c) /\ Key(c) \in Keys
      BY CallFacts DEF Served, Bound
    <3>2. call'[c].permit = permits'[Key(c)]
      BY <1>0, <2>1, <3>1, GatewayTypes DEF G!Claim, G!SubjectOf, GP!CallShape
    <3>3. permits'[Key(c)] # Null => permits'[Key(c)].plan = Binding(c)
      <4>1. permits \in [Keys -> GP!PermitRows \cup {Null}]
        BY <1>0 DEF GP!DInv, GP!WorkersTypeOK, GP!TypeOK
      <4> QED
        BY <2>1, <3>1, <4>1
        DEF G!Claim, G!ClaimDispatchPermit, G!CanReplayClaim, G!NewPermit, G!SubjectOf,
            G!ledgerVars
    <3> QED
      BY <3>2, <3>3
  <2>2. CASE ~ G!Claim(c)
    <3>1. permits' = permits /\ call'[c].permit = call[c].permit
      BY <1>0, <2>2, GatewayTypes
      DEF G!Register, G!Authorize, G!AuthorityFails, G!RegisterApproval, G!ledgerVars, GP!CallShape
    <3> QED
      BY <3>1 DEF Served
  <2> QED
    BY <2>1, <2>2
<1>8. (permits[Key(c)])' = permits'[Key(c)]
  BY <1>4
<1> QED
  BY <1>1, <1>2, <1>4, <1>5, <1>6, <1>7, <1>8 DEF Served, Ways, Sent, Unreserved

\* The fence reserves the key of the call that passes it, under its permit.
LEMMA FenceServed ==
  ASSUME SliceInv, NEW c \in Calls, at[c] = "gateway", Served(c), UNCHANGED vars, G!Begin(c)
  PROVE  Served(c)'
<1>0. GP!DInv /\ TypeOK /\ Key(c) \in Keys /\ call[c].doc.key = Key(c)
  BY CallFacts DEF SliceInv, OInv, IInv, Served, Bound
<1>1. /\ reached' = reached /\ request' = request
  BY DEF vars, callVars
<1>2. /\ pc[c] = "authorized" /\ pc'[c] = "begun" /\ call' = call /\ permits' = permits
      /\ permits[Key(c)] # Null /\ permits[Key(c)] = call[c].permit
      /\ attempts'[Key(c)].state = "started"
  BY <1>0, GatewayTypes
  DEF G!Begin, G!BeginDispatchAttempt, G!CanBegin, G!Goto, G!NewAttempt
<1>3. Key(c)' = Key(c) /\ Binding(c)' = Binding(c)
  BY <1>1 DEF Key, Binding, Plan
<1>4. Attempted(Key(c))' /\ ~ reached[c]
  BY <1>2, <1>3 DEF Attempted, Served, Sent
<1>5. Bound(c, call[c].doc)'
  BY <1>2, <1>3 DEF Bound, Served
<1> QED
  BY <1>1, <1>2, <1>3, <1>4, <1>5 DEF Served, Ways, Sent, Unreserved

\* Past the fence an attempted key stays one, and a call that resolves has its
\* acceptance stored.
LEMMA TransportServed ==
  ASSUME SliceInv, NEW c \in Calls, at[c] = "gateway", Served(c), UNCHANGED vars,
         \/ G!TransportFails(c) \/ G!Complete(c) \/ G!Refuse(c)
         \/ \E receipt \in G!ReceiptShape : G!Receive(c, receipt)
  PROVE  Served(c)'
<1>0. GP!DInv /\ TypeOK /\ Key(c) \in Keys /\ call[c].doc.key = Key(c)
  BY CallFacts DEF SliceInv, OInv, IInv, Served, Bound
<1>1. /\ reached' = reached /\ request' = request
  BY DEF vars, callVars
<1>2. /\ pc'[c] \in {"failing", "accepted", "received"} /\ permits' = permits
      /\ pc[c] \in {"waiting", "received"} \/ (pc'[c] = "failing" /\ UNCHANGED attempts)
      /\ call'[c].doc = call[c].doc /\ call'[c].permit = call[c].permit
  <2>1. permits' = permits
    BY DEF G!TransportFails, G!Complete, G!Refuse, G!Receive, G!CompleteDispatchAttempt,
           G!ledgerVars
  <2>2. call'[c].doc = call[c].doc /\ call'[c].permit = call[c].permit
    BY <1>0, GatewayTypes DEF G!TransportFails, G!Complete, G!Refuse, G!Receive, GP!CallShape
  <2> QED
    BY <1>0, <2>1, <2>2, GatewayTypes
    DEF G!TransportFails, G!Complete, G!Refuse, G!Receive, G!Goto, G!ledgerVars
<1>3. Key(c)' = Key(c) /\ Binding(c)' = Binding(c)
  BY <1>1 DEF Key, Binding, Plan
<1>4. Bound(c, call[c].doc)'
  BY <1>2, <1>3 DEF Bound, Served
<1>5. Attempted(Key(c))' <=> Attempted(Key(c))
  <2>1. G!WorkerNext(c) /\ ~ G!Begin(c) /\ [G!DispatchNext]_(G!vars)
    BY <1>0, GatewayTypes
    DEF G!WorkerNext, G!Step, G!DispatchNext, G!TransportFails, G!Complete, G!Refuse, G!Receive,
        G!Begin, G!Goto
  <2>2. PICK k \in Keys : k = Key(c)
    BY <1>0
  <2>3. Attempted(k)' <=> Attempted(k)
    BY <1>0, <2>1, OnlyBeginAttempts, LedgerStands
  <2> QED
    BY <1>3, <2>2, <2>3 DEF Attempted
<1>6. pc'[c] = "accepted" => attempts'[Key(c)].state = "accepted"
  <2> SUFFICES ASSUME pc'[c] = "accepted" PROVE attempts'[Key(c)].state = "accepted"
    OBVIOUS
  <2>1. G!Complete(c) /\ call[c].receipt.status = "dispatched"
    BY <1>0, GatewayTypes DEF G!TransportFails, G!Complete, G!Refuse, G!Receive, G!Goto
  <2>2. attempts[Key(c)] \in GP!AttemptRows
    BY <1>0, GatewayTypes
  <2>3. PICK print, now :
          \/ attempts[Key(c)].state = "accepted" /\ attempts' = attempts
          \/ attempts' = [attempts EXCEPT ![Key(c)] =
               G!Settled(attempts[Key(c)], "dispatched", print, now)]
    BY <1>0, <2>1
    DEF G!Complete, G!CompleteDispatchAttempt, G!CanReplayCompletion, G!ledgerVars
  <2>4. G!Settled(attempts[Key(c)], "dispatched", print, now).state = "accepted"
    BY <2>2 DEF G!Settled, GP!AttemptRows
  <2> QED
    BY <1>0, <2>3, <2>4, GatewayTypes
<1>7. pc'[c] \in Sent => reached[c]
  BY <1>0, <1>2, GatewayTypes
  DEF G!TransportFails, G!Complete, G!Refuse, G!Receive, G!Goto, Served, Sent
<1> QED
  BY <1>1, <1>2, <1>3, <1>4, <1>5, <1>6, <1>7 DEF Served, Ways, Sent, Unreserved

\* The proof is given only to a call whose key was never attempted.
LEMMA ClassifyServed ==
  ASSUME SliceInv, NEW c \in Calls, at[c] = "gateway", Served(c), UNCHANGED vars, G!Classify(c)
  PROVE  Served(c)'
<1>0. GP!DInv /\ TypeOK /\ call[c].doc.key = Key(c)
  BY DEF SliceInv, OInv, IInv, Served, Bound
<1>1. /\ reached' = reached /\ request' = request
  BY DEF vars, callVars
<1>2. /\ pc'[c] \in {"pre_boundary", "boundary"} /\ pc[c] = "failing"
      /\ UNCHANGED <<call, permits, attempts>>
      /\ pc'[c] = "pre_boundary" => call[c].permit = Null \/ attempts[Key(c)].state = "none"
  BY <1>0, GatewayTypes DEF G!Classify, G!Goto, G!ledgerVars
<1>3. Key(c)' = Key(c) /\ Binding(c)' = Binding(c) /\ (Attempted(Key(c))' <=> Attempted(Key(c)))
  BY <1>1, <1>2 DEF Key, Binding, Plan, Attempted
<1>4. Bound(c, call[c].doc)'
  BY <1>2, <1>3 DEF Bound, Served
<1>5. pc'[c] = "pre_boundary" => ~ Attempted(Key(c))
  BY <1>2 DEF Served, Attempted
<1> QED
  BY <1>1, <1>2, <1>3, <1>4, <1>5 DEF Served, Ways, Sent, Unreserved

\* While the orchestrator waits, the gateway keeps its call linked.
LEMMA GatewayLinked ==
  ASSUME SliceInv, NEW c \in Calls, Deliver(c) \/ Inside(c) \/ Heard(c)
  PROVE  Linked(c)'
<1>0. /\ TypeOK /\ Linked(c) /\ Served(c) /\ CallInOrder(c) /\ at[c] = "gateway" /\ GP!DInv
  BY DEF SliceInv, OInv, IInv, Deliver, Inside, Heard, Linked
<1>1. Served(c)'
  <2>1. CASE Deliver(c)
    <3>1. /\ pc[c] = "begun" /\ pc'[c] = "waiting" /\ reached'[c] /\ request' = request
          /\ UNCHANGED <<attempts, permits, call>>
      BY <1>0, <2>1, GatewayTypes DEF Deliver, G!EnterTransport, G!Goto, G!ledgerVars, TypeOK
    <3>2. /\ Key(c)' = Key(c) /\ Binding(c)' = Binding(c)
          /\ Attempted(Key(c))' <=> Attempted(Key(c))
      BY <3>1 DEF Key, Binding, Plan, Attempted
    <3>3. Bound(c, call[c].doc)'
      BY <1>0, <3>1, <3>2 DEF Bound, Served
    <3> QED
      BY <1>0, <3>1, <3>2, <3>3 DEF Served, Ways, Sent, Unreserved
  <2>2. CASE Inside(c) \/ Heard(c)
    BY <1>0, <2>2, PermitServed, FenceServed, TransportServed, ClassifyServed DEF Inside, Heard
  <2> QED
    BY <2>1, <2>2
<1>2. /\ at'[c] = "gateway" /\ boundary'[c]
  BY <1>0 DEF Deliver, Inside, Heard, vars, callVars, CallInOrder
<1> QED
  BY <1>1, <1>2 DEF Linked, Received

-----------------------------------------------------------------------------
(* The two ledgers.                                                         *)

\* No step of the orchestrator takes the claim of an attempted key away, nor
\* changes its plan.
LEMMA ClaimStands ==
  ASSUME SliceInv, NEW c \in Calls, CallNext(c), NEW k \in Keys, Attempted(k)
  PROVE  claims'[k].state \in {"claimed", "completed"} /\ claims'[k].plan = claims[k].plan
<1>0. /\ claims \in [Keys -> Claims] /\ CallInOrder(c) /\ Linked(c)
      /\ claims[k].state \in {"claimed", "completed"}
  BY DEF SliceInv, OInv, IInv, TypeOK, ClaimsTypeOK, LayersAgree, AttemptedKeysStayClaimed
<1>1. CASE Claim(c)
  BY <1>0, <1>1 DEF Claim, CreateClaim, Put
<1>2. CASE Write(c)
  <2>1. Key(c) # k
    BY <1>0, <1>2, CallFacts DEF Write
  <2> QED
    BY <1>0, <1>2, <2>1 DEF Write, WriteClaim, Put
<1>3. CASE Rename(c)
  <2>1. claims[Key(c)].plan = Plan(c)
    BY <1>0, <1>3, CallFacts DEF Rename, CallInOrder, Holding
  <2> QED
    BY <1>0, <1>3, <2>1 DEF Rename, RenameCompleted, Put
<1>4. CASE Unlink(c)
  <2>1. Key(c) # k
    BY <1>0, <1>4 DEF Unlink, CallInOrder, Holding, Linked
  <2> QED
    BY <1>0, <1>4, <2>1 DEF Unlink, UnlinkClaim, Put
<1>5. CASE UNCHANGED claims
  BY <1>0, <1>5
<1> QED
  BY <1>1, <1>2, <1>3, <1>4, <1>5
  DEF CallNext, Step, Move, Compensate, Crash, Advance, Throw, StoreFails, Decide, Lookup,
      ReachProvider, Receipt, RefusedBeforeProvider, Observe, RecordOutcome, Complete, Catch,
      Release, Mark, Report

\* A key is completed only by a call whose transport accepted.
LEMMA OnlyAcceptedComplete ==
  ASSUME SliceInv, NEW c \in Calls, CallNext(c), NEW k \in Keys,
         claims'[k].state = "completed", claims[k].state # "completed"
  PROVE  attempts[k].state = "accepted"
<1>0. /\ claims \in [Keys -> Claims] /\ Linked(c)
  BY DEF SliceInv, OInv, IInv, TypeOK, ClaimsTypeOK
<1>1. CASE Rename(c)
  <2>1. Key(c) = k
    BY <1>0, <1>1 DEF Rename, RenameCompleted, Put
  <2> QED
    BY <1>0, <1>1, <2>1 DEF Rename, Linked, Received
<1>2. CASE Claim(c) \/ Write(c) \/ Unlink(c)
  BY <1>0, <1>2
  DEF Claim, Write, Unlink, CreateClaim, WriteClaim, UnlinkClaim, Put, Torn, Absent
<1>3. CASE UNCHANGED claims
  BY <1>3
<1> QED
  BY <1>1, <1>2, <1>3
  DEF CallNext, Step, Move, Compensate, Crash, Advance, Throw, StoreFails, Decide, Lookup,
      ReachProvider, Receipt, RefusedBeforeProvider, Observe, RecordOutcome, Complete, Catch,
      Release, Mark, Report

\* A key is attempted by a call that holds its claim for the plan of its permit.
LEMMA NewAttemptIsClaimed ==
  ASSUME SliceInv, NEW c \in Calls, SliceCall(c), NEW k \in Keys, Attempted(k)', ~ Attempted(k)
  PROVE  /\ claims'[k].state = "claimed"
         /\ permits'[k] # Null /\ claims'[k].plan = permits'[k].plan.plan
<1>0. GP!DInv /\ Linked(c) /\ CallInOrder(c)
  BY DEF SliceInv, OInv, IInv
<1>1. G!WorkerNext(c)
  BY CallActs DEF Attempted, gatewayVars
<1>2. G!Begin(c) /\ call[c].doc.key = k
  BY <1>0, <1>1, OnlyBeginAttempts
<1>3. /\ pc[c] = "authorized" /\ pc'[c] = "begun" /\ permits' = permits
      /\ permits[k] # Null /\ permits[k] = call[c].permit
  BY <1>0, <1>2, GatewayTypes DEF G!Begin, G!BeginDispatchAttempt, G!CanBegin, G!Goto
<1>4. at[c] = "gateway" /\ claims' = claims
  <2>1. attempts' # attempts
    BY DEF Attempted
  <2> QED
    BY <1>0, <1>3, <2>1, GatewayTypes
    DEF SliceCall, StartProcess, EndProcess, Begin, Answer, Dispatch, Outside, Resolved,
        RejectedWithProof, Deliver, Inside, Heard, G!Start, G!Crash, G!Submit, G!EnterTransport,
        G!Goto, gatewayVars, G!Resting, vars
<1>5. /\ claims[k].state = "claimed" /\ claims[k].plan = Plan(c)
      /\ permits[k].plan = Binding(c) /\ Binding(c).plan = Plan(c)
  <2>1. Key(c) = k
    BY <1>0, <1>2, <1>4 DEF Linked, Served, Bound
  <2> QED
    BY <1>0, <1>3, <1>4, <2>1, CallFacts DEF Linked, Served, CallInOrder, Holding
<1> QED
  BY <1>3, <1>4, <1>5

\* No step makes the two ledgers contradict each other.
LEMMA NextLayersAgree ==
  ASSUME SliceInv, NEW c \in Calls, SliceCall(c)
  PROVE  LayersAgree' /\ \A k \in Keys : Attempted(k)' => permits'[k] # Null
<1>0. GP!DInv /\ [G!DispatchNext]_(G!vars)
  BY CallActs DEF SliceInv, G!DispatchNext, gatewayVars, G!vars, G!ledgerVars, G!workerVars
<1>1. ASSUME NEW k \in Keys, Attempted(k)'
      PROVE  /\ claims'[k].state \in {"claimed", "completed"} /\ permits'[k] # Null
             /\ claims'[k].plan = permits'[k].plan.plan
  <2>1. CASE ~ Attempted(k)
    BY <1>1, <2>1, NewAttemptIsClaimed
  <2>2. CASE Attempted(k)
    <3>1. /\ permits'[k] = permits[k] /\ permits[k] # Null
          /\ claims[k].state \in {"claimed", "completed"}
          /\ claims[k].plan = permits[k].plan.plan
      BY <1>0, <2>2, LedgerStands DEF SliceInv, LayersAgree, AttemptedKeysStayClaimed
    <3>2. CASE UNCHANGED vars
      BY <3>1, <3>2 DEF vars
    <3>3. CASE CallNext(c)
      BY <2>2, <3>1, <3>3, ClaimStands
    <3> QED
      BY <3>2, <3>3, CallActs
  <2> QED
    BY <2>1, <2>2
<1>2. ASSUME NEW k \in Keys, claims'[k].state = "completed"
      PROVE  attempts'[k].state = "accepted"
  <2>1. claims[k].state = "completed" => attempts[k].state = "accepted"
    BY DEF SliceInv, LayersAgree, CompletedKeysWereAccepted
  <2>2. attempts[k].state = "accepted"
    <3>1. CASE UNCHANGED vars
      BY <1>2, <2>1, <3>1 DEF vars
    <3>2. CASE CallNext(c)
      BY <1>2, <2>1, <3>2, OnlyAcceptedComplete
    <3> QED
      BY <3>1, <3>2, CallActs
  <2> QED
    BY <1>0, <2>2, LedgerStands
<1> QED
  BY <1>1, <1>2 DEF LayersAgree, AttemptedKeysStayClaimed, CompletedKeysWereAccepted, Attempted

-----------------------------------------------------------------------------
(* The invariant of the slice.                                              *)

\* Before any process is up there is nothing to disagree about.
LEMMA InitSliceInv == SliceInit => SliceInv
<1> SUFFICES ASSUME SliceInit PROVE SliceInv
  OBVIOUS
<1>1. OInv /\ GP!DInv
  BY InitOInv, GatewayInv DEF SliceInit
<1>2. \A k \in Keys : ~ Attempted(k)
  <2> SUFFICES ASSUME NEW k \in Keys PROVE ~ Attempted(k)
    OBVIOUS
  <2>1. attempts \in [Keys -> G!LegacyRows \cup {G!NoAttempt}]
    BY DEF SliceInit, G!DispatchInit, G!Init
  <2>2. \A row \in G!LegacyRows \cup {G!NoAttempt} : row.state \in {"v1", "none"}
    BY DEF G!LegacyRows, G!LegacyRow, G!NoAttempt
  <2> QED
    BY <2>1, <2>2 DEF Attempted
<1>3. \A c \in Calls : at[c] = "idle" /\ ~ fresh[c]
  BY DEF SliceInit, Init
<1>4. \A c \in Calls : Linked(c)
  BY <1>3 DEF Linked, Received
<1>5. LayersAgree
  BY <1>2
  DEF SliceInit, Init, ClaimsInit, Absent, LayersAgree, AttemptedKeysStayClaimed,
      CompletedKeysWereAccepted
<1> QED
  BY <1>1, <1>2, <1>4, <1>5 DEF SliceInit, SliceInv

\* No step of the slice breaks it.
LEMMA NextSliceInv == SliceInv /\ [SliceNext]_sliceVars => SliceInv'
<1> SUFFICES ASSUME SliceInv, [SliceNext]_sliceVars PROVE SliceInv'
  OBVIOUS
<1>1. OInv' /\ GP!DInv'
  BY StepActs, NextOInv, GatewayInv DEF SliceInv
<1>2. CASE UNCHANGED <<vars, attempts, permits, pc, call, given>>
  <2>1. /\ UNCHANGED <<at, request, fresh, boundary, reached, claims>>
    BY <1>2 DEF vars, callVars
  <2>2. ASSUME NEW c \in Calls PROVE Linked(c)'
    <3>1. /\ Key(c)' = Key(c) /\ Binding(c)' = Binding(c)
          /\ Attempted(Key(c))' <=> Attempted(Key(c))
      BY <1>2, <2>1 DEF Key, Binding, Plan, Attempted
    <3>2. /\ Bound(c, given[c])' <=> Bound(c, given[c])
          /\ Bound(c, call[c].doc)' <=> Bound(c, call[c].doc)
      BY <1>2, <3>1 DEF Bound
    <3>3. Served(c)' <=> Served(c)
      BY <1>2, <2>1, <3>1, <3>2 DEF Served
    <3> QED
      BY <1>2, <2>1, <3>1, <3>2, <3>3 DEF SliceInv, Linked
  <2>3. LayersAgree' /\ \A k \in Keys : Attempted(k)' => permits'[k] # Null
    BY <1>2, <2>1
    DEF SliceInv, LayersAgree, AttemptedKeysStayClaimed, CompletedKeysWereAccepted, Attempted
  <2> QED
    BY <1>1, <1>2, <2>2, <2>3 DEF SliceInv, Attempted
<1>3. ASSUME NEW c \in Calls, SliceCall(c) PROVE SliceInv'
  <2>1. given' \in [Calls -> Approvals \cup {Null}]
    BY <1>3
    DEF SliceInv, SliceCall, StartProcess, EndProcess, Begin, Answer, Dispatch, Outside, Resolved,
        RejectedWithProof, Deliver, Inside, Heard
  <2>2. Linked(c)'
    BY <1>3, EndsLinked, OutsideLinked, DispatchLinked, GatewayLinked DEF SliceCall
  <2>3. \A d \in Calls : Linked(d)'
    BY <1>3, <2>2, OthersLinked
  <2> QED
    BY <1>1, <1>3, <2>1, <2>3, NextLayersAgree DEF SliceInv, Attempted
<1>4. CASE Surroundings
  BY <1>2, <1>4 DEF Surroundings, G!Tick, G!RotateKeys, G!ledgerVars, G!workerVars
<1> QED
  BY <1>2, <1>3, <1>4 DEF SliceNext, sliceVars, gatewayVars

\* The slice keeps its invariant.
THEOREM SliceInductive == SliceSpec => []SliceInv
BY InitSliceInv, NextSliceInv, PTL DEF SliceSpec

-----------------------------------------------------------------------------
(* What follows.                                                            *)

\* Whatever the orchestrator sees of the real gateway is what Orchestrator lets
\* its gateway do, with any number of calls that crash, race and retry.
THEOREM SliceIsOrchestrator == SliceSpec => ImplementsOrchestrator
<1>1. SliceInit => Init
  BY DEF SliceInit
<1>2. SliceInv /\ [SliceNext]_sliceVars => [Next]_vars
  BY StepActs
<1> QED
  BY <1>1, <1>2, SliceInductive, PTL DEF SliceSpec, ImplementsOrchestrator, Spec

\* Whatever the orchestrator asks of the gateway is what ColossusDispatch lets a
\* caller ask.
THEOREM SliceIsDispatch == SliceSpec => G!DispatchSpec
<1>1. SliceInit => G!DispatchInit
  BY DEF SliceInit
<1>2. SliceInv /\ [SliceNext]_sliceVars => [G!DispatchNext]_(G!vars)
  BY StepActs
<1> QED
  BY <1>1, <1>2, SliceInductive, PTL DEF SliceSpec, G!DispatchSpec

\* The claim files and the permit ledger never contradict each other.
THEOREM LayersAlwaysAgree == SliceSpec => []LayersAgree
BY SliceInductive, PTL DEF SliceInv

\* So a key is mutated under at most once, is never mutated under without its
\* claim, and its claim keeps the promise of KeyClaim, with the real gateway.
THEOREM SliceMutatesOnce ==
  SliceSpec => []OneEntryPerKey /\ []NoUnclaimedEntry /\ ImplementsKeyClaim
BY SliceIsOrchestrator, OneEntry, EntryStaysClaimed, ClaimsImplemented, PTL
DEF ImplementsOrchestrator

\* The gateway of the slice, called by orchestrators that crash and retry, enters
\* its transport at most once per key, and only with what was approved.
THEOREM SliceSendsOnceWhatIsApproved ==
  SliceSpec => []G!AtMostOneEntry /\ []G!EntryIsAuthorized
<1>1. G!DispatchSpec => GP!DispatchSpec
  BY SameInit, SameNext, PTL DEF G!DispatchSpec, GP!DispatchSpec
<1>2. GP!DispatchSpec => []GP!AtMostOneEntry
  BY GP!OneEntry, GatewayAssumptions
<1>3. GP!DispatchSpec => []GP!EntryIsAuthorized
  BY GP!EntriesAreAuthorized, GatewayAssumptions
<1>4. GP!AtMostOneEntry => G!AtMostOneEntry
  BY DEF GP!AtMostOneEntry, G!AtMostOneEntry
<1>5. GP!EntryIsAuthorized => G!EntryIsAuthorized
  BY DEF GP!EntryIsAuthorized, G!EntryIsAuthorized, GP!InFlight, G!InFlight, GP!VerifiesUnder,
         G!VerifiesUnder, GP!InWindow, G!InWindow
<1> QED
  BY <1>1, <1>2, <1>3, <1>4, <1>5, SliceIsDispatch, PTL
=============================================================================
