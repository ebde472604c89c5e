----------------------- MODULE ColossusDispatch_proofs -----------------------
(***************************************************************************)
(* Proofs about ColossusDispatch for any number of workers.  Every step of *)
(* a worker is a step of the ledger or leaves it alone, so the theorems of *)
(* ClaimLedger_proofs hold of the whole system.  That the transport is     *)
(* entered at most once per key needs more than the ledger: a worker past  *)
(* the fence owns the open row of its key, and the number of entries is    *)
(* tied to how far that owner has come.                                    *)
(***************************************************************************)
EXTENDS ColossusDispatch, ClaimLedger_proofs

\* What a call has in hand at each point of its way.
CallsInOrder ==
  \A w \in Workers :
    /\ pc[w] \in Working => call[w].doc \in Approvals /\ call[w].now \in Times
    /\ pc[w] \in {"authorized", "begun", "waiting", "received"} => call[w].envelope \in Envelopes
    /\ pc[w] = "received" => call[w].receipt \in ReceiptShape

\* Entries follow reservations: none without one, at most one with one, and
\* exactly as many as the worker that owns the reservation has made.
EntriesFollowReservations ==
  /\ \A k \in Keys :
       /\ deliveries[k] \in {0, 1}
       /\ attempts[k].state = "none" => deliveries[k] = 0
  /\ \A w \in Workers :
       /\ pc[w] = "begun" => deliveries[call[w].doc.key] = 0
       /\ pc[w] \in {"waiting", "received"} => deliveries[call[w].doc.key] = 1

DInv ==
  /\ WorkersTypeOK
  /\ CallsInOrder
  /\ ReservationIsExclusive
  /\ EntriesFollowReservations

-----------------------------------------------------------------------------
\* Before any process is up nothing is in flight and nothing was entered anew.
LEMMA InitDInv == DispatchInit => DInv
<1> SUFFICES ASSUME DispatchInit PROVE DInv
  OBVIOUS
<1>1. TypeOK
  BY InitTypeOK DEF DispatchInit
<1>2. NoCall \in CallShape
  BY DEF NoCall, CallShape
<1>3. WorkersTypeOK
  BY <1>1, <1>2 DEF DispatchInit, WorkersTypeOK
<1>4. \A w \in Workers : pc[w] = "down"
  BY DEF DispatchInit
<1>5. CallsInOrder /\ ReservationIsExclusive
  BY <1>4 DEF CallsInOrder, ReservationIsExclusive, InFlight, Working
<1>6. EntriesFollowReservations
  BY <1>4 DEF DispatchInit, EntriesFollowReservations
<1> QED
  BY <1>3, <1>5, <1>6 DEF DInv

\* A document in circulation names a key and forms a subject.
LEMMA DocFacts ==
  ASSUME NEW doc \in Approvals
  PROVE  doc.key \in Keys /\ doc.id \in ApprovalIds /\ doc.plan \in Plans
         /\ SubjectOf(doc) \in Subjects
         /\ SubjectOf(doc).key = doc.key /\ SubjectOf(doc).approval = doc.id
BY DocsAssumption DEF ApprovalDocs, SubjectOf, Subjects

\* An envelope is dated by a clock.
LEMMA EnvelopeFacts ==
  ASSUME NEW envelope \in Envelopes
  PROVE  envelope.createdAt \in Times
BY EnvelopeAssumption DEF EnvelopeShape

-----------------------------------------------------------------------------
\* Every step of the system is a step of the ledger, or leaves the ledger alone.
LEMMA LedgerStep ==
  WorkersTypeOK /\ CallsInOrder /\ [DispatchNext]_vars => [Next]_ledgerVars
<1> SUFFICES ASSUME WorkersTypeOK, CallsInOrder, [DispatchNext]_vars
             PROVE  [Next]_ledgerVars
  OBVIOUS
<1>1. CASE UNCHANGED ledgerVars
  BY <1>1
<1>2. ASSUME NEW w \in Workers, Start(w)
      PROVE  [Next]_ledgerVars
  BY <1>2 DEF Start, Next
<1>3. ASSUME NEW w \in Workers, Register(w)
      PROVE  [Next]_ledgerVars
  <2>1. call[w].doc \in Approvals /\ trust[w] \in TrustStores /\ call[w].now \in Times
    BY <1>3 DEF Register, CallsInOrder, Working, WorkersTypeOK
  <2> QED
    BY <1>3, <2>1 DEF Register, Next
<1>4. ASSUME NEW w \in Workers, Claim(w)
      PROVE  [Next]_ledgerVars
  <2>1. call[w].doc \in Approvals /\ trust[w] \in TrustStores /\ call[w].now \in Times
    BY <1>4 DEF Claim, CallsInOrder, Working, WorkersTypeOK
  <2>2. SubjectOf(call[w].doc) \in Subjects
    BY <2>1, DocFacts
  <2> QED
    BY <1>4, <2>1, <2>2 DEF Claim, Next
<1>5. ASSUME NEW w \in Workers, Begin(w)
      PROVE  [Next]_ledgerVars
  <2>1. call[w].doc.key \in Keys /\ call[w].envelope \in Envelopes
        /\ call[w].envelope.createdAt \in Times
    BY <1>5, DocFacts, EnvelopeFacts DEF Begin, CallsInOrder, Working
  <2>2. call[w].permit = permits[call[w].doc.key]
    BY <1>5 DEF Begin, BeginDispatchAttempt, CanBegin
  <2> QED
    BY <1>5, <2>1, <2>2 DEF Begin, Next
<1>6. ASSUME NEW w \in Workers, Complete(w)
      PROVE  [Next]_ledgerVars
  <2> DEFINE now == IF clock < call[w].envelope.createdAt
                      THEN call[w].envelope.createdAt ELSE clock
  <2>1. call[w].doc.key \in Keys /\ call[w].envelope \in Envelopes
        /\ call[w].envelope.createdAt \in Times /\ clock \in Times
    BY <1>6, DocFacts, EnvelopeFacts DEF Complete, CallsInOrder, Working, WorkersTypeOK
  <2>2. call[w].receipt.status \in ReceiptStatuses /\ call[w].receipt.print \in Prints
    BY <1>6 DEF Complete, CallsInOrder, ReceiptShape
  <2>3. now \in Times
    BY <2>1
  <2>4. CompleteDispatchAttempt(call[w].doc.key, call[w].permit, call[w].envelope,
                                call[w].receipt.status, call[w].receipt.print, now)
    BY <1>6 DEF Complete
  <2> HIDE DEF now
  <2>5. call[w].permit = permits[call[w].doc.key]
    BY <2>4 DEF CompleteDispatchAttempt, CanComplete, CanReplayCompletion
  <2> QED
    BY <2>1, <2>2, <2>3, <2>4, <2>5 DEF Next
<1> QED
  BY <1>1, <1>2, <1>3, <1>4, <1>5, <1>6
  DEF DispatchNext, WorkerNext, Step, vars, Tick, RotateKeys, Crash, Submit, Authorize,
      AuthorityFails,
      EnterTransport, Receive, TransportFails, Refuse, Classify

\* Every step keeps the calls, the ledger and the entries well typed.
LEMMA NextWorkersTypeOK ==
  WorkersTypeOK /\ CallsInOrder /\ [DispatchNext]_vars => WorkersTypeOK'
<1> SUFFICES ASSUME WorkersTypeOK, CallsInOrder, [DispatchNext]_vars
             PROVE  WorkersTypeOK'
  OBVIOUS
<1>1. TypeOK'
  BY LedgerStep, NextTypeOK DEF WorkersTypeOK
<1>2. pc' \in [Workers -> {"down"} \cup Resting \cup Working]
  <2> DEFINE Labels == {"down"} \cup Resting \cup Working
  <2>1. \A w \in Workers : \A label \in Labels : [pc EXCEPT ![w] = label] \in [Workers -> Labels]
    BY DEF WorkersTypeOK
  <2>2. CASE UNCHANGED pc
    BY <2>2 DEF WorkersTypeOK
  <2>3. /\ "down" \in Labels /\ "idle" \in Labels /\ "accepted" \in Labels
        /\ "pre_boundary" \in Labels /\ "boundary" \in Labels /\ "submitted" \in Labels
        /\ "registered" \in Labels /\ "claimed" \in Labels /\ "authorized" \in Labels
        /\ "begun" \in Labels /\ "waiting" \in Labels /\ "received" \in Labels
        /\ "failing" \in Labels
    BY DEF Resting, Working
  <2> HIDE DEF Labels
  <2>4. CASE ~ UNCHANGED pc
    <3> SUFFICES pc' \in [Workers -> Labels]
      BY DEF Labels
    <3>1. PICK w \in Workers :
            \/ Start(w) \/ Crash(w) \/ Authorize(w) \/ AuthorityFails(w) \/ Step(w)
            \/ \E doc \in Approvals : Submit(w, doc)
            \/ \E receipt \in ReceiptShape : Receive(w, receipt)
      BY <2>4 DEF DispatchNext, WorkerNext, vars, workerVars, Tick, RotateKeys
    <3>2. CASE Start(w) \/ Crash(w) \/ Authorize(w) \/ AuthorityFails(w)
      BY <2>1, <2>3, <3>2 DEF Goto, Start, Crash, Authorize, AuthorityFails
    <3>3. CASE \E doc \in Approvals : Submit(w, doc)
      BY <2>1, <2>3, <3>3 DEF Goto, Submit
    <3>4. CASE \E receipt \in ReceiptShape : Receive(w, receipt)
      BY <2>1, <2>3, <3>4 DEF Goto, Receive
    <3>5. CASE Register(w) \/ Claim(w) \/ Begin(w) \/ EnterTransport(w)
      BY <2>1, <2>3, <3>5 DEF Goto, Register, Claim, Begin, EnterTransport
    <3>6. CASE TransportFails(w) \/ Complete(w) \/ Refuse(w) \/ Classify(w)
      BY <2>1, <2>3, <3>6 DEF Goto, TransportFails, Complete, Refuse, Classify
    <3> QED
      BY <3>1, <3>2, <3>3, <3>4, <3>5, <3>6 DEF Step
  <2> QED
    BY <2>2, <2>4 DEF Labels
<1>3. trust' \in [Workers -> TrustStores] /\ clock' \in Times /\ keyring' \in TrustStores
  BY DEF WorkersTypeOK, DispatchNext, WorkerNext, Step, vars, workerVars,
         Tick, RotateKeys, Start, Crash, Submit, Register, Claim, Authorize, AuthorityFails,
         Begin, EnterTransport, Receive, TransportFails, Complete, Refuse, Classify
<1>4. deliveries' \in [Keys -> Nat]
  <2>1. ASSUME NEW w \in Workers, EnterTransport(w) PROVE deliveries' \in [Keys -> Nat]
    <3>1. call[w].doc.key \in Keys
      BY <2>1, DocFacts DEF EnterTransport, CallsInOrder, Working
    <3> QED
      BY <2>1, <3>1 DEF EnterTransport, WorkersTypeOK
  <2>2. CASE UNCHANGED deliveries
    BY <2>2 DEF WorkersTypeOK
  <2> QED
    BY <2>1, <2>2
    DEF DispatchNext, WorkerNext, Step, vars, Tick, RotateKeys, Start, Crash, Submit, Register,
        Claim,
        Authorize, AuthorityFails, Begin, Receive, TransportFails, Complete, Refuse, Classify
<1>5. call' \in [Workers -> CallShape]
  <2> USE DEF WorkersTypeOK
  <2>1. CASE UNCHANGED call
    BY <2>1
  <2>2. ASSUME NEW w \in Workers, Crash(w) PROVE call' \in [Workers -> CallShape]
    BY <2>2 DEF Crash, NoCall, CallShape
  <2>3. ASSUME NEW w \in Workers, NEW doc \in Approvals, Submit(w, doc)
        PROVE  call' \in [Workers -> CallShape]
    <3>1. [NoCall EXCEPT !.doc = doc, !.now = clock] \in CallShape
      BY DEF NoCall, CallShape
    <3> QED
      BY <2>3, <3>1 DEF Submit
  <2>4. ASSUME NEW w \in Workers, Claim(w) PROVE call' \in [Workers -> CallShape]
    <3>1. call[w].doc.key \in Keys /\ SubjectOf(call[w].doc).key = call[w].doc.key
      BY <2>4, DocFacts DEF Claim, CallsInOrder, Working
    <3>2. permits'[call[w].doc.key] \in PermitRows \cup {Null}
      BY <1>1, <3>1 DEF TypeOK
    <3>3. [call[w] EXCEPT !.permit = permits'[call[w].doc.key]] \in CallShape
      BY <3>2 DEF CallShape
    <3>4. call' = [call EXCEPT ![w] = [call[w] EXCEPT !.permit = permits'[call[w].doc.key]]]
      BY <2>4, <3>1 DEF Claim, CallShape
    <3> QED
      BY <3>3, <3>4
  <2>5. ASSUME NEW w \in Workers, Authorize(w) PROVE call' \in [Workers -> CallShape]
    <3> DEFINE e == [key |-> call[w].doc.key, plan |-> call[w].doc.plan, createdAt |-> clock]
    <3>1. e \in Envelopes
      BY <2>5, DocFacts, EnvelopeAssumption DEF Authorize, CallsInOrder, Working, EnvelopeShape
    <3>2. call' = [call EXCEPT ![w] = [call[w] EXCEPT !.envelope = e]]
      BY <2>5 DEF Authorize, CallShape
    <3> HIDE DEF e
    <3>3. [call[w] EXCEPT !.envelope = e] \in CallShape
      BY <3>1 DEF CallShape
    <3> QED
      BY <3>2, <3>3
  <2>6. ASSUME NEW w \in Workers, NEW receipt \in ReceiptShape, Receive(w, receipt)
        PROVE  call' \in [Workers -> CallShape]
    <3>1. [call[w] EXCEPT !.receipt = receipt] \in CallShape
      BY DEF CallShape
    <3>2. call' = [call EXCEPT ![w] = [call[w] EXCEPT !.receipt = receipt]]
      BY <2>6 DEF Receive, CallShape
    <3> QED
      BY <3>1, <3>2
  <2> QED
    BY <2>1, <2>2, <2>3, <2>4, <2>5, <2>6
    DEF DispatchNext, WorkerNext, Step, vars, workerVars, Tick, RotateKeys, Start, Register,
        AuthorityFails, Begin, EnterTransport, TransportFails, Complete, Refuse, Classify
<1> QED
  BY <1>1, <1>2, <1>3, <1>4, <1>5 DEF WorkersTypeOK

-----------------------------------------------------------------------------
(* A step of one worker leaves the calls of the others where they are.      *)

\* A step of one worker leaves the calls of the others alone.
LEMMA OthersStand ==
  ASSUME NEW w \in Workers, WorkersTypeOK, WorkerNext(w), NEW v \in Workers \ {w}
  PROVE  pc'[v] = pc[v] /\ call'[v] = call[v]
<1>1. pc'[v] = pc[v]
  BY DEF WorkersTypeOK, WorkerNext, Step, Goto, Start, Crash, Submit, Register, Claim, Authorize,
         AuthorityFails, Begin, EnterTransport, Receive, TransportFails, Complete, Refuse, Classify
<1>2. call'[v] = call[v]
  BY DEF WorkersTypeOK, WorkerNext, Step, Start, Crash, Submit, Register, Claim, Authorize,
         AuthorityFails, Begin, EnterTransport, Receive, TransportFails, Complete, Refuse, Classify
<1> QED
  BY <1>1, <1>2

\* What a step does to the acting worker's position.
LEMMA NextCallsInOrder ==
  WorkersTypeOK /\ CallsInOrder /\ [DispatchNext]_vars => CallsInOrder'
<1> DEFINE InOrder(label, c) ==
      /\ label \in Working => c.doc \in Approvals /\ c.now \in Times
      /\ label \in {"authorized", "begun", "waiting", "received"} => c.envelope \in Envelopes
      /\ label = "received" => c.receipt \in ReceiptShape
<1> SUFFICES ASSUME WorkersTypeOK, CallsInOrder, [DispatchNext]_vars, NEW v \in Workers
             PROVE  InOrder(pc'[v], call'[v])
  BY DEF CallsInOrder
<1>0. InOrder(pc[v], call[v]) /\ pc[v] \in {"down"} \cup Resting \cup Working /\ call[v] \in CallShape
  BY DEF CallsInOrder, WorkersTypeOK
<1>1. CASE UNCHANGED <<pc, call>>
  BY <1>0, <1>1
<1>2. ASSUME NEW w \in Workers, WorkerNext(w), v # w PROVE InOrder(pc'[v], call'[v])
  BY <1>0, <1>2, OthersStand
<1>3. CASE WorkerNext(v)
  <2>1. CASE Start(v) \/ Crash(v)
    BY <2>1 DEF Start, Crash, Goto, WorkersTypeOK, Working
  <2>2. CASE \E doc \in Approvals : Submit(v, doc)
    BY <2>2 DEF Submit, Goto, WorkersTypeOK, Working, NoCall
  <2>3. CASE Authorize(v)
    <3> DEFINE e == [key |-> call[v].doc.key, plan |-> call[v].doc.plan, createdAt |-> clock]
    <3>1. call[v].doc \in Approvals /\ call[v].now \in Times
      BY <1>0, <2>3 DEF Authorize, Working
    <3>2. e \in Envelopes
      BY <3>1, DocFacts, EnvelopeAssumption DEF EnvelopeShape, WorkersTypeOK
    <3>3. pc'[v] = "authorized" /\ call'[v] = [call[v] EXCEPT !.envelope = e]
      BY <2>3 DEF Authorize, Goto, WorkersTypeOK, CallShape
    <3> HIDE DEF e
    <3>4. call'[v].doc = call[v].doc /\ call'[v].now = call[v].now /\ call'[v].envelope = e
      BY <1>0, <3>3 DEF CallShape
    <3> QED
      BY <3>1, <3>2, <3>3, <3>4
  <2>4. CASE AuthorityFails(v) \/ TransportFails(v) \/ Refuse(v) \/ Classify(v)
    BY <1>0, <2>4 DEF AuthorityFails, TransportFails, Refuse, Classify, Goto, WorkersTypeOK, Working
  <2>5. CASE \E receipt \in ReceiptShape : Receive(v, receipt)
    BY <1>0, <2>5 DEF Receive, Goto, WorkersTypeOK, Working, CallShape
  <2>6. CASE Register(v) \/ Begin(v) \/ EnterTransport(v)
    BY <1>0, <2>6 DEF Register, Begin, EnterTransport, Goto, WorkersTypeOK, Working
  <2>7. CASE Claim(v)
    <3>1. /\ call'[v].doc = call[v].doc /\ call'[v].now = call[v].now
          /\ pc'[v] = "claimed" /\ pc[v] = "registered"
      BY <1>0, <2>7 DEF Claim, Goto, WorkersTypeOK, CallShape
    <3> QED
      BY <1>0, <3>1 DEF Working
  <2>8. CASE Complete(v)
    <3>1. pc'[v] \in {"accepted", "failing"} /\ call' = call /\ pc[v] = "received"
      BY <2>8 DEF Complete, Goto, WorkersTypeOK
    <3> QED
      BY <1>0, <3>1 DEF Working
  <2> QED
    BY <1>3, <2>1, <2>2, <2>3, <2>4, <2>5, <2>6, <2>7, <2>8 DEF WorkerNext, Step
<1> HIDE DEF InOrder
<1> QED
  BY <1>1, <1>2, <1>3 DEF DispatchNext, vars, workerVars, Tick, RotateKeys

-----------------------------------------------------------------------------
(* Who touches a row and who counts an entry.                               *)

\* An open row is changed by nobody but a call that completes that very key.
LEMMA OpenRowsStand ==
  ASSUME NEW w \in Workers, WorkersTypeOK, CallsInOrder, WorkerNext(w),
         NEW k \in Keys, attempts[k].state = "started",
         ~ (pc[w] = "received" /\ call[w].doc.key = k)
  PROVE  attempts'[k] = attempts[k]
<1> USE DEF WorkersTypeOK, TypeOK
<1>1. CASE Start(w)
  BY <1>1 DEF Start, OpenStore, Migrated
<1>2. CASE Register(w)
  BY <1>2 DEF Register, RegisterApproval
<1>3. CASE Claim(w)
  BY <1>3 DEF Claim, ClaimDispatchPermit, ledgerVars
<1>4. CASE Begin(w)
  BY <1>4 DEF Begin, BeginDispatchAttempt, CanBegin
<1>5. CASE Complete(w)
  BY <1>5 DEF Complete, CompleteDispatchAttempt, ledgerVars
<1> QED
  BY <1>1, <1>2, <1>3, <1>4, <1>5
  DEF WorkerNext, Step, ledgerVars, Crash, Submit, Authorize, AuthorityFails,
      EnterTransport, Receive, TransportFails, Refuse, Classify

\* Only entering the transport counts as an entry, and only for its key.
LEMMA EntriesStand ==
  ASSUME NEW w \in Workers, WorkersTypeOK, WorkerNext(w),
         NEW k \in Keys, ~ (pc[w] = "begun" /\ call[w].doc.key = k)
  PROVE  deliveries'[k] = deliveries[k]
BY DEF WorkersTypeOK, WorkerNext, Step, Start, Crash, Submit, Register, Claim, Authorize,
       AuthorityFails, Begin, EnterTransport, Receive, TransportFails, Complete, Refuse, Classify

\* How a call comes to stand past the fence: it reserves a row that did not
\* exist, or it was past the fence already and nothing about it moved.
LEMMA WaysIntoFlight ==
  ASSUME NEW w \in Workers, WorkersTypeOK, CallsInOrder, WorkerNext(w), InFlight(w)'
  PROVE  /\ call[w].doc.key \in Keys
         /\ call'[w].doc = call[w].doc /\ call'[w].envelope = call[w].envelope
         /\ \/ /\ Begin(w) /\ pc'[w] = "begun" /\ deliveries' = deliveries
               /\ attempts[call[w].doc.key].state = "none"
               /\ attempts'[call[w].doc.key].state = "started"
               /\ attempts'[call[w].doc.key].envelope = call[w].envelope
            \/ /\ InFlight(w) /\ attempts' = attempts
               /\ \/ EnterTransport(w) /\ pc[w] = "begun" /\ pc'[w] = "waiting"
                  \/ pc[w] = "waiting" /\ pc'[w] = "received" /\ deliveries' = deliveries
<1> USE DEF WorkersTypeOK
<1>1. pc'[w] \in {"begun", "waiting", "received"}
  BY DEF InFlight
<1>2. CASE Begin(w)
  <2>1. pc[w] = "authorized" /\ pc'[w] = "begun" /\ call' = call /\ deliveries' = deliveries
    BY <1>2 DEF Begin, Goto
  <2>2. call[w].doc.key \in Keys
    BY <2>1, DocFacts DEF CallsInOrder, Working
  <2>3. /\ attempts[call[w].doc.key].state = "none"
        /\ attempts'[call[w].doc.key] = NewAttempt(call[w].envelope, call[w].envelope.createdAt)
    BY <1>2, <2>2 DEF Begin, BeginDispatchAttempt, CanBegin, TypeOK
  <2> QED
    BY <1>2, <2>1, <2>2, <2>3 DEF NewAttempt
<1>3. CASE EnterTransport(w)
  <2>1. pc[w] = "begun" /\ pc'[w] = "waiting" /\ call' = call /\ attempts' = attempts
    BY <1>3 DEF EnterTransport, Goto, ledgerVars
  <2>2. call[w].doc.key \in Keys
    BY <2>1, DocFacts DEF CallsInOrder, Working
  <2> QED
    BY <1>3, <2>1, <2>2 DEF InFlight
<1>4. ASSUME NEW receipt \in ReceiptShape, Receive(w, receipt)
      PROVE  /\ call[w].doc.key \in Keys
             /\ call'[w].doc = call[w].doc /\ call'[w].envelope = call[w].envelope
             /\ InFlight(w) /\ attempts' = attempts
             /\ pc[w] = "waiting" /\ pc'[w] = "received" /\ deliveries' = deliveries
  <2>1. pc[w] = "waiting" /\ pc'[w] = "received" /\ attempts' = attempts
        /\ deliveries' = deliveries
    BY <1>4 DEF Receive, Goto, ledgerVars
  <2>2. call[w].doc.key \in Keys
    BY <2>1, DocFacts DEF CallsInOrder, Working
  <2>3. call'[w] = [call[w] EXCEPT !.receipt = receipt] /\ call[w] \in CallShape
    BY <1>4 DEF Receive
  <2> QED
    BY <2>1, <2>2, <2>3 DEF InFlight, CallShape
<1>5. ASSUME \/ Start(w) \/ Crash(w) \/ \E doc \in Approvals : Submit(w, doc)
             \/ Authorize(w) \/ AuthorityFails(w)
      PROVE  FALSE
  BY <1>1, <1>5 DEF Goto, Start, Crash, Submit, Authorize, AuthorityFails
<1>6. ASSUME \/ Register(w) \/ Claim(w) \/ TransportFails(w) \/ Refuse(w)
             \/ Classify(w)
      PROVE  FALSE
  BY <1>1, <1>6 DEF Goto, Register, Claim, TransportFails, Refuse, Classify
<1>7. ASSUME Complete(w) PROVE FALSE
  <2>1. pc'[w] \in {"accepted", "failing"}
    BY <1>7 DEF Goto, Complete
  <2> QED
    BY <1>1, <2>1
<1> QED
  BY <1>2, <1>3, <1>4, <1>5, <1>6, <1>7 DEF WorkerNext, Step

-----------------------------------------------------------------------------
(* The invariant is inductive.                                              *)

\* No step lets a second call past the fence of a key, or takes the row
\* from the call that owns it.
LEMMA NextReservation ==
  DInv /\ [DispatchNext]_vars => ReservationIsExclusive'
<1> SUFFICES ASSUME DInv, [DispatchNext]_vars PROVE ReservationIsExclusive'
  OBVIOUS
<1> USE DEF DInv
<1>1. CASE UNCHANGED <<pc, call, attempts>>
  BY <1>1 DEF ReservationIsExclusive, InFlight
<1>2. ASSUME NEW w \in Workers, WorkerNext(w) PROVE ReservationIsExclusive'
  <2>1. \A v \in Workers : InFlight(v) => call[v].doc.key \in Keys
    BY DocFacts DEF InFlight, CallsInOrder, Working
  <2>2. ASSUME NEW v \in Workers, v # w, InFlight(v)'
        PROVE  /\ InFlight(v) /\ call'[v] = call[v]
               /\ attempts'[call[v].doc.key] = attempts[call[v].doc.key]
    <3>1. InFlight(v) /\ call'[v] = call[v]
      BY <1>2, <2>2, OthersStand DEF InFlight
    <3>2. /\ attempts[call[v].doc.key].state = "started"
          /\ ~ (InFlight(w) /\ call[w].doc.key = call[v].doc.key)
      BY <2>2, <3>1 DEF ReservationIsExclusive
    <3>3. attempts'[call[v].doc.key] = attempts[call[v].doc.key]
      BY <1>2, <2>1, <3>1, <3>2, OpenRowsStand DEF InFlight
    <3> QED
      BY <3>1, <3>3
  <2>3. ASSUME InFlight(w)'
        PROVE  /\ attempts'[call[w].doc.key].state = "started"
               /\ attempts'[call[w].doc.key].envelope = call[w].envelope
               /\ \A v \in Workers \ {w} : InFlight(v) => call[v].doc.key # call[w].doc.key
    BY <1>2, <2>3, WaysIntoFlight DEF ReservationIsExclusive
  <2>4. ASSUME InFlight(w)'
        PROVE  call'[w].doc = call[w].doc /\ call'[w].envelope = call[w].envelope
    BY <1>2, <2>4, WaysIntoFlight
  <2>5. ASSUME NEW v \in Workers, InFlight(v)'
        PROVE  LET k == call'[v].doc.key IN
               /\ attempts'[k].state = "started" /\ attempts'[k].envelope = call'[v].envelope
               /\ \A u \in Workers \ {v} : InFlight(u)' => call'[u].doc.key # k
    <3>1. CASE v = w
      BY <2>2, <2>3, <2>4, <2>5, <3>1
    <3>2. CASE v # w
      <4>1. /\ attempts'[call'[v].doc.key].state = "started"
            /\ attempts'[call'[v].doc.key].envelope = call'[v].envelope
        BY <2>2, <2>5, <3>2 DEF ReservationIsExclusive
      <4>2. ASSUME NEW u \in Workers \ {v}, InFlight(u)'
            PROVE  call'[u].doc.key # call'[v].doc.key
        <5>1. CASE u = w
          BY <2>2, <2>3, <2>4, <2>5, <3>2, <4>2, <5>1
        <5>2. CASE u # w
          BY <2>2, <2>5, <3>2, <4>2, <5>2 DEF ReservationIsExclusive
        <5> QED
          BY <5>1, <5>2
      <4> QED
        BY <4>1, <4>2
    <3> QED
      BY <3>1, <3>2
  <2> QED
    BY <2>5 DEF ReservationIsExclusive, InFlight
<1> QED
  BY <1>1, <1>2 DEF DispatchNext, vars, workerVars, ledgerVars, Tick, RotateKeys

\* No step enters the transport without a reservation or twice for one.
LEMMA NextEntries ==
  DInv /\ [DispatchNext]_vars => EntriesFollowReservations'
<1> SUFFICES ASSUME DInv, [DispatchNext]_vars PROVE EntriesFollowReservations'
  OBVIOUS
<1> USE DEF DInv
<1>1. CASE UNCHANGED <<pc, call, attempts, deliveries>>
  BY <1>1 DEF EntriesFollowReservations
<1>2. ASSUME NEW w \in Workers, WorkerNext(w) PROVE EntriesFollowReservations'
  <2>0. deliveries \in [Keys -> Nat] /\ \A v \in Workers : InFlight(v) => call[v].doc.key \in Keys
    BY DocFacts DEF InFlight, CallsInOrder, Working, WorkersTypeOK
  <2>1. ASSUME NEW k \in Keys
        PROVE  deliveries'[k] \in {0, 1}
    <3>1. CASE EnterTransport(w) /\ call[w].doc.key = k
      BY <2>0, <3>1 DEF EnterTransport, EntriesFollowReservations
    <3>2. CASE deliveries'[k] = deliveries[k]
      BY <3>2 DEF EntriesFollowReservations
    <3>3. CASE EnterTransport(w) /\ call[w].doc.key # k
      BY <1>2, <3>2, <3>3, EntriesStand
    <3>4. CASE ~ EnterTransport(w)
      BY <1>2, <2>0, <3>2, <3>4
      DEF WorkerNext, Step, Start, Crash, Submit, Register, Claim, Authorize, AuthorityFails,
          Begin, Receive, TransportFails, Complete, Refuse, Classify
    <3> QED
      BY <3>1, <3>3, <3>4
  <2>2. ASSUME NEW k \in Keys, attempts'[k].state = "none"
        PROVE  deliveries'[k] = 0
    <3>1. attempts[k].state = "none"
      <4>1. [Next]_ledgerVars /\ TypeOK
        BY LedgerStep DEF WorkersTypeOK
      <4>2. CASE attempts'[k] = attempts[k]
        BY <2>2, <4>2
      <4>3. CASE attempts'[k] # attempts[k]
        <5>1. PICK row \in AttemptRows : row = attempts[k]
          BY <4>1 DEF TypeOK
        <5>2. CASE attempts'[k] = Migrated(row)
          BY <2>2, <5>1, <5>2 DEF Migrated, AttemptRows
        <5>3. ASSUME NEW envelope, NEW now
              PROVE  NewAttempt(envelope, now).state # "none"
          BY DEF NewAttempt
        <5>4. ASSUME NEW status, NEW print, NEW now
              PROVE  Settled(row, status, print, now).state # "none"
          BY DEF Settled, AttemptRows
        <5> QED
          BY <2>2, <4>1, <4>3, <5>1, <5>2, <5>3, <5>4, AttemptSteps
      <4> QED
        BY <4>2, <4>3
    <3>2. ~ (pc[w] = "begun" /\ call[w].doc.key = k)
      BY <3>1 DEF ReservationIsExclusive, InFlight
    <3> QED
      BY <1>2, <3>1, <3>2, EntriesStand DEF EntriesFollowReservations
  <2>3. ASSUME NEW v \in Workers, v # w, InFlight(v)'
        PROVE  /\ InFlight(v) /\ pc'[v] = pc[v] /\ call'[v] = call[v]
               /\ deliveries'[call[v].doc.key] = deliveries[call[v].doc.key]
    <3>1. InFlight(v) /\ pc'[v] = pc[v] /\ call'[v] = call[v]
      BY <1>2, <2>3, OthersStand DEF InFlight
    <3>2. ~ (InFlight(w) /\ call[w].doc.key = call[v].doc.key)
      BY <2>3, <3>1 DEF ReservationIsExclusive
    <3>3. deliveries'[call[v].doc.key] = deliveries[call[v].doc.key]
      BY <1>2, <2>0, <3>1, <3>2, EntriesStand DEF InFlight
    <3> QED
      BY <3>1, <3>3
  <2>4. ASSUME NEW v \in Workers, v # w
        PROVE  /\ pc'[v] = "begun" => deliveries'[call'[v].doc.key] = 0
               /\ pc'[v] \in {"waiting", "received"} => deliveries'[call'[v].doc.key] = 1
    BY <2>3, <2>4 DEF EntriesFollowReservations, InFlight
  <2>5. /\ pc'[w] = "begun" => deliveries'[call'[w].doc.key] = 0
        /\ pc'[w] \in {"waiting", "received"} => deliveries'[call'[w].doc.key] = 1
    <3> SUFFICES ASSUME InFlight(w)'
                 PROVE  /\ pc'[w] = "begun" => deliveries'[call'[w].doc.key] = 0
                        /\ pc'[w] \in {"waiting", "received"} => deliveries'[call'[w].doc.key] = 1
      BY DEF InFlight
    <3>1. /\ call[w].doc.key \in Keys /\ call'[w].doc = call[w].doc
      BY <1>2, WaysIntoFlight
    <3>2. CASE pc'[w] = "begun" /\ deliveries' = deliveries
               /\ attempts[call[w].doc.key].state = "none"
      BY <3>1, <3>2 DEF EntriesFollowReservations
    <3>3. CASE EnterTransport(w) /\ pc[w] = "begun" /\ pc'[w] = "waiting"
      BY <2>0, <3>1, <3>3 DEF EntriesFollowReservations, EnterTransport
    <3>4. CASE pc[w] = "waiting" /\ pc'[w] = "received" /\ deliveries' = deliveries
      BY <3>1, <3>4 DEF EntriesFollowReservations
    <3> QED
      BY <1>2, <3>2, <3>3, <3>4, WaysIntoFlight
  <2> QED
    BY <2>1, <2>2, <2>4, <2>5 DEF EntriesFollowReservations
<1> QED
  BY <1>1, <1>2 DEF DispatchNext, vars, workerVars, ledgerVars, Tick, RotateKeys

\* The invariant is inductive.
LEMMA NextDInv == DInv /\ [DispatchNext]_vars => DInv'
BY NextWorkersTypeOK, NextCallsInOrder, NextReservation, NextEntries DEF DInv

-----------------------------------------------------------------------------
(* Results.                                                                 *)

\* The state of the workers is well formed throughout.
THEOREM DispatchTypeCorrect == DispatchSpec => []WorkersTypeOK
BY InitDInv, NextDInv, PTL DEF DispatchSpec, DInv

\* Whatever the workers do, what happens to the tables is a behaviour of the
\* ledger: the one-transaction theorems hold of the concurrent system.
THEOREM WorkersKeepTheLedger == DispatchSpec => Spec
<1>1. DispatchInit => Init
  BY DEF DispatchInit
<1>2. DInv /\ [DispatchNext]_vars => [Next]_ledgerVars
  BY LedgerStep DEF DInv
<1> QED
  BY <1>1, <1>2, InitDInv, NextDInv, PTL DEF DispatchSpec, Spec

\* So every promise of the ledger to callers of all kinds is kept to processes
\* that crash, time out and answer late.
THEOREM LedgerKeepsItsPromises ==
  DispatchSpec => /\ []ApprovalsAreSpentOnce
                  /\ []PermitsStayInsideApprovals
                  /\ []AttemptsStayInsidePermits
                  /\ []RowsMatchTheirState
                  /\ HistoryIsImmutable
                  /\ LegacyStaysUncertain
BY WorkersKeepTheLedger, SpentOnce, PermitsInside, AttemptsInside, RowsMatch, HistoryImmutable,
   LegacyNeverReopens, PTL

\* For any number of processes, keys and calls the transport is entered at most
\* once per idempotency key.
THEOREM OneEntry == DispatchSpec => []AtMostOneEntry
<1>1. DInv => AtMostOneEntry
  BY DEF DInv, EntriesFollowReservations, AtMostOneEntry
<1> QED
  BY <1>1, InitDInv, NextDInv, PTL DEF DispatchSpec

\* A call past the fence owns the open attempt of its key.
THEOREM ExclusiveReservation == DispatchSpec => []ReservationIsExclusive
BY InitDInv, NextDInv, PTL DEF DispatchSpec, DInv

\* An attempt nobody in flight owns stays as it is.
LEMMA StepKeepsStranded ==
  DInv /\ [DispatchNext]_vars =>
    \A k \in Keys :
      attempts[k].state = "started"
        /\ ~ (\E w \in Workers : InFlight(w) /\ call[w].doc.key = k) =>
      attempts'[k] = attempts[k]
<1> SUFFICES ASSUME DInv, [DispatchNext]_vars, NEW k \in Keys, attempts[k].state = "started",
                    ~ (\E w \in Workers : InFlight(w) /\ call[w].doc.key = k)
             PROVE  attempts'[k] = attempts[k]
  OBVIOUS
<1>1. CASE UNCHANGED attempts
  BY <1>1
<1>2. ASSUME NEW w \in Workers, WorkerNext(w) PROVE attempts'[k] = attempts[k]
  BY <1>2, OpenRowsStand DEF DInv, InFlight
<1> QED
  BY <1>1, <1>2 DEF DispatchNext, vars, ledgerVars, Tick, RotateKeys

\* No later call closes, releases or takes over a stranded attempt.
THEOREM StrandedStayOpen == DispatchSpec => StrandedAttemptsStayOpen
<1>1. DInv /\ [DispatchNext]_vars =>
        [\A k \in Keys :
           attempts[k].state = "started"
             /\ ~ (\E w \in Workers : InFlight(w) /\ call[w].doc.key = k) =>
           attempts'[k] = attempts[k]]_vars
  BY StepKeepsStranded
<1> QED
  BY <1>1, InitDInv, NextDInv, PTL DEF DispatchSpec, StrandedAttemptsStayOpen

\* Only a call without an attempt is reported as failed before the provider.
LEMMA StepProvesPreBoundary ==
  DInv /\ [DispatchNext]_vars =>
    \A w \in Workers :
      pc[w] # "pre_boundary" /\ pc'[w] = "pre_boundary" /\ call[w].permit # Null =>
        deliveries[call[w].doc.key] = 0
<1> SUFFICES ASSUME DInv, [DispatchNext]_vars, NEW w \in Workers,
                    pc[w] # "pre_boundary", pc'[w] = "pre_boundary", call[w].permit # Null
             PROVE  deliveries[call[w].doc.key] = 0
  OBVIOUS
<1> USE DEF DInv, WorkersTypeOK
<1>1. WorkerNext(w)
  BY OthersStand DEF DispatchNext, vars, workerVars, Tick, RotateKeys
<1>2. Classify(w)
  <2>1. CASE Complete(w)
    BY <2>1 DEF Complete, Goto
  <2> QED
    BY <1>1, <2>1 DEF WorkerNext, Step, Goto, Start, Crash, Submit, Register, Claim, Authorize,
         AuthorityFails, Begin, EnterTransport, Receive, TransportFails, Refuse
<1>3. call[w].doc.key \in Keys /\ attempts[call[w].doc.key].state = "none"
  BY <1>2, DocFacts DEF Classify, Goto, CallsInOrder, Working
<1> QED
  BY <1>3 DEF EntriesFollowReservations

\* The pre-boundary classification the orchestrator releases its claim on is
\* never given for a key whose transport was entered with the call's permit.
THEOREM PreBoundaryProven == DispatchSpec => PreBoundaryIsProven
<1>1. DInv /\ [DispatchNext]_vars =>
        [\A w \in Workers :
           pc[w] # "pre_boundary" /\ pc'[w] = "pre_boundary" /\ call[w].permit # Null =>
             deliveries[call[w].doc.key] = 0]_vars
  BY StepProvesPreBoundary
<1> QED
  BY <1>1, InitDInv, NextDInv, PTL DEF DispatchSpec, PreBoundaryIsProven

-----------------------------------------------------------------------------
(* Workers, ledger and transport implement the abstract fence.              *)

Reserved == {k \in Keys : attempts[k].state # "none"}
Outcome  == [k \in Keys |-> IF attempts[k].state \in {"accepted", "rejected"}
                              THEN attempts[k].state ELSE "unknown"]

\* The initial states map to initial states of the abstract fence.
LEMMA FenceInit == DispatchInit => Fence!Init
<1> SUFFICES ASSUME DispatchInit PROVE Fence!Init
  OBVIOUS
<1>1. \A k \in Keys : attempts[k] \in LegacyRows \cup {NoAttempt}
  BY DEF DispatchInit, Init
<1>2. \A k \in Keys : attempts[k].state \in {"none", "v1"}
  BY <1>1 DEF LegacyRows, LegacyRow, NoAttempt
<1>3. Outcome = [k \in Keys |-> "unknown"]
  BY <1>2 DEF Outcome
<1>4. deliveries = [k \in Keys |-> IF k \in Reserved THEN 1 ELSE 0]
  BY DEF DispatchInit, Reserved
<1>5. Reserved \in SUBSET Keys
  BY DEF Reserved
<1> QED
  BY <1>3, <1>4, <1>5 DEF Fence!Init, Reserved, Outcome

\* One row moving is one key moving in the abstract fence.
LEMMA FenceStep ==
  DInv /\ [DispatchNext]_vars => [Fence!Next]_(Fence!vars)
<1> SUFFICES ASSUME DInv, [DispatchNext]_vars PROVE [Fence!Next]_(Fence!vars)
  OBVIOUS
<1> USE DEF DInv, WorkersTypeOK, TypeOK
<1>1. ASSUME \A k \in Keys : \/ attempts'[k].state = attempts[k].state
                             \/ attempts[k].state = "v1" /\ attempts'[k].state = "legacy_uncertain",
             UNCHANGED deliveries
      PROVE  UNCHANGED Fence!vars
  <2>1. Reserved' = Reserved
    BY <1>1 DEF Reserved
  <2>2. Outcome' = Outcome
    BY <1>1 DEF Outcome
  <2> QED
    BY <1>1, <2>1, <2>2 DEF Fence!vars, Reserved, Outcome
<1>2. CASE UNCHANGED <<attempts, deliveries>>
  BY <1>1, <1>2
<1>3. ASSUME NEW w \in Workers, Start(w) PROVE UNCHANGED Fence!vars
  BY <1>1, <1>3 DEF Start, OpenStore, Migrated
<1>4. ASSUME NEW w \in Workers, Begin(w) PROVE Fence!Next
  <2> DEFINE key == call[w].doc.key
  <2>1. key \in Keys
    BY <1>4, DocFacts DEF Begin, CallsInOrder, Working
  <2>2. /\ attempts[key].state = "none" /\ attempts'[key].state = "started"
        /\ \A j \in Keys \ {key} : attempts'[j] = attempts[j]
        /\ deliveries' = deliveries
    BY <1>4, <2>1 DEF Begin, BeginDispatchAttempt, CanBegin, NewAttempt
  <2> HIDE DEF key
  <2>3. key \notin Reserved /\ Reserved' = Reserved \cup {key}
    BY <2>1, <2>2 DEF Reserved
  <2>4. Outcome' = Outcome
    BY <2>2 DEF Outcome
  <2>5. Fence!Reserve(key)
    BY <2>2, <2>3, <2>4 DEF Fence!Reserve, Reserved, Outcome
  <2> QED
    BY <2>1, <2>5 DEF Fence!Next, Fence!Reserve
<1>5. ASSUME NEW w \in Workers, EnterTransport(w) PROVE Fence!Next
  <2> DEFINE key == call[w].doc.key
  <2>1. key \in Keys
    BY <1>5, DocFacts DEF EnterTransport, CallsInOrder, Working
  <2>2. attempts' = attempts /\ deliveries[key] = 0 /\ attempts[key].state = "started"
    BY <1>5 DEF EnterTransport, ledgerVars, EntriesFollowReservations, ReservationIsExclusive,
                InFlight
  <2>3. deliveries' = [deliveries EXCEPT ![key] = 1]
    BY <1>5, <2>1, <2>2 DEF EnterTransport
  <2> HIDE DEF key
  <2>4. key \in Reserved /\ Reserved' = Reserved /\ Outcome' = Outcome
    BY <2>1, <2>2 DEF Reserved, Outcome
  <2>5. Fence!Enter(key)
    BY <2>2, <2>3, <2>4 DEF Fence!Enter, Reserved, Outcome
  <2>6. \E j \in Keys : Fence!Enter(j)
    BY <2>1, <2>5
  <2> QED
    BY <2>6 DEF Fence!Next
<1>6. ASSUME NEW w \in Workers, Complete(w), ~ UNCHANGED attempts PROVE Fence!Next
  <2> DEFINE key == call[w].doc.key
             o == IF call[w].receipt.status = "dispatched" THEN "accepted" ELSE "rejected"
  <2>1. key \in Keys
    BY <1>6, DocFacts DEF Complete, CallsInOrder, Working
  <2>2. /\ attempts[key].state = "started" /\ attempts'[key].state = o
        /\ \A j \in Keys \ {key} : attempts'[j] = attempts[j]
        /\ deliveries' = deliveries
    <3>1. PICK now :
            CompleteDispatchAttempt(key, call[w].permit, call[w].envelope,
                                    call[w].receipt.status, call[w].receipt.print, now)
      BY <1>6 DEF Complete
    <3>2. /\ attempts[key].state = "started" /\ attempts[key] \in AttemptRows
          /\ attempts' = [attempts EXCEPT ![key] =
               Settled(attempts[key], call[w].receipt.status, call[w].receipt.print, now)]
      BY <1>6, <2>1, <3>1 DEF CompleteDispatchAttempt, CanComplete, ledgerVars
    <3>3. Settled(attempts[key], call[w].receipt.status, call[w].receipt.print, now).state = o
      BY <3>2 DEF Settled, AttemptRows
    <3> QED
      BY <1>6, <2>1, <3>2, <3>3 DEF Complete
  <2>3. deliveries[key] = 1
    BY <1>6 DEF Complete, EntriesFollowReservations
  <2>4. o \in {"accepted", "rejected"}
    OBVIOUS
  <2> HIDE DEF key, o
  <2>5. Reserved' = Reserved
    BY <2>2, <2>4 DEF Reserved
  <2>6. Outcome[key] = "unknown" /\ Outcome' = [Outcome EXCEPT ![key] = o]
    BY <2>1, <2>2, <2>4 DEF Outcome
  <2>7. Fence!Record(key, o)
    BY <2>2, <2>3, <2>5, <2>6 DEF Fence!Record, Reserved, Outcome
  <2> QED
    BY <2>1, <2>4, <2>7 DEF Fence!Next, Fence!Outcomes, Fence!Record
<1>7. ASSUME NEW w \in Workers, Register(w) \/ Claim(w)
      PROVE  UNCHANGED <<attempts, deliveries>>
  BY <1>7 DEF Register, RegisterApproval, Claim, ClaimDispatchPermit, ledgerVars
<1>8. ASSUME NEW w \in Workers, Complete(w) PROVE UNCHANGED deliveries
  BY <1>8 DEF Complete
<1> QED
  BY <1>2, <1>3, <1>4, <1>5, <1>6, <1>7, <1>8
  DEF DispatchNext, WorkerNext, Step, vars, ledgerVars, Tick, RotateKeys, Crash, Submit, Authorize,
      AuthorityFails, Receive, TransportFails, Refuse, Classify

\* Each key is reserved once, entered once after its reservation, and answered
\* at most once after its entry: DispatchSpec refines OneShot.
THEOREM FenceImplemented == DispatchSpec => ImplementsOneShot
BY FenceInit, FenceStep, InitDInv, NextDInv, PTL DEF DispatchSpec, ImplementsOneShot, Fence!Spec

-----------------------------------------------------------------------------
(* What enters the transport was approved, and success is what is stored.   *)

\* Past registration a call holds the recorded document, which its process
\* trusts; past its claim, the permit of that document; past the fence, the
\* time of dispatch is inside the document's window.
CallIsApproved(w) ==
  LET doc == call[w].doc IN
  /\ pc[w] \in {"registered", "claimed", "authorized"} \/ InFlight(w) =>
       /\ approvals[doc.id] # Null /\ approvals[doc.id].doc = doc
       /\ VerifiesUnder(trust[w], doc)
  /\ pc[w] \in {"claimed", "authorized"} \/ InFlight(w) =>
       /\ permits[doc.key] # Null
       /\ permits[doc.key].approval = doc.id /\ permits[doc.key].plan = doc.plan
  /\ InFlight(w) => InWindow(doc, call[w].envelope.createdAt)

EInv ==
  /\ DInv
  /\ IInv
  /\ \A w \in Workers : CallIsApproved(w) /\ (pc[w] = "accepted" => call[w].doc \in Approvals)
  /\ AcceptedIsDurable

\* No process is up in the beginning.
LEMMA InitEInv == DispatchInit => EInv
<1> SUFFICES ASSUME DispatchInit PROVE EInv
  OBVIOUS
<1>1. DInv /\ IInv
  BY InitDInv, InitIInv DEF DispatchInit
<1>2. \A w \in Workers : pc[w] = "down"
  BY DEF DispatchInit
<1> QED
  BY <1>1, <1>2 DEF EInv, CallIsApproved, InFlight, AcceptedIsDurable

\* What the ledger has said, it has said to every process.
LEMMA RecordsStay ==
  ASSUME DInv, [DispatchNext]_vars
  PROVE  /\ \A doc \in Approvals : approvals[doc.id] # Null =>
              approvals'[doc.id] # Null /\ approvals'[doc.id].doc = approvals[doc.id].doc
         /\ \A k \in Keys : /\ permits[k] # Null => permits'[k] = permits[k]
                            /\ attempts[k].state = "accepted" => attempts'[k] = attempts[k]
<1>1. TypeOK /\ [Next]_ledgerVars
  BY LedgerStep DEF DInv, WorkersTypeOK
<1> QED
  BY <1>1, StepKeepsHistory, DocFacts

\* A process keeps the trust store it was started with.
LEMMA TrustStays ==
  ASSUME WorkersTypeOK, NEW w \in Workers, WorkerNext(w), NEW v \in Workers,
         v # w \/ ~ Start(w)
  PROVE  trust'[v] = trust[v]
BY DEF WorkersTypeOK, WorkerNext, Step, Start, Crash, Submit, Register, Claim, Authorize,
       AuthorityFails, Begin, EnterTransport, Receive, TransportFails, Complete, Refuse, Classify

\* A call that does not move stays approved.
LEMMA ApprovalStays ==
  ASSUME DInv, [DispatchNext]_vars, NEW w \in Workers, CallIsApproved(w), trust'[w] = trust[w],
         call'[w].doc = call[w].doc,
         \/ pc'[w] = pc[w] /\ call'[w].envelope = call[w].envelope
         \/ pc[w] = "claimed" /\ pc'[w] = "authorized"
         \/ InFlight(w) /\ InFlight(w)' /\ call'[w].envelope = call[w].envelope
  PROVE  CallIsApproved(w)'
<1>1. CASE pc[w] \in Working
  <2>1. call[w].doc \in Approvals /\ call[w].doc.key \in Keys
    BY <1>1, DocFacts DEF DInv, CallsInOrder
  <2> QED
    BY <2>1, RecordsStay DEF CallIsApproved, InFlight, VerifiesUnder, InWindow
<1>2. CASE pc[w] \notin Working
  BY <1>2 DEF CallIsApproved, InFlight, Working
<1> QED
  BY <1>1, <1>2

\* No step brings a call past registration, claim or fence without the
\* document, the permit or the time for it.
LEMMA NextApproved ==
  ASSUME EInv, [DispatchNext]_vars, NEW v \in Workers
  PROVE  CallIsApproved(v)'
<1> USE DEF EInv, DInv, WorkersTypeOK
<1>1. CASE UNCHANGED <<pc, call, trust>>
  BY <1>1, ApprovalStays
<1>2. ASSUME NEW w \in Workers, WorkerNext(w), v # w
      PROVE  CallIsApproved(v)'
  <2>1. pc'[v] = pc[v] /\ call'[v] = call[v]
    BY <1>2, OthersStand
  <2>2. trust'[v] = trust[v]
    BY <1>2, TrustStays
  <2> QED
    BY <2>1, <2>2, ApprovalStays
<1>3. ASSUME pc'[v] \notin {"registered", "claimed", "authorized", "begun", "waiting", "received"}
      PROVE  CallIsApproved(v)'
  BY <1>3 DEF CallIsApproved, InFlight
<1>4. ASSUME WorkerNext(v), ~ Start(v)
      PROVE  trust'[v] = trust[v]
  BY <1>4, TrustStays
<1>5. CASE Start(v) \/ Crash(v) \/ (\E doc \in Approvals : Submit(v, doc))
  BY <1>3, <1>5 DEF Start, Crash, Submit, Goto
<1>6. CASE AuthorityFails(v) \/ TransportFails(v) \/ Refuse(v) \/ Classify(v) \/ Complete(v)
  <2>1. pc'[v] \in {"failing", "pre_boundary", "boundary", "accepted"}
    BY <1>6 DEF AuthorityFails, TransportFails, Refuse, Classify, Complete, Goto
  <2> QED
    BY <1>3, <2>1
<1>7. CASE Register(v)
  <2>1. /\ pc[v] = "submitted" /\ pc'[v] = "registered" /\ call' = call /\ trust' = trust
        /\ RegisterApproval(call[v].doc, trust[v], call[v].now)
    BY <1>7 DEF Register, Goto
  <2>2. PICK doc \in Approvals : doc = call[v].doc
    BY <2>1 DEF CallsInOrder, Working
  <2>3. VerifiesUnder(trust[v], doc) /\ approvals'[doc.id] # Null /\ approvals'[doc.id].doc = doc
    <3>1. CanRegister(doc, trust[v], call[v].now)
      BY <2>1, <2>2 DEF RegisterApproval
    <3>2. doc.id \in ApprovalIds /\ NewApprovalRow(doc) \in ApprovalRows
      BY <2>2, DocFacts DEF NewApprovalRow, ApprovalRows
    <3>3. NewApprovalRow(doc) # Null /\ NewApprovalRow(doc).doc = doc
      BY <3>2, NullAssumption DEF NewApprovalRow
    <3>4. CASE approvals[doc.id] = Null
      BY <2>1, <2>2, <3>1, <3>2, <3>3, <3>4 DEF RegisterApproval, CanRegister, TypeOK
    <3>5. CASE approvals[doc.id] # Null
      BY <2>1, <2>2, <3>1, <3>5 DEF RegisterApproval, CanRegister
    <3> QED
      BY <3>1, <3>4, <3>5 DEF CanRegister
  <2>4. VerifiesUnder(trust[v], doc)' <=> VerifiesUnder(trust[v], doc)
    BY <2>1 DEF VerifiesUnder
  <2> QED
    BY <2>1, <2>2, <2>3, <2>4 DEF CallIsApproved, InFlight
<1>8. CASE Claim(v)
  <2>1. /\ pc[v] = "registered" /\ pc'[v] = "claimed" /\ trust' = trust
        /\ ClaimDispatchPermit(SubjectOf(call[v].doc), trust[v], call[v].now)
        /\ call'[v].doc = call[v].doc
    BY <1>8 DEF Claim, Goto, CallShape
  <2>2. PICK doc \in Approvals : doc = call[v].doc
    BY <2>1 DEF CallsInOrder, Working
  <2>3. /\ doc.key \in Keys /\ SubjectOf(doc).key = doc.key /\ SubjectOf(doc).approval = doc.id
        /\ SubjectOf(doc).plan = doc.plan /\ SubjectOf(doc) \in Subjects
    BY <2>2, DocFacts DEF SubjectOf
  <2>4. /\ permits'[doc.key] # Null
        /\ permits'[doc.key].approval = doc.id /\ permits'[doc.key].plan = doc.plan
    <3>1. CASE CanReplayClaim(SubjectOf(doc)) /\ UNCHANGED ledgerVars
      BY <2>3, <3>1 DEF CanReplayClaim, ledgerVars
    <3>2. CASE ~ (CanReplayClaim(SubjectOf(doc)) /\ UNCHANGED ledgerVars)
      <4>1. /\ CanClaim(SubjectOf(doc), trust[v], call[v].now)
            /\ permits' = [permits EXCEPT ![doc.key] =
                             NewPermit(SubjectOf(doc), approvals[doc.id].doc, call[v].now)]
        BY <2>1, <2>2, <2>3, <3>2 DEF ClaimDispatchPermit
      <4>2. approvals[doc.id] # Null /\ approvals[doc.id].doc = doc
        BY <2>1, <2>2 DEF CallIsApproved
      <4>3. call[v].now \in Times
        BY <2>1 DEF CallsInOrder, Working
      <4>4. NewPermit(SubjectOf(doc), doc, call[v].now) \in PermitRows
        BY <2>3, <4>3, NewPermitTyped
      <4> QED
        BY <2>3, <4>1, <4>2, <4>4, NullAssumption DEF NewPermit, TypeOK
    <3> QED
      BY <3>1, <3>2
  <2>5. /\ approvals'[doc.id] # Null /\ approvals'[doc.id].doc = doc
        /\ VerifiesUnder(trust[v], doc)
    BY <2>1, <2>2, RecordsStay DEF CallIsApproved
  <2>6. VerifiesUnder(trust[v], doc)' <=> VerifiesUnder(trust[v], doc)
    BY <2>1 DEF VerifiesUnder
  <2> QED
    BY <2>1, <2>2, <2>4, <2>5, <2>6 DEF CallIsApproved, InFlight
<1>9. CASE Authorize(v)
  <2>1. pc[v] = "claimed" /\ pc'[v] = "authorized" /\ call'[v].doc = call[v].doc
        /\ trust' = trust
    BY <1>9 DEF Authorize, Goto, CallShape
  <2> QED
    BY <2>1, ApprovalStays
<1>10. CASE Begin(v)
  <2>1. /\ pc[v] = "authorized" /\ pc'[v] = "begun" /\ call' = call /\ trust' = trust
        /\ approvals' = approvals /\ permits' = permits
        /\ CanBegin(call[v].doc.key, call[v].permit, call[v].envelope.createdAt)
    BY <1>10 DEF Begin, BeginDispatchAttempt, Goto
  <2>2. PICK doc \in Approvals : doc = call[v].doc
    BY <2>1 DEF CallsInOrder, Working
  <2>3. /\ doc.key \in Keys /\ doc.issuedAt \in Nat /\ doc.expiresAt \in Nat
        /\ call[v].envelope.createdAt \in Nat
    BY <2>1, <2>2, DocFacts, EnvelopeFacts, DocsAssumption, TimesAssumption
    DEF CallsInOrder, ApprovalDocs
  <2>4. /\ approvals[doc.id].doc = doc /\ permits[doc.key] # Null
        /\ permits[doc.key].approval = doc.id
    BY <2>1, <2>2 DEF CallIsApproved
  <2>5. /\ permits[doc.key] \in PermitRows
        /\ doc.issuedAt <= permits[doc.key].issuedAt
        /\ permits[doc.key].expiresAt <= doc.expiresAt
    BY <2>3, <2>4 DEF IInv, TypeOK, PermitsStayInsideApprovals
  <2>6. permits[doc.key].issuedAt \in Nat /\ permits[doc.key].expiresAt \in Nat
    BY <2>5, TimesAssumption DEF PermitRows
  <2>7. InWindow(doc, call[v].envelope.createdAt)
    BY <2>1, <2>2, <2>3, <2>5, <2>6 DEF CanBegin, InWindow
  <2> QED
    BY <2>1, <2>2, <2>7 DEF CallIsApproved, InFlight, InWindow, VerifiesUnder
<1>11. CASE EnterTransport(v) \/ \E receipt \in ReceiptShape : Receive(v, receipt)
  <2>1. InFlight(v) /\ InFlight(v)' /\ trust' = trust
        /\ call'[v].doc = call[v].doc /\ call'[v].envelope = call[v].envelope
    BY <1>11 DEF EnterTransport, Receive, Goto, InFlight, CallShape
  <2> QED
    BY <2>1, ApprovalStays
<1> QED
  BY <1>1, <1>2, <1>5, <1>6, <1>7, <1>8, <1>9, <1>10, <1>11
  DEF DispatchNext, WorkerNext, Step, vars, workerVars, Tick, RotateKeys

\* Only a completion makes a call report success, and stored outcomes stand.
LEMMA NextAccepted ==
  ASSUME EInv, [DispatchNext]_vars
  PROVE  /\ \A v \in Workers : pc'[v] = "accepted" => call'[v].doc \in Approvals
         /\ AcceptedIsDurable'
<1> USE DEF EInv, DInv, WorkersTypeOK
<1> DEFINE Stored(v) == LET row == attempts'[call'[v].doc.key] IN
                        /\ call'[v].doc \in Approvals
                        /\ row.state = "accepted"
                        /\ row.envelope = call'[v].envelope /\ row.print = call'[v].receipt.print
<1> SUFFICES ASSUME NEW v \in Workers, pc'[v] = "accepted"
             PROVE  Stored(v)
  BY DEF AcceptedIsDurable
<1>1. CASE pc'[v] = pc[v] /\ call'[v] = call[v]
  <2>1. call[v].doc \in Approvals /\ call[v].doc.key \in Keys
    BY <1>1, DocFacts
  <2> QED
    BY <1>1, <2>1, RecordsStay DEF AcceptedIsDurable
<1>2. CASE Complete(v)
  <2> DEFINE key == call[v].doc.key
             c == call[v]
  <2>1. key \in Keys /\ c.doc \in Approvals
    BY <1>2, DocFacts DEF Complete, CallsInOrder, Working
  <2>2. pc[v] = "received" /\ call' = call /\ c.receipt.status = "dispatched"
    BY <1>2 DEF Complete, Goto
  <2>3. attempts[key].state = "started" /\ attempts[key].envelope = c.envelope
    BY <2>2 DEF ReservationIsExclusive, InFlight
  <2>4. PICK now : CompleteDispatchAttempt(key, c.permit, c.envelope, "dispatched",
                                           c.receipt.print, now)
    BY <1>2, <2>2 DEF Complete
  <2>5. attempts' = [attempts EXCEPT ![key] =
                       Settled(attempts[key], "dispatched", c.receipt.print, now)]
    BY <2>3, <2>4 DEF CompleteDispatchAttempt, CanReplayCompletion
  <2>6. attempts[key] \in AttemptRows
    BY <2>1 DEF TypeOK
  <2>7. LET row == Settled(attempts[key], "dispatched", c.receipt.print, now) IN
        row.state = "accepted" /\ row.envelope = c.envelope /\ row.print = c.receipt.print
    BY <2>3, <2>6 DEF Settled, AttemptRows
  <2>8. attempts'[key] = Settled(attempts[key], "dispatched", c.receipt.print, now)
    BY <2>1, <2>5 DEF TypeOK
  <2> QED
    BY <2>1, <2>2, <2>7, <2>8
<1>3. ASSUME NEW w \in Workers, WorkerNext(w), v # w
      PROVE  Stored(v)
  BY <1>1, <1>3, OthersStand
<1>4. ASSUME WorkerNext(v), ~ Complete(v)
      PROVE  FALSE
  BY <1>4 DEF WorkerNext, Step, Start, Crash, Submit, Register, Claim, Authorize, AuthorityFails,
              Begin, EnterTransport, Receive, TransportFails, Refuse, Classify, Goto
<1> QED
  BY <1>1, <1>2, <1>3, <1>4 DEF DispatchNext, vars, workerVars, Tick, RotateKeys

\* The invariant with approvals and stored outcomes is inductive.
LEMMA NextEInv == EInv /\ [DispatchNext]_vars => EInv'
<1> SUFFICES ASSUME EInv, [DispatchNext]_vars PROVE EInv'
  OBVIOUS
<1>1. TypeOK /\ [Next]_ledgerVars
  BY LedgerStep DEF EInv, DInv, WorkersTypeOK
<1>2. DInv' /\ IInv'
  BY <1>1, NextDInv, NextIInv DEF EInv
<1> QED
  BY <1>2, NextApproved, NextAccepted DEF EInv

\* What enters the transport, for any number of processes, is approved by a
\* recorded document the process trusts, for its key and plan, in its window.
THEOREM EntriesAreAuthorized == DispatchSpec => []EntryIsAuthorized
<1>1. EInv => EntryIsAuthorized
  BY DEF EInv, CallIsApproved, EntryIsAuthorized
<1> QED
  BY <1>1, InitEInv, NextEInv, PTL DEF DispatchSpec

\* Success is reported only of the outcome that is and stays stored.
THEOREM SuccessIsDurable == DispatchSpec => []AcceptedIsDurable
BY InitEInv, NextEInv, PTL DEF DispatchSpec, EInv
=============================================================================
