---------------------------- MODULE ClaimLedger ----------------------------
(***************************************************************************)
(* The signed approval / permit ledger and its one-shot transport fence:   *)
(* the tables of src/src/ledger/sqlite-claim-ledger.mjs and of             *)
(* src/src/ledger/fenced-sqlite-claim-ledger.mjs.  Each ledger method runs *)
(* in one BEGIN IMMEDIATE transaction, so each is one action here.  The    *)
(* callers are arbitrary: any number of processes, each with a clock       *)
(* reading, a trust store and arguments of its own, so every action takes  *)
(* those as parameters.  A call the code refuses changes no row and is     *)
(* simply not enabled.                                                     *)
(***************************************************************************)
EXTENDS Integers, FiniteSets

CONSTANTS
  Keys,              \* idempotency keys
  Plans,             \* the rest of an execution subject: job, plan, component, method, policy
  ApprovalIds,       \* Gatekeeper approval identifiers
  Signers,           \* (issuer, keyId) pairs of the Gatekeeper
  Approvals,         \* the signed approval documents in circulation
  TrustStores,       \* the key records a process may have been configured with
  Times,             \* the readings local clocks can give
  PermitTtl,         \* permitTtlMs
  Envelopes,         \* dispatch envelopes, by fingerprint
  Prints,            \* provider receipts, by fingerprint
  UnsignedApprovals, \* documents recorded before signatures were required
  LegacyApprovals,   \* documents whose permit was attempted under schema v1
  Null               \* SQL NULL, and an absent row

KeyStatuses     == {"active", "retired", "revoked", "unknown"}
ReceiptStatuses == {"dispatched", "blocked", "failed"}
AttemptStates   == {"none", "v1", "started", "accepted", "rejected", "legacy_uncertain"}

\* A signed approval document; genuine says whether its signature verifies.
ApprovalDocs == [id : ApprovalIds, key : Keys, plan : Plans, signer : Signers,
                 genuine : BOOLEAN, issuedAt : Times, expiresAt : Times]

\* "unknown" stands for a key the trust store does not hold.
KeyRecords == [status : KeyStatuses, notBefore : Times, notAfter : Times, retiredAt : Times]

\* The seven bound fields of an execution subject, policy and job folded into plan.
Subjects == [approval : ApprovalIds, key : Keys, plan : Plans]

ApprovalRows == [doc : Approvals, authentic : BOOLEAN,
                 status : {"approved", "consumed"}, claim : Keys \cup {Null}]
PermitRows   == [approval : ApprovalIds, plan : Plans, issuedAt : Times, expiresAt : Nat]
AttemptRows  == [state : AttemptStates, envelope : Envelopes \cup {Null},
                 startedAt : Times \cup {Null}, completedAt : Times \cup {Null},
                 status : ReceiptStatuses \cup {Null}, print : Prints \cup {Null}]

NoAttempt == [state |-> "none", envelope |-> Null, startedAt |-> Null,
              completedAt |-> Null, status |-> Null, print |-> Null]

ASSUME TimesAssumption == Times \subseteq Nat
ASSUME TtlAssumption   == PermitTtl \in Nat \ {0}
ASSUME DocsAssumption  == Approvals \subseteq ApprovalDocs
ASSUME TrustAssumption == TrustStores \subseteq [Signers -> KeyRecords]
ASSUME NullAssumption  ==
  /\ Null \notin ApprovalRows /\ Null \notin PermitRows /\ Null \notin Keys
  /\ Null \notin Times /\ Null \notin Envelopes /\ Null \notin Prints
  /\ Null \notin ReceiptStatuses
\* What the database may hold when the current code first opens it: at most
\* one row per approval and one permit per key.
ASSUME LegacyAssumption ==
  /\ UnsignedApprovals \subseteq Approvals /\ LegacyApprovals \subseteq Approvals
  /\ \A c, d \in UnsignedApprovals \cup LegacyApprovals : c.id = d.id => c = d
  /\ \A c, d \in LegacyApprovals : c.key = d.key => c = d
  /\ UnsignedApprovals \cap LegacyApprovals = {}
  /\ \A c \in LegacyApprovals :
       c.issuedAt < c.expiresAt /\ c.expiresAt <= c.issuedAt + PermitTtl

VARIABLES
  approvals,   \* tables approvals and approval_authenticity, by approval_id
  permits,     \* tables idempotency_claims and dispatch_permits, by idempotency_key
  schema,      \* layout of table permit_dispatch_attempts
  attempts     \* table permit_dispatch_attempts, by the permit's idempotency_key

ledgerVars == <<approvals, permits, schema, attempts>>

TypeOK ==
  /\ approvals \in [ApprovalIds -> ApprovalRows \cup {Null}]
  /\ permits \in [Keys -> PermitRows \cup {Null}]
  /\ schema \in {"absent", "v1", "current"}
  /\ attempts \in [Keys -> AttemptRows]

-----------------------------------------------------------------------------
(* Mutants: what a plausible slip in the code would make of the definitions  *)
(* below.  Nothing uses them but the runs that show which property notices.  *)

\* The comparison forgets the plan.
BindsLoosely(doc, subject) == doc.id = subject.approval /\ doc.key = subject.key

\* The permit lives for the ttl, whatever the approval says.
NewPermitForTtl(subject, doc, now) ==
  [approval |-> subject.approval, plan |-> subject.plan, issuedAt |-> now,
   expiresAt |-> now + PermitTtl]

\* The receipt's fingerprint is not stored.
SettledUnprinted(row, status, print, now) ==
  [row EXCEPT !.state = IF status = "dispatched" THEN "accepted" ELSE "rejected",
              !.completedAt = now, !.status = status]

\* The migration trusts an old completion time.
MigratedAsAccepted(row) ==
  IF row.state = "v1"
    THEN [row EXCEPT !.state = IF row.completedAt = Null THEN "legacy_uncertain" ELSE "accepted"]
    ELSE row

\* The fence ignores the permit's expiry.
CanBeginLate(key, permit, now) ==
  /\ schema = "current" /\ permits[key] # Null /\ permits[key] = permit
  /\ permit.issuedAt <= now /\ attempts[key].state = "none"

\* The fence lets an attempt that never completed be taken over.
CanBeginAgain(key, permit, now) ==
  /\ schema = "current" /\ permits[key] # Null /\ permits[key] = permit
  /\ permit.issuedAt <= now /\ now < permit.expiresAt
  /\ attempts[key].state \in {"none", "started"}

\* The fence lets a rejected attempt be repeated.
CanBeginAfterRejection(key, permit, now) ==
  /\ schema = "current" /\ permits[key] # Null /\ permits[key] = permit
  /\ permit.issuedAt <= now /\ now < permit.expiresAt
  /\ attempts[key].state \in {"none", "rejected"}

\* Opening the store closes what earlier processes left open.
OpenStoreClosing ==
  /\ schema' = "current"
  /\ attempts' = [k \in Keys |-> IF attempts[k].state = "started"
                                   THEN [attempts[k] EXCEPT !.state = "legacy_uncertain"]
                                   ELSE attempts[k]]
  /\ UNCHANGED <<approvals, permits>>

-----------------------------------------------------------------------------
(* Pure checks.                                                             *)

Earlier(s, t) == IF s <= t THEN s ELSE t

\* GatekeeperTrustStore.verify: the key is known, not revoked, and was valid
\* when it signed; the signature is genuine.
VerifiesUnder(trust, doc) ==
  LET record == trust[doc.signer] IN
  /\ record.status \in {"active", "retired"}
  /\ record.notBefore <= doc.issuedAt /\ doc.issuedAt < record.notAfter
  /\ record.status = "retired" => doc.issuedAt < record.retiredAt
  /\ doc.genuine

\* The validity window of assertApprovalBinding.
InWindow(doc, now) == doc.issuedAt <= now /\ now < doc.expiresAt

\* The field comparison of assertApprovalBinding.
Binds(doc, subject) ==
  doc.id = subject.approval /\ doc.key = subject.key /\ doc.plan = subject.plan

NewApprovalRow(doc) ==
  [doc |-> doc, authentic |-> TRUE, status |-> "approved", claim |-> Null]

NewPermit(subject, doc, now) ==
  [approval |-> subject.approval, plan |-> subject.plan, issuedAt |-> now,
   expiresAt |-> Earlier(doc.expiresAt, now + PermitTtl)]

NewAttempt(envelope, now) ==
  [state |-> "started", envelope |-> envelope, startedAt |-> now,
   completedAt |-> Null, status |-> Null, print |-> Null]

Settled(row, status, print, now) ==
  [row EXCEPT !.state = IF status = "dispatched" THEN "accepted" ELSE "rejected",
              !.completedAt = now, !.status = status, !.print = print]

Migrated(row) ==
  IF row.state = "v1" THEN [row EXCEPT !.state = "legacy_uncertain"] ELSE row

-----------------------------------------------------------------------------
(* What each transaction accepts.                                           *)

CanRegister(doc, trust, now) ==
  /\ VerifiesUnder(trust, doc)
  /\ InWindow(doc, now)
  /\ \/ approvals[doc.id] = Null
     \/ approvals[doc.id] # Null /\ approvals[doc.id].authentic /\ approvals[doc.id].doc = doc

\* A key that is already claimed answers with its permit and checks nothing else.
CanReplayClaim(subject) ==
  /\ permits[subject.key] # Null
  /\ permits[subject.key].approval = subject.approval
  /\ permits[subject.key].plan = subject.plan

CanClaim(subject, trust, now) ==
  /\ permits[subject.key] = Null
  /\ approvals[subject.approval] # Null
  /\ approvals[subject.approval].authentic
  /\ approvals[subject.approval].status = "approved"
  /\ VerifiesUnder(trust, approvals[subject.approval].doc)
  /\ Binds(approvals[subject.approval].doc, subject)
  /\ InWindow(approvals[subject.approval].doc, now)

CanBegin(key, permit, now) ==
  /\ schema = "current"
  /\ permits[key] # Null
  /\ permits[key] = permit
  /\ permit.issuedAt <= now /\ now < permit.expiresAt
  /\ attempts[key].state = "none"

CanComplete(key, permit, envelope, now) ==
  /\ schema = "current"
  /\ permits[key] = permit
  /\ attempts[key].state = "started"
  /\ attempts[key].envelope = envelope
  /\ attempts[key].startedAt <= now

\* A second completion must repeat the first one's evidence.
CanReplayCompletion(key, permit, envelope, status, print) ==
  /\ schema = "current"
  /\ permits[key] = permit
  /\ attempts[key].state = (IF status = "dispatched" THEN "accepted" ELSE "rejected")
  /\ attempts[key].envelope = envelope
  /\ attempts[key].status = status
  /\ attempts[key].print = print

-----------------------------------------------------------------------------
(* The transactions.                                                        *)

\* The constructor: create the attempt table, accept it, or migrate schema v1.
OpenStore ==
  /\ schema' = "current"
  /\ attempts' = [k \in Keys |-> IF schema = "v1" THEN Migrated(attempts[k]) ELSE attempts[k]]
  /\ UNCHANGED <<approvals, permits>>

RegisterApproval(doc, trust, now) ==
  /\ CanRegister(doc, trust, now)
  /\ approvals' = IF approvals[doc.id] = Null
                    THEN [approvals EXCEPT ![doc.id] = NewApprovalRow(doc)]
                    ELSE approvals
  /\ UNCHANGED <<permits, schema, attempts>>

ClaimDispatchPermit(subject, trust, now) ==
  \/ /\ CanReplayClaim(subject)
     /\ UNCHANGED ledgerVars
  \/ /\ CanClaim(subject, trust, now)
     /\ approvals' = [approvals EXCEPT ![subject.approval].status = "consumed",
                                       ![subject.approval].claim = subject.key]
     /\ permits' = [permits EXCEPT ![subject.key] =
                      NewPermit(subject, approvals[subject.approval].doc, now)]
     /\ UNCHANGED <<schema, attempts>>

BeginDispatchAttempt(key, permit, envelope, now) ==
  /\ CanBegin(key, permit, now)
  /\ attempts' = [attempts EXCEPT ![key] = NewAttempt(envelope, now)]
  /\ UNCHANGED <<approvals, permits, schema>>

CompleteDispatchAttempt(key, permit, envelope, status, print, now) ==
  \/ /\ CanReplayCompletion(key, permit, envelope, status, print)
     /\ UNCHANGED ledgerVars
  \/ /\ CanComplete(key, permit, envelope, now)
     /\ attempts' = [attempts EXCEPT ![key] = Settled(attempts[key], status, print, now)]
     /\ UNCHANGED <<approvals, permits, schema>>

-----------------------------------------------------------------------------
\* The database a process may find: empty, or left by the earlier versions.
LegacyPermit(doc) ==
  [approval |-> doc.id, plan |-> doc.plan, issuedAt |-> doc.issuedAt, expiresAt |-> doc.expiresAt]

LegacyRow(startedAt, completedAt, print) ==
  [state |-> "v1", envelope |-> Null, startedAt |-> startedAt,
   completedAt |-> completedAt, status |-> Null, print |-> print]

LegacyRows == {LegacyRow(s, Null, Null) : s \in Times}
                \cup {LegacyRow(s, t, p) : s \in Times, t \in Times, p \in Prints}

Init ==
  /\ approvals = [i \in ApprovalIds |->
       IF \E c \in UnsignedApprovals : c.id = i
         THEN [doc |-> CHOOSE c \in UnsignedApprovals : c.id = i,
               authentic |-> FALSE, status |-> "approved", claim |-> Null]
       ELSE IF \E c \in LegacyApprovals : c.id = i
         THEN LET doc == CHOOSE c \in LegacyApprovals : c.id = i
              IN [doc |-> doc, authentic |-> TRUE, status |-> "consumed", claim |-> doc.key]
       ELSE Null]
  /\ permits = [k \in Keys |->
       IF \E c \in LegacyApprovals : c.key = k
         THEN LegacyPermit(CHOOSE c \in LegacyApprovals : c.key = k) ELSE Null]
  /\ schema = IF LegacyApprovals = {} THEN "absent" ELSE "v1"
  /\ attempts \in [Keys -> LegacyRows \cup {NoAttempt}]
  /\ \A k \in Keys : attempts[k] = NoAttempt <=> ~ \E c \in LegacyApprovals : c.key = k

Next ==
  \/ OpenStore
  \/ \E doc \in Approvals, trust \in TrustStores, now \in Times :
       RegisterApproval(doc, trust, now)
  \/ \E subject \in Subjects, trust \in TrustStores, now \in Times :
       ClaimDispatchPermit(subject, trust, now)
  \/ \E key \in Keys, envelope \in Envelopes, now \in Times :
       BeginDispatchAttempt(key, permits[key], envelope, now)
  \/ \E key \in Keys, envelope \in Envelopes, status \in ReceiptStatuses, print \in Prints,
        now \in Times :
       CompleteDispatchAttempt(key, permits[key], envelope, status, print, now)

Spec == Init /\ [][Next]_ledgerVars

-----------------------------------------------------------------------------
(* Properties.                                                              *)

\* An approval is consumed exactly when one permit was issued from it, for the
\* key and plan its document names: no approval pays for two permits, no permit
\* is unpaid, and a crash between consuming and issuing cannot show.
ApprovalsAreSpentOnce ==
  /\ \A i \in ApprovalIds :
       approvals[i] # Null /\ approvals[i].status = "consumed" =>
         /\ approvals[i].claim \in Keys
         /\ permits[approvals[i].claim] # Null
         /\ permits[approvals[i].claim].approval = i
  /\ \A k \in Keys :
       permits[k] # Null =>
         LET row == approvals[permits[k].approval] IN
         /\ row # Null
         /\ row.status = "consumed" /\ row.claim = k
         /\ row.doc.id = permits[k].approval
         /\ row.doc.key = k /\ row.doc.plan = permits[k].plan

\* The authority a permit carries never outlives the approval nor the ttl, and
\* never starts before the approval: the clock used at claim time decides, and
\* a replayed claim cannot extend it.
PermitsStayInsideApprovals ==
  \A k \in Keys :
    permits[k] # Null =>
      LET doc == approvals[permits[k].approval].doc IN
      /\ doc.issuedAt <= permits[k].issuedAt
      /\ permits[k].issuedAt < permits[k].expiresAt
      /\ permits[k].expiresAt <= doc.expiresAt
      /\ permits[k].expiresAt <= permits[k].issuedAt + PermitTtl

\* Every attempt stands on a persisted permit and, unless it predates the fence,
\* was reserved inside that permit's window; its outcome is not older than it.
AttemptsStayInsidePermits ==
  \A k \in Keys :
    /\ attempts[k].state # "none" => permits[k] # Null
    /\ attempts[k].state \in {"started", "accepted", "rejected"} =>
         /\ permits[k].issuedAt <= attempts[k].startedAt
         /\ attempts[k].startedAt < permits[k].expiresAt
    /\ attempts[k].state \in {"accepted", "rejected"} =>
         attempts[k].startedAt <= attempts[k].completedAt

\* The CHECK constraint of permit_dispatch_attempts, state by state.
RowsMatchTheirState ==
  \A k \in Keys : LET row == attempts[k] IN
    /\ row.state = "started" =>
         row.envelope # Null /\ row.startedAt # Null
           /\ row.completedAt = Null /\ row.status = Null /\ row.print = Null
    /\ row.state = "accepted" =>
         row.envelope # Null /\ row.startedAt # Null
           /\ row.completedAt # Null /\ row.status = "dispatched" /\ row.print # Null
    /\ row.state = "rejected" =>
         row.envelope # Null /\ row.startedAt # Null
           /\ row.completedAt # Null /\ row.status \in {"blocked", "failed"} /\ row.print # Null
    /\ row.state \in {"v1", "legacy_uncertain"} =>
         row.envelope = Null /\ row.status = Null
           /\ (row.completedAt = Null <=> row.print = Null)
    /\ row.state = "v1" => schema = "v1"

\* What the ledger has said stays said: a permit, the envelope an attempt
\* reserved, a recorded outcome and a migrated uncertainty are never rewritten,
\* and a consumed approval is never offered again.
HistoryIsImmutable ==
  [][/\ \A i \in ApprovalIds :
          /\ approvals[i] # Null =>
               approvals'[i] # Null /\ approvals'[i].doc = approvals[i].doc
          /\ approvals[i] # Null /\ approvals[i].status = "consumed" =>
               approvals'[i] = approvals[i]
     /\ \A k \in Keys :
          /\ permits[k] # Null => permits'[k] = permits[k]
          /\ attempts[k].state = "started" =>
               /\ attempts'[k].state \in {"started", "accepted", "rejected"}
               /\ attempts'[k].envelope = attempts[k].envelope
               /\ attempts'[k].startedAt = attempts[k].startedAt
          /\ attempts[k].state \in {"accepted", "rejected", "legacy_uncertain"} =>
               attempts'[k] = attempts[k]
    ]_ledgerVars

\* No attempt that may have reached a provider under the earlier schema can be
\* attempted again: its row never returns to a state that lets Begin through.
LegacyStaysUncertain ==
  [][\A k \in Keys :
       attempts[k].state \in {"v1", "legacy_uncertain"} =>
         attempts'[k].state \in {"v1", "legacy_uncertain"}]_ledgerVars
=============================================================================
