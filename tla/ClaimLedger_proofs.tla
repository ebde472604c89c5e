------------------------- MODULE ClaimLedger_proofs -------------------------
(***************************************************************************)
(* Proofs about ClaimLedger, for every set of keys, documents, trust       *)
(* stores, envelopes and clock readings.  The inductive invariant joins    *)
(* the type invariant with the four relations between the tables: a permit *)
(* is inside its approval only because the approval it names is consumed,  *)
(* so never rewritten, and an attempt is inside its permit only because    *)
(* permits are never rewritten.                                            *)
(***************************************************************************)
EXTENDS ClaimLedger, TLAPS

IInv ==
  /\ TypeOK
  /\ ApprovalsAreSpentOnce
  /\ PermitsStayInsideApprovals
  /\ AttemptsStayInsidePermits
  /\ RowsMatchTheirState

-----------------------------------------------------------------------------
(* The initial database.                                                    *)

\* The rows an earlier version left are well typed.
LEMMA InitTypeOK == Init => TypeOK
<1> SUFFICES ASSUME Init PROVE TypeOK
  OBVIOUS
<1>1. approvals \in [ApprovalIds -> ApprovalRows \cup {Null}]
  <2> DEFINE row(i) ==
       IF \E c \in UnsignedApprovals : c.id = i
         THEN [doc |-> CHOOSE c \in UnsignedApprovals : c.id = i,
               authentic |-> FALSE, status |-> "approved", claim |-> Null]
       ELSE IF \E c \in LegacyApprovals : c.id = i
         THEN LET doc == CHOOSE c \in LegacyApprovals : c.id = i
              IN [doc |-> doc, authentic |-> TRUE, status |-> "consumed", claim |-> doc.key]
       ELSE Null
  <2>1. ASSUME NEW i \in ApprovalIds PROVE row(i) \in ApprovalRows \cup {Null}
    <3>1. CASE \E c \in UnsignedApprovals : c.id = i
      <4>1. (CHOOSE c \in UnsignedApprovals : c.id = i) \in Approvals
        BY <3>1, LegacyAssumption
      <4> QED
        BY <3>1, <4>1 DEF ApprovalRows
    <3>2. CASE ~ (\E c \in UnsignedApprovals : c.id = i) /\ \E c \in LegacyApprovals : c.id = i
      <4>1. (CHOOSE c \in LegacyApprovals : c.id = i) \in Approvals
        BY <3>2, LegacyAssumption
      <4>2. (CHOOSE c \in LegacyApprovals : c.id = i).key \in Keys
        BY <4>1, DocsAssumption DEF ApprovalDocs
      <4> QED
        BY <3>2, <4>1, <4>2 DEF ApprovalRows
    <3>3. CASE ~ (\E c \in UnsignedApprovals : c.id = i) /\ ~ \E c \in LegacyApprovals : c.id = i
      BY <3>3
    <3> QED
      BY <3>1, <3>2, <3>3
  <2>2. approvals = [i \in ApprovalIds |-> row(i)]
    BY DEF Init
  <2> HIDE DEF row
  <2> QED
    BY <2>1, <2>2
<1>2. permits \in [Keys -> PermitRows \cup {Null}]
  <2> DEFINE permit(k) ==
       IF \E c \in LegacyApprovals : c.key = k
         THEN LegacyPermit(CHOOSE c \in LegacyApprovals : c.key = k) ELSE Null
  <2>1. ASSUME NEW k \in Keys PROVE permit(k) \in PermitRows \cup {Null}
    <3>1. CASE \E c \in LegacyApprovals : c.key = k
      <4> DEFINE doc == CHOOSE c \in LegacyApprovals : c.key = k
      <4>1. doc \in LegacyApprovals
        BY <3>1
      <4> HIDE DEF doc
      <4>2. LegacyPermit(doc) \in PermitRows
        BY <4>1, LegacyAssumption, DocsAssumption, TimesAssumption
        DEF ApprovalDocs, PermitRows, LegacyPermit
      <4> QED
        BY <3>1, <4>2 DEF doc
    <3>2. CASE ~ \E c \in LegacyApprovals : c.key = k
      BY <3>2
    <3> QED
      BY <3>1, <3>2
  <2>2. permits = [k \in Keys |-> permit(k)]
    BY DEF Init
  <2> HIDE DEF permit
  <2> QED
    BY <2>1, <2>2
<1>3. schema \in {"absent", "v1", "current"}
  BY DEF Init
<1>4. attempts \in [Keys -> AttemptRows]
  <2>1. LegacyRows \cup {NoAttempt} \subseteq AttemptRows
    BY DEF LegacyRows, LegacyRow, NoAttempt, AttemptRows, AttemptStates
  <2> QED
    BY <2>1 DEF Init
<1> QED
  BY <1>1, <1>2, <1>3, <1>4 DEF TypeOK

\* What Init stores under a legacy approval's id and under its key.
LEMMA InitLegacyRows ==
  ASSUME Init, NEW c \in LegacyApprovals
  PROVE  /\ c.id \in ApprovalIds /\ c.key \in Keys
         /\ approvals[c.id] \in ApprovalRows
         /\ approvals[c.id].doc = c
         /\ approvals[c.id].status = "consumed" /\ approvals[c.id].claim = c.key
         /\ permits[c.key] \in PermitRows
         /\ permits[c.key].approval = c.id /\ permits[c.key].plan = c.plan
         /\ permits[c.key].issuedAt = c.issuedAt /\ permits[c.key].expiresAt = c.expiresAt
<1>1. /\ c \in Approvals /\ c.id \in ApprovalIds /\ c.key \in Keys /\ c.plan \in Plans
      /\ c.issuedAt \in Times /\ c.expiresAt \in Nat
  BY LegacyAssumption, DocsAssumption, TimesAssumption DEF ApprovalDocs
<1>2. (CHOOSE d \in LegacyApprovals : d.id = c.id) = c
  BY LegacyAssumption
<1>3. ~ \E d \in UnsignedApprovals : d.id = c.id
  BY LegacyAssumption
<1>4. approvals[c.id] = [doc |-> c, authentic |-> TRUE, status |-> "consumed", claim |-> c.key]
  BY <1>1, <1>2, <1>3 DEF Init
<1>5. (CHOOSE d \in LegacyApprovals : d.key = c.key) = c
  BY LegacyAssumption
<1>6. permits[c.key] = LegacyPermit(c)
  BY <1>1, <1>5 DEF Init
<1>7. approvals[c.id] \in ApprovalRows
  BY <1>1, <1>4 DEF ApprovalRows
<1>8. permits[c.key] \in PermitRows
  BY <1>1, <1>6 DEF PermitRows, LegacyPermit
<1> QED
  BY <1>1, <1>4, <1>6, <1>7, <1>8 DEF LegacyPermit

\* Conversely, the only consumed rows and the only permits are legacy ones.
LEMMA InitOnlyLegacy ==
  ASSUME Init
  PROVE  /\ \A i \in ApprovalIds :
              approvals[i] # Null /\ approvals[i].status = "consumed" =>
                \E c \in LegacyApprovals : c.id = i
         /\ \A k \in Keys : permits[k] # Null => \E c \in LegacyApprovals : c.key = k
<1>1. ASSUME NEW i \in ApprovalIds, approvals[i] # Null, approvals[i].status = "consumed"
      PROVE  \E c \in LegacyApprovals : c.id = i
  <2>1. CASE \E c \in UnsignedApprovals : c.id = i
    <3>1. approvals[i] = [doc |-> CHOOSE c \in UnsignedApprovals : c.id = i,
                          authentic |-> FALSE, status |-> "approved", claim |-> Null]
      BY <2>1 DEF Init
    <3> QED
      BY <3>1, <1>1
  <2>2. CASE ~ \E c \in UnsignedApprovals : c.id = i
    BY <2>2, <1>1 DEF Init
  <2> QED
    BY <2>1, <2>2
<1>2. ASSUME NEW k \in Keys, permits[k] # Null PROVE \E c \in LegacyApprovals : c.key = k
  BY <1>2 DEF Init
<1> QED
  BY <1>1, <1>2

\* Whatever database the ledger is opened on satisfies the invariant.
LEMMA InitIInv == Init => IInv
<1> SUFFICES ASSUME Init PROVE IInv
  OBVIOUS
<1>1. TypeOK
  BY InitTypeOK
<1>2. ApprovalsAreSpentOnce
  <2>1. ASSUME NEW i \in ApprovalIds, approvals[i] # Null, approvals[i].status = "consumed"
        PROVE  /\ approvals[i].claim \in Keys
               /\ permits[approvals[i].claim] # Null
               /\ permits[approvals[i].claim].approval = i
    <3>1. PICK c \in LegacyApprovals : i = c.id
      BY <2>1, InitOnlyLegacy
    <3>2. /\ approvals[c.id].claim = c.key /\ c.key \in Keys
          /\ permits[c.key] \in PermitRows /\ permits[c.key].approval = c.id
      BY InitLegacyRows
    <3> QED
      BY <3>1, <3>2, NullAssumption
  <2>2. ASSUME NEW k \in Keys, permits[k] # Null
        PROVE  LET row == approvals[permits[k].approval] IN
               /\ row # Null
               /\ row.status = "consumed" /\ row.claim = k
               /\ row.doc.id = permits[k].approval
               /\ row.doc.key = k /\ row.doc.plan = permits[k].plan
    <3>1. PICK c \in LegacyApprovals : k = c.key
      BY <2>2, InitOnlyLegacy
    <3>2. /\ permits[c.key].approval = c.id /\ permits[c.key].plan = c.plan
          /\ approvals[c.id] \in ApprovalRows /\ approvals[c.id].doc = c
          /\ approvals[c.id].status = "consumed" /\ approvals[c.id].claim = c.key
      BY InitLegacyRows
    <3> QED
      BY <3>1, <3>2, NullAssumption
  <2> QED
    BY <2>1, <2>2 DEF ApprovalsAreSpentOnce
<1>3. PermitsStayInsideApprovals
  <2> SUFFICES ASSUME NEW k \in Keys, permits[k] # Null
               PROVE  LET doc == approvals[permits[k].approval].doc IN
                      /\ doc.issuedAt <= permits[k].issuedAt
                      /\ permits[k].issuedAt < permits[k].expiresAt
                      /\ permits[k].expiresAt <= doc.expiresAt
                      /\ permits[k].expiresAt <= permits[k].issuedAt + PermitTtl
    BY DEF PermitsStayInsideApprovals
  <2>1. PICK c \in LegacyApprovals : k = c.key
    BY InitOnlyLegacy
  <2>2. /\ permits[c.key].approval = c.id /\ approvals[c.id].doc = c
        /\ permits[c.key].issuedAt = c.issuedAt /\ permits[c.key].expiresAt = c.expiresAt
    BY InitLegacyRows
  <2>3. c.issuedAt < c.expiresAt /\ c.expiresAt <= c.issuedAt + PermitTtl
        /\ c.issuedAt \in Nat /\ c.expiresAt \in Nat
    BY LegacyAssumption, DocsAssumption, TimesAssumption DEF ApprovalDocs
  <2> QED
    BY <2>1, <2>2, <2>3
<1>4. \A k \in Keys : attempts[k] \in LegacyRows \cup {NoAttempt}
  BY DEF Init
<1>5. AttemptsStayInsidePermits
  <2>1. \A k \in Keys : attempts[k].state \in {"none", "v1"}
    BY <1>4 DEF LegacyRows, LegacyRow, NoAttempt
  <2>2. ASSUME NEW k \in Keys, attempts[k].state # "none" PROVE permits[k] # Null
    <3>1. PICK c \in LegacyApprovals : k = c.key
      BY <2>2 DEF Init, NoAttempt
    <3>2. permits[c.key] \in PermitRows
      BY InitLegacyRows
    <3> QED
      BY <3>1, <3>2, NullAssumption
  <2> QED
    BY <2>1, <2>2 DEF AttemptsStayInsidePermits
<1>6. RowsMatchTheirState
  <2>1. ASSUME NEW k \in Keys, attempts[k] \in LegacyRows PROVE schema = "v1"
    <3>1. attempts[k] # NoAttempt
      BY <2>1 DEF LegacyRows, LegacyRow, NoAttempt
    <3>2. LegacyApprovals # {}
      BY <3>1 DEF Init
    <3> QED
      BY <3>2 DEF Init
  <2> QED
    BY <1>4, <2>1, NullAssumption DEF RowsMatchTheirState, LegacyRows, LegacyRow, NoAttempt
<1> QED
  BY <1>1, <1>2, <1>3, <1>5, <1>6 DEF IInv

-----------------------------------------------------------------------------
(* Facts about the rows the transactions write.                             *)

\* claimDispatchPermit issues a well-formed permit.
LEMMA NewPermitTyped ==
  ASSUME NEW subject \in Subjects, NEW doc \in Approvals, NEW now \in Times
  PROVE  NewPermit(subject, doc, now) \in PermitRows
<1>1. doc.expiresAt \in Nat /\ now \in Nat /\ PermitTtl \in Nat
  BY DocsAssumption, TimesAssumption, TtlAssumption DEF ApprovalDocs
<1>2. Earlier(doc.expiresAt, now + PermitTtl) \in Nat
  BY <1>1 DEF Earlier
<1> QED
  BY <1>2 DEF NewPermit, PermitRows, Subjects

\* The permit issued inside an approval's window stays inside it and the ttl.
LEMMA NewPermitInside ==
  ASSUME NEW subject \in Subjects, NEW doc \in Approvals, NEW now \in Times,
         InWindow(doc, now)
  PROVE  LET permit == NewPermit(subject, doc, now) IN
         /\ doc.issuedAt <= permit.issuedAt
         /\ permit.issuedAt < permit.expiresAt
         /\ permit.expiresAt <= doc.expiresAt
         /\ permit.expiresAt <= permit.issuedAt + PermitTtl
<1>1. doc.issuedAt \in Nat /\ doc.expiresAt \in Nat /\ now \in Nat
  BY DocsAssumption, TimesAssumption DEF ApprovalDocs
<1>0. PermitTtl \in Nat /\ PermitTtl > 0
  BY TtlAssumption
<1>2. /\ now < Earlier(doc.expiresAt, now + PermitTtl)
      /\ Earlier(doc.expiresAt, now + PermitTtl) <= doc.expiresAt
      /\ Earlier(doc.expiresAt, now + PermitTtl) <= now + PermitTtl
  BY <1>0, <1>1 DEF Earlier, InWindow
<1>3. doc.issuedAt <= now
  BY DEF InWindow
<1> QED
  BY <1>2, <1>3 DEF NewPermit

\* The attempt rows begin and complete write are well formed.
LEMMA AttemptRowsTyped ==
  /\ NoAttempt \in AttemptRows
  /\ \A envelope \in Envelopes, now \in Times : NewAttempt(envelope, now) \in AttemptRows
  /\ \A row \in AttemptRows, status \in ReceiptStatuses, print \in Prints, now \in Times :
       Settled(row, status, print, now) \in AttemptRows
  /\ \A row \in AttemptRows : Migrated(row) \in AttemptRows
<1>1. NoAttempt \in AttemptRows
  BY DEF NoAttempt, AttemptRows, AttemptStates
<1>2. \A envelope \in Envelopes, now \in Times : NewAttempt(envelope, now) \in AttemptRows
  BY DEF NewAttempt, AttemptRows, AttemptStates
<1>3. ASSUME NEW row \in AttemptRows, NEW status \in ReceiptStatuses, NEW print \in Prints,
             NEW now \in Times
      PROVE  Settled(row, status, print, now) \in AttemptRows
  BY DEF Settled, AttemptRows, AttemptStates
<1>4. ASSUME NEW row \in AttemptRows PROVE Migrated(row) \in AttemptRows
  BY DEF Migrated, AttemptRows, AttemptStates
<1> QED
  BY <1>1, <1>2, <1>3, <1>4

-----------------------------------------------------------------------------
(* Every transaction preserves the types.                                   *)

\* Every transaction keeps every row of every table well formed.
LEMMA NextTypeOK == TypeOK /\ [Next]_ledgerVars => TypeOK'
<1> SUFFICES ASSUME TypeOK, [Next]_ledgerVars PROVE TypeOK'
  OBVIOUS
<1> USE DEF TypeOK
<1>1. CASE OpenStore
  BY <1>1, AttemptRowsTyped DEF OpenStore
<1>2. ASSUME NEW doc \in Approvals, NEW trust \in TrustStores, NEW now \in Times,
             RegisterApproval(doc, trust, now)
      PROVE  TypeOK'
  <2>1. doc.id \in ApprovalIds /\ NewApprovalRow(doc) \in ApprovalRows
    BY DocsAssumption DEF ApprovalDocs, NewApprovalRow, ApprovalRows
  <2> QED
    BY <1>2, <2>1 DEF RegisterApproval
<1>3. ASSUME NEW subject \in Subjects, NEW trust \in TrustStores, NEW now \in Times,
             ClaimDispatchPermit(subject, trust, now)
      PROVE  TypeOK'
  <2>1. CASE UNCHANGED ledgerVars
    BY <2>1 DEF ledgerVars
  <2>2. CASE ~ UNCHANGED ledgerVars
    <3>1. /\ subject.approval \in ApprovalIds /\ subject.key \in Keys
          /\ approvals[subject.approval] \in ApprovalRows
      BY <1>3, <2>2 DEF ClaimDispatchPermit, CanClaim, Subjects
    <3>2. approvals[subject.approval].doc \in Approvals
      BY <3>1 DEF ApprovalRows
    <3>3. NewPermit(subject, approvals[subject.approval].doc, now) \in PermitRows
      BY <3>2, NewPermitTyped
    <3>4. permits' \in [Keys -> PermitRows \cup {Null}]
      BY <1>3, <2>2, <3>1, <3>3 DEF ClaimDispatchPermit
    <3>5. approvals' \in [ApprovalIds -> ApprovalRows \cup {Null}]
      <4>1. [approvals[subject.approval] EXCEPT !.status = "consumed", !.claim = subject.key]
              \in ApprovalRows
        BY <3>1 DEF ApprovalRows
      <4>2. approvals' = [approvals EXCEPT ![subject.approval] =
              [approvals[subject.approval] EXCEPT !.status = "consumed", !.claim = subject.key]]
        BY <1>3, <2>2, <3>1 DEF ClaimDispatchPermit, ApprovalRows
      <4> QED
        BY <4>1, <4>2, <3>1
    <3> QED
      BY <1>3, <2>2, <3>4, <3>5 DEF ClaimDispatchPermit
  <2> QED
    BY <2>1, <2>2
<1>4. ASSUME NEW key \in Keys, NEW envelope \in Envelopes, NEW now \in Times,
             BeginDispatchAttempt(key, permits[key], envelope, now)
      PROVE  TypeOK'
  BY <1>4, AttemptRowsTyped DEF BeginDispatchAttempt
<1>5. ASSUME NEW key \in Keys, NEW envelope \in Envelopes, NEW status \in ReceiptStatuses,
             NEW print \in Prints, NEW now \in Times,
             CompleteDispatchAttempt(key, permits[key], envelope, status, print, now)
      PROVE  TypeOK'
  <2>1. Settled(attempts[key], status, print, now) \in AttemptRows
    BY AttemptRowsTyped
  <2> QED
    BY <1>5, <2>1 DEF CompleteDispatchAttempt, ledgerVars
<1>6. CASE UNCHANGED ledgerVars
  BY <1>6 DEF ledgerVars
<1> QED
  BY <1>1, <1>2, <1>3, <1>4, <1>5, <1>6 DEF Next

-----------------------------------------------------------------------------
(* What each transaction does to the rows of the other tables.              *)

\* Registration only ever adds a row that is not consumed.
LEMMA RegisterKeepsRows ==
  ASSUME TypeOK, NEW doc \in Approvals, NEW trust \in TrustStores, NEW now \in Times,
         RegisterApproval(doc, trust, now)
  PROVE  \A i \in ApprovalIds :
           \/ approvals'[i] = approvals[i]
           \/ approvals[i] = Null /\ approvals'[i] # Null /\ approvals'[i].status = "approved"
<1>1. doc.id \in ApprovalIds /\ NewApprovalRow(doc) \in ApprovalRows
  BY DocsAssumption DEF ApprovalDocs, NewApprovalRow, ApprovalRows
<1>2. NewApprovalRow(doc) # Null /\ NewApprovalRow(doc).status = "approved"
  BY <1>1, NullAssumption DEF NewApprovalRow
<1>3. CASE approvals[doc.id] = Null
  BY <1>1, <1>2, <1>3 DEF RegisterApproval, TypeOK
<1>4. CASE approvals[doc.id] # Null
  BY <1>4 DEF RegisterApproval
<1> QED
  BY <1>3, <1>4

\* A claim that is not a replay spends one approved document on one new permit.
LEMMA ClaimSpendsOneApproval ==
  ASSUME TypeOK, NEW subject \in Subjects, NEW trust \in TrustStores, NEW now \in Times,
         ClaimDispatchPermit(subject, trust, now), ~ UNCHANGED ledgerVars
  PROVE  LET i == subject.approval
             k == subject.key
             doc == approvals[i].doc
         IN
         /\ i \in ApprovalIds /\ k \in Keys /\ doc \in Approvals
         /\ permits[k] = Null /\ approvals[i] # Null /\ approvals[i].status = "approved"
         /\ doc.id = i /\ doc.key = k /\ doc.plan = subject.plan /\ InWindow(doc, now)
         /\ approvals'[i] # Null /\ approvals'[i].doc = doc
         /\ approvals'[i].status = "consumed" /\ approvals'[i].claim = k
         /\ \A j \in ApprovalIds \ {i} : approvals'[j] = approvals[j]
         /\ permits'[k] # Null /\ permits'[k] = NewPermit(subject, doc, now)
         /\ \A m \in Keys \ {k} : permits'[m] = permits[m]
         /\ schema' = schema /\ attempts' = attempts
<1> DEFINE i == subject.approval
           k == subject.key
           doc == approvals[i].doc
<1>1. i \in ApprovalIds /\ k \in Keys
  BY DEF Subjects
<1>2. CanClaim(subject, trust, now)
  BY DEF ClaimDispatchPermit
<1>3. approvals[i] \in ApprovalRows
  BY <1>1, <1>2 DEF CanClaim, TypeOK
<1>4. doc \in Approvals
  BY <1>3 DEF ApprovalRows
<1>5. /\ permits[k] = Null /\ approvals[i] # Null /\ approvals[i].status = "approved"
      /\ doc.id = i /\ doc.key = k /\ doc.plan = subject.plan /\ InWindow(doc, now)
  BY <1>2 DEF CanClaim, Binds
<1>6. /\ approvals' = [approvals EXCEPT ![i] =
             [approvals[i] EXCEPT !.status = "consumed", !.claim = k]]
      /\ permits' = [permits EXCEPT ![k] = NewPermit(subject, doc, now)]
      /\ schema' = schema /\ attempts' = attempts
  BY <1>1, <1>3 DEF ClaimDispatchPermit, TypeOK, ApprovalRows
<1>7. [approvals[i] EXCEPT !.status = "consumed", !.claim = k] \in ApprovalRows
  BY <1>1, <1>3 DEF ApprovalRows
<1>8. /\ approvals'[i] # Null /\ approvals'[i].doc = doc
      /\ approvals'[i].status = "consumed" /\ approvals'[i].claim = k
      /\ \A j \in ApprovalIds \ {i} : approvals'[j] = approvals[j]
  <2>1. approvals'[i] = [approvals[i] EXCEPT !.status = "consumed", !.claim = k]
    BY <1>1, <1>6 DEF TypeOK
  <2>2. approvals'[i] # Null
    BY <2>1, <1>7, NullAssumption
  <2>3. /\ approvals'[i].doc = doc
        /\ approvals'[i].status = "consumed" /\ approvals'[i].claim = k
    BY <2>1, <1>3 DEF ApprovalRows
  <2>4. \A j \in ApprovalIds \ {i} : approvals'[j] = approvals[j]
    BY <1>6 DEF TypeOK
  <2> QED
    BY <2>2, <2>3, <2>4
<1>9. /\ permits'[k] # Null /\ permits'[k] = NewPermit(subject, doc, now)
      /\ \A m \in Keys \ {k} : permits'[m] = permits[m]
  <2>1. NewPermit(subject, doc, now) # Null
    BY <1>4, NewPermitTyped, NullAssumption
  <2> QED
    BY <1>1, <1>6, <2>1 DEF TypeOK
<1> QED
  BY <1>1, <1>4, <1>5, <1>6, <1>8, <1>9

\* The tables are well typed in every reachable state.
THEOREM TypeCorrect == Spec => []TypeOK
BY InitTypeOK, NextTypeOK, PTL DEF Spec

-----------------------------------------------------------------------------
(* The relations between the tables are inductive together with the types.  *)

\* No transaction spends an approval twice or issues a permit unpaid.
LEMMA NextApprovalsSpentOnce ==
  TypeOK /\ ApprovalsAreSpentOnce /\ [Next]_ledgerVars => ApprovalsAreSpentOnce'
<1> SUFFICES ASSUME TypeOK, ApprovalsAreSpentOnce, [Next]_ledgerVars
             PROVE  ApprovalsAreSpentOnce'
  OBVIOUS
<1>0. \A k \in Keys : permits[k] # Null => permits[k].approval \in ApprovalIds
  BY DEF TypeOK, PermitRows
<1>1. CASE UNCHANGED <<approvals, permits>>
  BY <1>1 DEF ApprovalsAreSpentOnce
<1>2. ASSUME NEW doc \in Approvals, NEW trust \in TrustStores, NEW now \in Times,
             RegisterApproval(doc, trust, now)
      PROVE  ApprovalsAreSpentOnce'
  <2>1. permits' = permits
    BY <1>2 DEF RegisterApproval
  <2>2. \A i \in ApprovalIds :
           \/ approvals'[i] = approvals[i]
           \/ approvals[i] = Null /\ approvals'[i] # Null /\ approvals'[i].status = "approved"
    BY <1>2, RegisterKeepsRows
  <2> QED
    BY <1>0, <2>1, <2>2 DEF ApprovalsAreSpentOnce
<1>3. ASSUME NEW subject \in Subjects, NEW trust \in TrustStores, NEW now \in Times,
             ClaimDispatchPermit(subject, trust, now), ~ UNCHANGED ledgerVars
      PROVE  ApprovalsAreSpentOnce'
  <2> DEFINE i == subject.approval
             k == subject.key
             doc == approvals[i].doc
  <2>1. /\ i \in ApprovalIds /\ k \in Keys
        /\ permits[k] = Null /\ approvals[i] # Null /\ approvals[i].status = "approved"
        /\ doc.id = i /\ doc.key = k /\ doc.plan = subject.plan
        /\ approvals'[i] # Null /\ approvals'[i].doc = doc
        /\ approvals'[i].status = "consumed" /\ approvals'[i].claim = k
        /\ \A j \in ApprovalIds \ {i} : approvals'[j] = approvals[j]
        /\ permits'[k] # Null /\ permits'[k] = NewPermit(subject, doc, now)
        /\ \A m \in Keys \ {k} : permits'[m] = permits[m]
    BY <1>3, ClaimSpendsOneApproval
  <2>2. permits'[k].approval = i /\ permits'[k].plan = subject.plan
    BY <2>1 DEF NewPermit
  <2> HIDE DEF i, k, doc
  <2>3. ASSUME NEW j \in ApprovalIds, approvals'[j] # Null, approvals'[j].status = "consumed"
        PROVE  /\ approvals'[j].claim \in Keys
               /\ permits'[approvals'[j].claim] # Null
               /\ permits'[approvals'[j].claim].approval = j
    <3>1. CASE j = i
      BY <2>1, <2>2, <3>1
    <3>2. CASE j # i
      BY <2>1, <2>3, <3>2 DEF ApprovalsAreSpentOnce
    <3> QED
      BY <3>1, <3>2
  <2>4. ASSUME NEW m \in Keys, permits'[m] # Null
        PROVE  LET row == approvals'[permits'[m].approval] IN
               /\ row # Null
               /\ row.status = "consumed" /\ row.claim = m
               /\ row.doc.id = permits'[m].approval
               /\ row.doc.key = m /\ row.doc.plan = permits'[m].plan
    <3>1. CASE m = k
      BY <2>1, <2>2, <3>1 DEF doc
    <3>2. CASE m # k
      <4>1. permits'[m] = permits[m] /\ permits[m].approval \in ApprovalIds
        BY <1>0, <2>1, <2>4, <3>2
      <4>2. permits[m].approval # i
        BY <2>1, <2>4, <4>1 DEF ApprovalsAreSpentOnce
      <4> QED
        BY <2>1, <2>4, <4>1, <4>2 DEF ApprovalsAreSpentOnce
    <3> QED
      BY <3>1, <3>2
  <2> QED
    BY <2>3, <2>4 DEF ApprovalsAreSpentOnce
<1> QED
  BY <1>1, <1>2, <1>3
  DEF Next, ledgerVars, OpenStore, BeginDispatchAttempt, CompleteDispatchAttempt

\* No transaction issues a permit that outlives its approval or the ttl.
LEMMA NextPermitsInside ==
  TypeOK /\ ApprovalsAreSpentOnce /\ PermitsStayInsideApprovals /\ [Next]_ledgerVars
    => PermitsStayInsideApprovals'
<1> SUFFICES ASSUME TypeOK, ApprovalsAreSpentOnce, PermitsStayInsideApprovals, [Next]_ledgerVars
             PROVE  PermitsStayInsideApprovals'
  OBVIOUS
<1>0. \A k \in Keys : permits[k] # Null => permits[k].approval \in ApprovalIds
  BY DEF TypeOK, PermitRows
<1>1. CASE UNCHANGED <<approvals, permits>>
  BY <1>1 DEF PermitsStayInsideApprovals
<1>2. ASSUME NEW doc \in Approvals, NEW trust \in TrustStores, NEW now \in Times,
             RegisterApproval(doc, trust, now)
      PROVE  PermitsStayInsideApprovals'
  <2>1. permits' = permits
    BY <1>2 DEF RegisterApproval
  <2>2. \A k \in Keys : permits[k] # Null =>
          approvals'[permits[k].approval] = approvals[permits[k].approval]
    BY <1>0, <1>2, RegisterKeepsRows DEF ApprovalsAreSpentOnce
  <2> QED
    BY <2>1, <2>2 DEF PermitsStayInsideApprovals
<1>3. ASSUME NEW subject \in Subjects, NEW trust \in TrustStores, NEW now \in Times,
             ClaimDispatchPermit(subject, trust, now), ~ UNCHANGED ledgerVars
      PROVE  PermitsStayInsideApprovals'
  <2> DEFINE i == subject.approval
             k == subject.key
             doc == approvals[i].doc
  <2>1. /\ i \in ApprovalIds /\ k \in Keys /\ doc \in Approvals
        /\ permits[k] = Null /\ approvals[i].status = "approved" /\ InWindow(doc, now)
        /\ approvals'[i].doc = doc
        /\ \A j \in ApprovalIds \ {i} : approvals'[j] = approvals[j]
        /\ permits'[k] = NewPermit(subject, doc, now)
        /\ \A m \in Keys \ {k} : permits'[m] = permits[m]
    BY <1>3, ClaimSpendsOneApproval
  <2>2. permits'[k].approval = i
    BY <2>1 DEF NewPermit
  <2>3. /\ doc.issuedAt <= permits'[k].issuedAt
        /\ permits'[k].issuedAt < permits'[k].expiresAt
        /\ permits'[k].expiresAt <= doc.expiresAt
        /\ permits'[k].expiresAt <= permits'[k].issuedAt + PermitTtl
    BY <2>1, NewPermitInside
  <2> HIDE DEF i, k, doc
  <2>4. ASSUME NEW m \in Keys \ {k}, permits'[m] # Null
        PROVE  /\ permits'[m] = permits[m]
               /\ approvals'[permits'[m].approval] = approvals[permits[m].approval]
    <3>1. permits'[m] = permits[m] /\ permits[m].approval \in ApprovalIds
      BY <1>0, <2>1, <2>4
    <3>2. permits[m].approval # i
      BY <2>1, <2>4, <3>1 DEF ApprovalsAreSpentOnce
    <3> QED
      BY <2>1, <3>1, <3>2
  <2> QED
    BY <2>1, <2>2, <2>3, <2>4 DEF PermitsStayInsideApprovals
<1> QED
  BY <1>1, <1>2, <1>3
  DEF Next, ledgerVars, OpenStore, BeginDispatchAttempt, CompleteDispatchAttempt

\* No transaction rewrites or withdraws a permit.
LEMMA PermitsPersist ==
  TypeOK /\ [Next]_ledgerVars => \A k \in Keys : permits[k] # Null => permits'[k] = permits[k]
<1> SUFFICES ASSUME TypeOK, [Next]_ledgerVars, NEW k \in Keys, permits[k] # Null
             PROVE  permits'[k] = permits[k]
  OBVIOUS
<1>1. CASE permits' = permits
  BY <1>1
<1>2. ASSUME NEW subject \in Subjects, NEW trust \in TrustStores, NEW now \in Times,
             ClaimDispatchPermit(subject, trust, now), ~ UNCHANGED ledgerVars
      PROVE  permits'[k] = permits[k]
  BY <1>2, ClaimSpendsOneApproval
<1> QED
  BY <1>1, <1>2
  DEF Next, ledgerVars, OpenStore, RegisterApproval, BeginDispatchAttempt, CompleteDispatchAttempt

\* How an attempt row can change: reserved under a live permit, settled, migrated.
LEMMA AttemptSteps ==
  ASSUME TypeOK, [Next]_ledgerVars, NEW k \in Keys, attempts'[k] # attempts[k]
  PROVE  \/ /\ schema = "v1" /\ schema' = "current"
            /\ attempts'[k] = Migrated(attempts[k])
         \/ \E envelope \in Envelopes, now \in Times :
              /\ schema' = schema
              /\ attempts[k].state = "none" /\ permits[k] # Null /\ permits'[k] = permits[k]
              /\ permits[k].issuedAt <= now /\ now < permits[k].expiresAt
              /\ attempts'[k] = NewAttempt(envelope, now)
         \/ \E status \in ReceiptStatuses, print \in Prints, now \in Times :
              /\ schema' = schema
              /\ attempts[k].state = "started" /\ attempts[k].startedAt <= now
              /\ attempts'[k] = Settled(attempts[k], status, print, now)
<1>1. CASE OpenStore
  BY <1>1 DEF OpenStore
<1>2. ASSUME NEW doc \in Approvals, NEW trust \in TrustStores, NEW now \in Times,
             RegisterApproval(doc, trust, now)
      PROVE  FALSE
  BY <1>2 DEF RegisterApproval
<1>3. ASSUME NEW subject \in Subjects, NEW trust \in TrustStores, NEW now \in Times,
             ClaimDispatchPermit(subject, trust, now)
      PROVE  FALSE
  BY <1>3 DEF ClaimDispatchPermit, ledgerVars
<1>4. ASSUME NEW key \in Keys, NEW envelope \in Envelopes, NEW now \in Times,
             BeginDispatchAttempt(key, permits[key], envelope, now)
      PROVE  /\ schema' = schema
             /\ attempts[k].state = "none" /\ permits[k] # Null /\ permits'[k] = permits[k]
             /\ permits[k].issuedAt <= now /\ now < permits[k].expiresAt
             /\ attempts'[k] = NewAttempt(envelope, now)
  <2>1. key = k
    BY <1>4 DEF BeginDispatchAttempt, TypeOK
  <2> QED
    BY <1>4, <2>1 DEF BeginDispatchAttempt, CanBegin, TypeOK
<1>5. ASSUME NEW key \in Keys, NEW envelope \in Envelopes, NEW status \in ReceiptStatuses,
             NEW print \in Prints, NEW now \in Times,
             CompleteDispatchAttempt(key, permits[key], envelope, status, print, now)
      PROVE  /\ schema' = schema
             /\ attempts[k].state = "started" /\ attempts[k].startedAt <= now
             /\ attempts'[k] = Settled(attempts[k], status, print, now)
  <2>1. key = k
    BY <1>5 DEF CompleteDispatchAttempt, ledgerVars, TypeOK
  <2> QED
    BY <1>5, <2>1 DEF CompleteDispatchAttempt, CanComplete, ledgerVars, TypeOK
<1>6. CASE UNCHANGED ledgerVars
  BY <1>6 DEF ledgerVars
<1> QED
  BY <1>1, <1>2, <1>3, <1>4, <1>5, <1>6 DEF Next

\* No transaction reserves an attempt outside its permit or dates an
\* outcome before its reservation.
LEMMA NextAttemptsInside ==
  TypeOK /\ AttemptsStayInsidePermits /\ [Next]_ledgerVars => AttemptsStayInsidePermits'
<1> SUFFICES ASSUME TypeOK, AttemptsStayInsidePermits, [Next]_ledgerVars, NEW k \in Keys
             PROVE  /\ attempts'[k].state # "none" => permits'[k] # Null
                    /\ attempts'[k].state \in {"started", "accepted", "rejected"} =>
                         /\ permits'[k].issuedAt <= attempts'[k].startedAt
                         /\ attempts'[k].startedAt < permits'[k].expiresAt
                    /\ attempts'[k].state \in {"accepted", "rejected"} =>
                         attempts'[k].startedAt <= attempts'[k].completedAt
  BY DEF AttemptsStayInsidePermits
<1>1. permits[k] # Null => permits'[k] = permits[k]
  BY PermitsPersist
<1>2. CASE attempts'[k] = attempts[k]
  BY <1>1, <1>2 DEF AttemptsStayInsidePermits
<1>3. CASE attempts'[k] = Migrated(attempts[k])
  BY <1>1, <1>3 DEF AttemptsStayInsidePermits, Migrated, TypeOK, AttemptRows
<1>4. ASSUME NEW envelope \in Envelopes, NEW now \in Times,
             permits[k] # Null, permits'[k] = permits[k],
             permits[k].issuedAt <= now, now < permits[k].expiresAt,
             attempts'[k] = NewAttempt(envelope, now)
      PROVE  /\ attempts'[k].state = "started" /\ attempts'[k].startedAt = now
             /\ permits'[k] # Null
  BY <1>4 DEF NewAttempt
<1>5. ASSUME NEW status \in ReceiptStatuses, NEW print \in Prints, NEW now \in Times,
             attempts[k].state = "started", attempts[k].startedAt <= now,
             attempts'[k] = Settled(attempts[k], status, print, now)
      PROVE  /\ attempts'[k].startedAt = attempts[k].startedAt
             /\ attempts'[k].completedAt = now
             /\ attempts'[k].state \in {"accepted", "rejected"}
  BY <1>5 DEF Settled, TypeOK, AttemptRows
<1> QED
  BY <1>1, <1>2, <1>3, <1>4, <1>5, AttemptSteps DEF AttemptsStayInsidePermits

\* No transaction leaves a row the CHECK constraint would refuse.
LEMMA NextRowsMatch ==
  TypeOK /\ RowsMatchTheirState /\ [Next]_ledgerVars => RowsMatchTheirState'
<1> DEFINE Shape(row, s) ==
      /\ row.state = "started" =>
           row.envelope # Null /\ row.startedAt # Null
             /\ row.completedAt = Null /\ row.status = Null /\ row.print = Null
      /\ row.state = "accepted" =>
           row.envelope # Null /\ row.startedAt # Null
             /\ row.completedAt # Null /\ row.status = "dispatched" /\ row.print # Null
      /\ row.state = "rejected" =>
           row.envelope # Null /\ row.startedAt # Null
             /\ row.completedAt # Null /\ row.status \in {"blocked", "failed"} /\ row.print # Null
      /\ row.state \in {"v1", "legacy_uncertain"} =>
           row.envelope = Null /\ row.status = Null
             /\ (row.completedAt = Null <=> row.print = Null)
      /\ row.state = "v1" => s = "v1"
<1> SUFFICES ASSUME TypeOK, RowsMatchTheirState, [Next]_ledgerVars, NEW k \in Keys
             PROVE  Shape(attempts'[k], schema')
  BY DEF RowsMatchTheirState
<1>0. Shape(attempts[k], schema) /\ attempts[k] \in AttemptRows
  BY DEF RowsMatchTheirState, TypeOK
<1>1. CASE attempts'[k] = attempts[k]
  <2>1. schema = "v1" /\ schema' # "v1" => attempts'[k] = Migrated(attempts[k])
    BY DEF Next, ledgerVars, OpenStore, RegisterApproval, ClaimDispatchPermit,
           BeginDispatchAttempt, CompleteDispatchAttempt
  <2>2. attempts[k].state = "v1" => Migrated(attempts[k]).state = "legacy_uncertain"
    BY <1>0 DEF Migrated, AttemptRows
  <2> QED
    BY <1>0, <1>1, <2>1, <2>2
<1>2. CASE attempts'[k] = Migrated(attempts[k])
  BY <1>0, <1>1, <1>2 DEF Migrated, AttemptRows
<1>3. ASSUME NEW envelope \in Envelopes, NEW now \in Times,
             attempts'[k] = NewAttempt(envelope, now)
      PROVE  Shape(attempts'[k], schema')
  BY <1>3, NullAssumption DEF NewAttempt
<1>4. ASSUME NEW status \in ReceiptStatuses, NEW print \in Prints, NEW now \in Times,
             attempts[k].state = "started",
             attempts'[k] = Settled(attempts[k], status, print, now)
      PROVE  Shape(attempts'[k], schema')
  BY <1>0, <1>4, NullAssumption DEF Settled, AttemptRows, ReceiptStatuses
<1> HIDE DEF Shape
<1> QED
  BY <1>1, <1>2, <1>3, <1>4, AttemptSteps

\* The invariant is inductive.
LEMMA NextIInv == IInv /\ [Next]_ledgerVars => IInv'
BY NextTypeOK, NextApprovalsSpentOnce, NextPermitsInside, NextAttemptsInside, NextRowsMatch
DEF IInv

-----------------------------------------------------------------------------
(* Results.                                                                 *)

\* The inductive invariant holds in every reachable state.
THEOREM Inductive == Spec => []IInv
BY InitIInv, NextIInv, PTL DEF Spec

\* One approval pays for one permit and every permit is paid, whatever number
\* of processes register and claim in whatever order.
THEOREM SpentOnce == Spec => []ApprovalsAreSpentOnce
BY Inductive, PTL DEF IInv

\* The authority of a permit never exceeds its approval's.
THEOREM PermitsInside == Spec => []PermitsStayInsideApprovals
BY Inductive, PTL DEF IInv

\* No attempt was reserved without a permit or outside its permit's window.
THEOREM AttemptsInside == Spec => []AttemptsStayInsidePermits
BY Inductive, PTL DEF IInv

\* Every attempt row satisfies its CHECK constraint, before and after migration.
THEOREM RowsMatch == Spec => []RowsMatchTheirState
BY Inductive, PTL DEF IInv

\* No transaction rewrites a consumed approval, a permit, a reservation or
\* an outcome.
LEMMA StepKeepsHistory ==
  TypeOK /\ [Next]_ledgerVars =>
    /\ \A i \in ApprovalIds :
         /\ approvals[i] # Null =>
              approvals'[i] # Null /\ approvals'[i].doc = approvals[i].doc
         /\ approvals[i] # Null /\ approvals[i].status = "consumed" =>
              approvals'[i] = approvals[i]
    /\ \A k \in Keys :
         /\ permits[k] # Null => permits'[k] = permits[k]
         /\ attempts[k].state = "started" =>
              /\ attempts'[k].state \in {"started", "accepted", "rejected"}
              /\ attempts'[k].envelope = attempts[k].envelope
              /\ attempts'[k].startedAt = attempts[k].startedAt
         /\ attempts[k].state \in {"accepted", "rejected", "legacy_uncertain"} =>
              attempts'[k] = attempts[k]
<1> SUFFICES ASSUME TypeOK, [Next]_ledgerVars
             PROVE  /\ \A i \in ApprovalIds :
                         /\ approvals[i] # Null =>
                              approvals'[i] # Null /\ approvals'[i].doc = approvals[i].doc
                         /\ approvals[i] # Null /\ approvals[i].status = "consumed" =>
                              approvals'[i] = approvals[i]
                    /\ \A k \in Keys :
                         /\ permits[k] # Null => permits'[k] = permits[k]
                         /\ attempts[k].state = "started" =>
                              /\ attempts'[k].state \in {"started", "accepted", "rejected"}
                              /\ attempts'[k].envelope = attempts[k].envelope
                              /\ attempts'[k].startedAt = attempts[k].startedAt
                         /\ attempts[k].state \in {"accepted", "rejected", "legacy_uncertain"} =>
                              attempts'[k] = attempts[k]
  OBVIOUS
<1>1. ASSUME NEW i \in ApprovalIds, approvals[i] # Null
      PROVE  /\ approvals'[i] # Null /\ approvals'[i].doc = approvals[i].doc
             /\ approvals[i].status = "consumed" => approvals'[i] = approvals[i]
  <2>1. CASE approvals' = approvals
    BY <1>1, <2>1
  <2>2. ASSUME NEW doc \in Approvals, NEW trust \in TrustStores, NEW now \in Times,
               RegisterApproval(doc, trust, now)
        PROVE  approvals'[i] = approvals[i]
    BY <1>1, <2>2, RegisterKeepsRows
  <2>3. ASSUME NEW subject \in Subjects, NEW trust \in TrustStores, NEW now \in Times,
               ClaimDispatchPermit(subject, trust, now), ~ UNCHANGED ledgerVars
        PROVE  /\ approvals'[i] # Null /\ approvals'[i].doc = approvals[i].doc
               /\ approvals[i].status = "consumed" => approvals'[i] = approvals[i]
    BY <1>1, <2>3, ClaimSpendsOneApproval
  <2> QED
    BY <1>1, <2>1, <2>2, <2>3
    DEF Next, ledgerVars, OpenStore, BeginDispatchAttempt, CompleteDispatchAttempt
<1>2. ASSUME NEW k \in Keys
      PROVE  /\ attempts[k].state = "started" =>
                  /\ attempts'[k].state \in {"started", "accepted", "rejected"}
                  /\ attempts'[k].envelope = attempts[k].envelope
                  /\ attempts'[k].startedAt = attempts[k].startedAt
             /\ attempts[k].state \in {"accepted", "rejected", "legacy_uncertain"} =>
                  attempts'[k] = attempts[k]
  <2>0. attempts[k] \in AttemptRows
    BY DEF TypeOK
  <2>1. CASE attempts'[k] = attempts[k]
    BY <2>1
  <2>2. CASE attempts'[k] = Migrated(attempts[k])
    BY <2>0, <2>2 DEF Migrated, AttemptRows
  <2>3. CASE attempts[k].state = "none"
    BY <2>3
  <2>4. ASSUME NEW status \in ReceiptStatuses, NEW print \in Prints, NEW now \in Times,
               attempts[k].state = "started",
               attempts'[k] = Settled(attempts[k], status, print, now)
        PROVE  /\ attempts'[k].state \in {"started", "accepted", "rejected"}
               /\ attempts'[k].envelope = attempts[k].envelope
               /\ attempts'[k].startedAt = attempts[k].startedAt
    BY <2>0, <2>4 DEF Settled, AttemptRows
  <2> QED
    BY <2>1, <2>2, <2>3, <2>4, AttemptSteps
<1> QED
  BY <1>1, <1>2, PermitsPersist

\* What the ledger has recorded is never rewritten.
THEOREM HistoryImmutable == Spec => HistoryIsImmutable
<1>1. TypeOK /\ [Next]_ledgerVars =>
        [/\ \A i \in ApprovalIds :
              /\ approvals[i] # Null =>
                   approvals'[i] # Null /\ approvals'[i].doc = approvals[i].doc
              /\ approvals[i] # Null /\ approvals[i].status = "consumed" =>
                   approvals'[i] = approvals[i]
         /\ \A k \in Keys :
              /\ permits[k] # Null => permits'[k] = permits[k]
              /\ attempts[k].state = "started" =>
                   /\ attempts'[k].state \in {"started", "accepted", "rejected"}
                   /\ attempts'[k].envelope = attempts[k].envelope
                   /\ attempts'[k].startedAt = attempts[k].startedAt
              /\ attempts[k].state \in {"accepted", "rejected", "legacy_uncertain"} =>
                   attempts'[k] = attempts[k]
        ]_ledgerVars
  BY StepKeepsHistory
<1> QED
  BY <1>1, TypeCorrect, PTL DEF Spec, HistoryIsImmutable

\* An attempt that may have reached a provider under the earlier schema stays
\* uncertain: the only step on its row is the migration.
THEOREM LegacyNeverReopens == Spec => LegacyStaysUncertain
<1>1. ASSUME TypeOK, [Next]_ledgerVars, NEW k \in Keys,
             attempts[k].state \in {"v1", "legacy_uncertain"}
      PROVE  attempts'[k].state \in {"v1", "legacy_uncertain"}
  <2>0. attempts[k] \in AttemptRows
    BY <1>1 DEF TypeOK
  <2>1. CASE attempts'[k] = attempts[k]
    BY <1>1, <2>1
  <2>2. CASE attempts'[k] = Migrated(attempts[k])
    BY <1>1, <2>0, <2>2 DEF Migrated, AttemptRows
  <2> QED
    BY <1>1, <2>1, <2>2, AttemptSteps
<1>2. TypeOK /\ [Next]_ledgerVars =>
        [\A k \in Keys :
           attempts[k].state \in {"v1", "legacy_uncertain"} =>
             attempts'[k].state \in {"v1", "legacy_uncertain"}]_ledgerVars
  BY <1>1
<1> QED
  BY <1>2, TypeCorrect, PTL DEF Spec, LegacyStaysUncertain
=============================================================================
