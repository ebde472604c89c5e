CONSTANTS
  r1 = r1 r2 = r2 k1 = k1 p1 = p1 a1 = a1 s1 = s1 f1 = f1 f2 = f2 o1 = o1 x1 = x1
  Null = Null
  Reporters = {r1, r2}
  Requests <- MCRequests
  Receipts <- MCReceipts
  TransitionKeys <- MCKeys
  Prints = {f1, f2}
  Observers = {o1}
  Times <- MCTimes
  Keys = {k1}
  Plans = {p1}
  ApprovalIds = {a1}
  Signers = {s1}
  Approvals <- MCApprovals
  TrustStores <- MCTrustStores
  PermitTtl = 2
  Envelopes <- MCEnvelopes
  Fingerprints = {x1}
  UnsignedApprovals = {}
  LegacyApprovals = {}
SPECIFICATION VerifiedSpec
INVARIANTS EvidenceInsideWindow ReturnsAreDurable ReconciledIsProven RecordsFollowTheFence
PROPERTIES StrandedOperationsStayOpen ImplementsGateway
CHECK_DEADLOCK FALSE
VIEW View
