CONSTANTS
  k1 = k1 p1 = p1 a1 = a1 a2 = a2 s1 = s1 s2 = s2 r1 = r1
  w1 = w1 w2 = w2
  Null = Null
  Keys = {k1}
  Plans = {p1}
  ApprovalIds = {a1, a2}
  Signers = {s1, s2}
  Approvals <- MCApprovals
  TrustStores <- MCTrustStores
  Times <- MCTimes
  PermitTtl = 2
  Envelopes <- MCEnvelopes
  Prints = {r1}
  UnsignedApprovals = {}
  LegacyApprovals = {}
  Workers = {w1, w2}
SPECIFICATION FairSpec
INVARIANTS AtMostOneEntry ReservationIsExclusive EntryIsAuthorized AcceptedIsDurable
PROPERTIES PreBoundaryIsProven StrandedAttemptsStayOpen ImplementsOneShot AuthorizedCallsSettle
