CONSTANTS
  k1 = k1 k2 = k2 p1 = p1 p2 = p2 a1 = a1 a2 = a2 a3 = a3 a4 = a4 s1 = s1 s2 = s2
  e1 = e1 e2 = e2 r1 = r1 r2 = r2
  Null = Null
  Keys = {k1, k2}
  Plans = {p1, p2}
  ApprovalIds = {a1, a2, a3, a4}
  Signers = {s1, s2}
  Approvals <- MCApprovals
  TrustStores <- MCTrustStores
  Times <- MCTimes
  PermitTtl = 2
  Envelopes = {e1, e2}
  Prints = {r1, r2}
  UnsignedApprovals <- MCUnsigned
  LegacyApprovals <- MCLegacy
SPECIFICATION Spec
INVARIANTS ApprovalsAreSpentOnce PermitsStayInsideApprovals AttemptsStayInsidePermits RowsMatchTheirState
PROPERTIES HistoryIsImmutable LegacyStaysUncertain
