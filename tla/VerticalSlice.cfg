CONSTANTS
  c1 = c1 c2 = c2 j1 = j1 u1 = u1 k1 = k1 uk1 = uk1 p1 = p1 up1 = up1 p2 = p2 up2 = up2
  a1 = a1 a2 = a2 a3 = a3 s1 = s1 r1 = r1
  Null = Null NoJob = NoJob
  Calls = {c1, c2}
  Keys = {k1, uk1}
  Plans = {p1, up1, p2, up2}
  Jobs = {j1, u1}
  Moves <- MCMoves
  Compensation <- MCCompensation
  StoreMayFail = FALSE
  ApprovalIds = {a1, a2, a3}
  Signers = {s1}
  Approvals <- MCApprovals
  TrustStores <- MCTrustStores
  Times <- MCTimes
  PermitTtl = 2
  Envelopes <- MCEnvelopes
  Prints = {r1}
  UnsignedApprovals = {}
  LegacyApprovals = {}
SPECIFICATION SliceSpec
SYMMETRY Symmetry
INVARIANT LayersAgree
PROPERTY ImplementsOrchestrator
VIEW Underway
