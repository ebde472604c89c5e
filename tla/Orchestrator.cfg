CONSTANTS
  c1 = c1 c2 = c2 j1 = j1 u1 = u1 k1 = k1 uk1 = uk1 p1 = p1 up1 = up1 p2 = p2 up2 = up2
  Null = Null NoJob = NoJob
  Calls = {c1, c2}
  Keys = {k1, uk1}
  Plans = {p1, up1, p2, up2}
  Jobs = {j1, u1}
  Moves <- MCMoves
  Compensation <- MCCompensation
  StoreMayFail = TRUE
SPECIFICATION FairSpec
INVARIANTS EntryIsOnRecord CompletionIsEvidenced GraphAdmitsEveryStep UncertainCallsAskForRecovery
PROPERTIES ImplementsKeyClaim FailuresAreReported
VIEW Seen
