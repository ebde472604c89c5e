CONSTANTS
  r1 = r1 r2 = r2 q1 = q1 k1 = k1 e1 = e1 f1 = f1 f2 = f2 o1 = o1
  Null = Null
  Reporters = {r1, r2}
  Requests = {q1}
  Receipts <- MCReceipts
  TransitionKeys <- MCKeys
  Prints = {f1, f2}
  Observers = {o1}
  Times <- MCTimes
SPECIFICATION GatewaySpec
INVARIANT TransitionsAreLocallyTimed
