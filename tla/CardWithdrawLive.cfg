\* One card, one invoice, one tap, one callback, one pass: liveness.
SPECIFICATION FairSpec
CONSTANTS
  c1 = c1
  c2 = c2
  h1 = h1
  h2 = h2
  k1 = k1
  k2 = k2
  q1 = q1
  q2 = q2
  r1 = r1
  r2 = r2
  None = None
  Cards = {c1}
  Hashes = {h1}
  Taps = {k1}
  Requests = {q1}
  Passes = {r1}
  Amount <- MCAmountOne
  InitialBalance = 1
  MaxCounter = 1
  Offers = {1}
  TopUp = 1
  MaxTopUps = 1
PROPERTIES
  DecidedIsResolved
  AbandonedClaimIsReleased
CHECK_DEADLOCK FALSE
