\* Two cards, one invoice, two taps, two concurrent callbacks, two passes.
SPECIFICATION Spec
CONSTANTS
  c1 = c1
  c2 = c2
  h1 = h1
  h2 = h2
  k1 = k1
  k2 = k2
  q1 = q1
  q2 = q2
  r1 = r1
  r2 = r2
  None = None
  Cards = {c1, c2}
  Hashes = {h1}
  Taps = {k1, k2}
  Requests = {q1, q2}
  Passes = {r1, r2}
  Amount <- MCAmountOne
  InitialBalance = 1
  MaxCounter = 1
  Offers = {1}
  TopUp = 1
  MaxTopUps = 0
SYMMETRY Symmetric
INVARIANTS
  HashDebitsOnce
  NeverPaidAndRestored
PROPERTIES
  ResolutionIsFinal
CHECK_DEADLOCK FALSE
