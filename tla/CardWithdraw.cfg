\* One card, two invoices, two taps, two concurrent callbacks, one pass.
SPECIFICATION Spec
CONSTANTS
  c1 = c1
  c2 = c2
  h1 = h1
  h2 = h2
  k1 = k1
  k2 = k2
  q1 = q1
  q2 = q2
  r1 = r1
  r2 = r2
  None = None
  Cards = {c1}
  Hashes = {h1, h2}
  Taps = {k1, k2}
  Requests = {q1, q2}
  Passes = {r1}
  Amount <- MCAmount
  InitialBalance = 2
  MaxCounter = 2
  Offers = {2}
  TopUp = 1
  MaxTopUps = 0
SYMMETRY Symmetric
INVARIANTS
  TypeOK
  EverySpendHasItsOwnTap
PROPERTIES
  ImplementsCardLedger
CHECK_DEADLOCK FALSE
