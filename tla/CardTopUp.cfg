\* A BTC and a USD card, one invoice, two concurrent processors.
SPECIFICATION Spec
CONSTANTS
  c1 = c1
  c2 = c2
  h1 = h1
  h2 = h2
  w1 = w1
  w2 = w2
  w3 = w3
  None = None
  Cards = {c1, c2}
  UsdCards = {c2}
  Hashes = {h1}
  Workers = {w1, w2}
  Worth <- MCWorth
SYMMETRY Symmetric
INVARIANTS
  TypeOK
  CreditsAddUp
  ClaimableIsUntouched
PROPERTY
  ImplementsTopUpLedger
CHECK_DEADLOCK FALSE
