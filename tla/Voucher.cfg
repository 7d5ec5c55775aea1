\* Two equal vouchers on a wallet that backs one or both, two redemptions that
\* may die, two eras after the first claim.
SPECIFICATION Spec
CONSTANTS
  v1 = v1
  v2 = v2
  v3 = v3
  r1 = r1
  r2 = r2
  r3 = r3
  None = None
  Vouchers = {v1, v2}
  Callbacks = {r1, r2}
  Crashing = {r1, r2}
  Amount <- MCAmount
  Funds = {1, 2}
  MaxEra = 2
SYMMETRY Symmetric
INVARIANTS
  TypeOK
  PaidOutOnce
  UnclaimedIsUnpaid
  Backed
PROPERTY
  ImplementsVoucherLedger
CHECK_DEADLOCK FALSE
