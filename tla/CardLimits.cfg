\* Three withdrawals of 1, 1 and 2, a limit of 0, 2 or none, two windows, one
\* request of the owner at a time.
SPECIFICATION Spec
CONSTANTS
    q1 = q1
    q2 = q2
    q3 = q3
    Spends = {q1, q2, q3}
    Amount <- Prices
    Owners = {o1}
    Limits = {0, 2}
    Sums = {2}
    MaxGranted = 4
    MaxWindow = 2
INVARIANTS
    TypeOK
    BalanceIsExact
    NothingCountedTwice
PROPERTIES
    WindowWithinLimit
SYMMETRY Symmetric
CHECK_DEADLOCK FALSE
