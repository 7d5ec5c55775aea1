\* Three tasks of any kind over one payment, with stored splits of three kinds.
SPECIFICATION FairSpec
CONSTANTS
    Tasks = {w1, w2, w3}
    None = None
    Splits <- StoredSplits
INVARIANTS
    TypeOK
    ForwardedOnce
    CompletedIsPaid
    TipsWithinTip
PROPERTIES
    NeverReopened
    ClaimsEnd
CHECK_DEADLOCK FALSE
