\* Two links (each mints once) beside direct registration, two owners, three
\* requests, two rows of up to three key versions, two taps per programming.
SPECIFICATION Spec
CONSTANTS
    Tasks = {w1, w2, w3}
    Links = {l1, l2}
    Owners = {alice, bob}
    None = None
    MaxCards = 2
    MaxVersion = 3
    MaxCounter = 2
INVARIANTS
    TypeOK
    LinkMintsOnce
    TapUsedOnce
    KeysStayKnown
PROPERTIES
    WipedIsFinal
    NoLiveCardDeleted
SYMMETRY Symmetric
CHECK_DEADLOCK FALSE
