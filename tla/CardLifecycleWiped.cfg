\* One link and one request are enough: the card was registered through a link.
SPECIFICATION Spec
CONSTANTS
    Tasks = {w1, w2}
    Links = {l1, l2}
    Owners = {alice, bob}
    None = None
    MaxCards = 2
    MaxVersion = 2
    MaxCounter = 1
INVARIANTS
    WipedMakesRoom
SYMMETRY Symmetric
CHECK_DEADLOCK FALSE
