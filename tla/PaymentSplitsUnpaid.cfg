\* One POS is enough: its payment is answered with "already forwarded".
SPECIFICATION Spec
CONSTANTS
    Tasks = {w1, w2}
    None = None
    Splits <- StoredSplits
INVARIANTS
    ToldIsForwarded
SYMMETRY Symmetric
CHECK_DEADLOCK FALSE
