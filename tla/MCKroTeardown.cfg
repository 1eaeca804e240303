SPECIFICATION Spec
CONSTANTS
    p = p
    q = q
    Instances = {"x", "y"}
    Processes = {p, q}
    Namespaces = {"a", "s"}
    HoistedBy <- PairHoists
    Home <- PairHome
    Descent <- PlainDescent
    Legacy = {"y"}
    Busy = {}
    CrdCollected = TRUE
    MaxDeploys = 1
    MaxFaults = 0
    MaxDrains = 1
SYMMETRY Symmetry
CHECK_DEADLOCK FALSE
INVARIANT TypeOK
INVARIANT LastDeletionSettles
PROPERTY RgdGoesLast
PROPERTY SharedNamespaceKept
