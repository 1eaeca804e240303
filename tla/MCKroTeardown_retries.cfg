SPECIFICATION FairSpec
CONSTANTS
    p = p
    q = q
    Instances = {"x", "y"}
    Processes = {p}
    Namespaces = {"a", "s"}
    HoistedBy <- PairHoists
    Home <- PairHome
    Descent <- PairDescent
    Legacy = {"y"}
    Busy = {"s"}
    CrdCollected = FALSE
    MaxDeploys = 1
    MaxFaults = 1
    MaxDrains = 1
CHECK_DEADLOCK FALSE
INVARIANT NoOrphanedNamespace
PROPERTY DeletionsComplete
