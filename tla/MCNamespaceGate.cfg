SPECIFICATION Spec
CONSTANTS
    d1 = d1
    d2 = d2
    Deployers = {"u"}
    Deleters = {d1, d2}
    Kinds = {"pod", "claim"}
    Claim = "claim"
    MaxUid = 3
    MaxObjects = 2
SYMMETRY Symmetry
CHECK_DEADLOCK FALSE
INVARIANT TypeOK
PROPERTY OccupantsSpared
PROPERTY ClaimsOfProvenNamespace
PROPERTY AdoptedKept
