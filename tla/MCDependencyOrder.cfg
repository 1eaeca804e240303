SPECIFICATION Spec
CONSTANTS
    a = a
    b = b
    c = c
    d = d
    Nodes = {a, b, c, d}
SYMMETRY Symmetry
CHECK_DEADLOCK FALSE
INVARIANT TypeOK
INVARIANT SortedDependenciesFirst
INVARIANT RejectedIffCyclic
INVARIANT CycleReported
INVARIANT LevelsTight
INVARIANT DeletionPlanned
