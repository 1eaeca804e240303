CONSTANTS
    ns = ns
    op = op
    app = app
    crds = crds
    Resources <- MCResources
    Closures <- MCClosures
    Deps <- MCDeps
    Level <- MCLevel
    LastLevel = 2
    Unlisted = {}
    Scoped = {op}
    Namespaces = {ns}
    MaxAttempts = 2
    Options <- RollbackOptions
SPECIFICATION Spec
CHECK_DEADLOCK FALSE
INVARIANTS
    TypeOK
    NoTaskOutsideLevel
    RollbackOrder
    RollbackExact
    ResultHonest
