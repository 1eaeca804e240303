CONSTANTS
    ns = ns
    op = op
    app = app
    crds = crds
    Resources <- PairResources
    Closures <- MCClosures
    Deps <- PairDeps
    Level <- PairLevel
    LastLevel = 2
    Unlisted = {}
    Scoped = {ns}
    Namespaces = {ns}
    MaxAttempts = 1
    Options <- AllOptions
SPECIFICATION Spec
CHECK_DEADLOCK FALSE
INVARIANT SkippedIsNoFailure
