CONSTANTS
    ns = ns
    op = op
    app = app
    crds = crds
    Resources <- MCResources
    Closures <- MCClosures
    Deps <- BesideDeps
    Level <- BesideLevel
    LastLevel = 2
    Unlisted = {op}
    Scoped = {op}
    Namespaces = {ns}
    MaxAttempts = 1
    Options <- AllOptions
SPECIFICATION FairSpec
CHECK_DEADLOCK FALSE
PROPERTY Termination
PROPERTY KeepsPromise
INVARIANT DependenciesCollectedFirst
