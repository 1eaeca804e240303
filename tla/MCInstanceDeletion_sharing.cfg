SPECIFICATION Spec
CONSTANTS
    p = p
    q = q
    Objects <- SharedObjects
    PartOf <- SharedPartOf
    Deps <- SharedDeps
    Instances = {"x", "y"}
    Processes = {p, q}
    Scoped = {"op"}
    Namespaces = {}
    DeployTargets = {"everything"}
    Requests = {"all"}
    ListErrors = FALSE
    MaxUid = 1
    MaxDeploys = 2
    MaxCrashes = 1
SYMMETRY Symmetry
INVARIANT CompleteMeansGone
