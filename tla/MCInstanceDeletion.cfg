SPECIFICATION Spec
CONSTANTS
    p = p
    q = q
    Objects <- StackObjects
    PartOf <- StackPartOf
    Deps <- StackDeps
    Instances = {"x"}
    Processes = {p}
    Scoped = {"db"}
    Namespaces = {"ns"}
    DeployTargets = {"everything"}
    Requests = {"private", "all", "shared"}
    ListErrors = TRUE
    MaxUid = 2
    MaxDeploys = 1
    MaxCrashes = 0
INVARIANT TypeOK
PROPERTY DependentsFirst
PROPERTY NamespaceLease
PROPERTY ClaimLease
