SPECIFICATION FairSpec
CONSTANTS
    p = p
    q = q
    Objects <- SmallObjects
    PartOf <- SmallPartOf
    Deps <- SmallDeps
    Instances = {"x"}
    Processes = {p}
    Scoped = {}
    Namespaces = {"ns"}
    DeployTargets = {"everything"}
    Requests = {"all"}
    ListErrors = FALSE
    MaxUid = 2
    MaxDeploys = 2
    MaxCrashes = 1
PROPERTY RetriesFinish
