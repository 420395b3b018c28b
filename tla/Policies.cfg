SPECIFICATION Spec

CONSTANTS
    o1 = o1
    o2 = o2
    f1 = f1
    f2 = f2

    DeclIDs = {1, 2}
    DeclKinds = {"read-only", "transaction-bound"}
    DeclOptions <- MCOptions
    MaxOptions = 2
    MaxSpecs = 2

    MaxBuckets = 2
    MaxKeys = 2
    Collectors <- MCCollectors
    CallObs <- MCCalls
    BatchObs <- MCBatches
    Rejected = {"op"}
    HashesBelow = {0, 1}
    ProfilePaths = {f1, f2}
    Requirements <- MCRequirements
    MaxRecords = 3
    MaxSaves = 2
    MaxMerges = 1

    EventParts = {1, 2}
    Gaps = {0, 1, 3}
    DeadlinesAfter = {3}
    Policies <- MCPolicySims
    Backends <- MCBackends
    MaxEvents = 4

    Ops = {o1, o2}
    Documents <- MCDocuments
    InitialSettings <- MCSettings
    Inputs <- MCInputs
    MaxCalls <- MCCallBounds
    Measured <- MCMeasured
    Baselines <- MCBaselines
    LogMax = 2
    MaxTime = 2

    ClassNames = {1, 2}
    FairConfigs <- MCFairConfigs
    Payloads = {1, 2}
    MaxAdmits = 5
    MaxClock = 2

    OverloadDocs <- MCOverloadDocs
    Signals <- MCSignals

    NodeKeys = {1, 2, 3}
    Roots <- MCRoots
    ChildGraphs <- MCGraphs
    Contracts <- MCContracts

    NodeIDs = {1, 2, 3}
    NodeForms <- MCNodeForms
    MaxEdges = 3

SYMMETRY Files

INVARIANTS
    CatalogSound
    BooksBalance
    InstalledLoads
    SlotsHold
    
    ServedByWeight
    BreadthFirst
    CriticalPathCostliest

PROPERTIES
    SheddingInOrder

\* Every machine here stops when its requests are used up.
CHECK_DEADLOCK FALSE
