CONSTANTS
    r1 = r1
    n1 = n1
    n2 = n2
    c1 = c1
    c2 = c2
    noRun = noRun
    Runs = {r1}
    NoRun = noRun
    Nodes = {n1, n2}
    Rank <- DocumentOrder
    Document <- DocumentOrder
    Kind <- PatchThenCheck
    Deps <- Chain
    Resources = {}
    Exclusive <- NoResource
    Shared <- NoResource
    MaxAttempts <- TwoThenOne
    RetryClasses <- RetryableN1
    OnExhaustion <- GateThenCancel
    TotalAttempts = 4
    Deadline = 1
    Lineage <- SoloLineage
    Imports <- NoImports
    Controllers = {c1, c2}
    MaxActive <- OneActive
    Times = {0, 1}
    Forever <- Never
    Validities = {9}
    Expiries = {1}
    GateExpiry = 1
    DecisionKinds = {"retry", "cancel"}
    MaxDeaths = 1
    Operator = {"cancel", "reclaim", "retry"}
SPECIFICATION FairSpec
INVARIANTS
    FollowedUp
PROPERTIES
    VerdictResumes
CHECK_DEADLOCK FALSE
