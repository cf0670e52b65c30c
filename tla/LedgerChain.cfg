CONSTANTS
    r1 = r1
    r2 = r2
    n1 = n1
    n2 = n2
    c1 = c1
    res = res
    noRun = noRun
    Runs = {r1}
    NoRun = noRun
    Nodes = {n1, n2}
    Rank <- DocumentOrder
    Deps <- Chain
    Resources = {res}
    Exclusive <- NoResource
    Shared <- NoResource
    MaxAttempts <- TwoAttempts
    RetryClasses <- RetryableN1
    OnExhaustion <- GateThenCancel
    TotalAttempts = 4
    Deadline = 2
    Lineage <- SoloLineage
    Imports <- NoImports
    Controllers = {c1}
    MaxActive <- TwoActive
    Times = {0, 2}
    Forever <- Never
    Validities = {2}
    Expiries = {2}
    DecisionKinds = {"retry", "cancel"}
SPECIFICATION Spec
INVARIANTS
    TypeOK
    ClaimsMatchLog
    FencesIncrease
    AcceptIsFinal
    OneVerdictPerAttempt
    WaitsOnOpenPacket
    RetriesBounded
    RunBudget
    LiveViewsValid
PROPERTIES
    AcceptsOnLiveEvidence
    ImplementsLifecycle
CHECK_DEADLOCK FALSE
