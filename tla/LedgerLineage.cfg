CONSTANTS
    r1 = r1
    r2 = r2
    n1 = n1
    n2 = n2
    c1 = c1
    res = res
    noRun = noRun
    Runs = {r1, r2}
    NoRun = noRun
    Nodes = {n1, n2}
    Rank <- DocumentOrder
    Deps <- Chain
    Resources = {res}
    Exclusive <- OnlyN1
    Shared <- OnlyN2
    MaxAttempts <- OneAttempt
    RetryClasses <- NeverRetry
    OnExhaustion <- AlwaysCancel
    TotalAttempts = 3
    Deadline = 9
    Lineage <- ChildLineage
    Imports <- ChildImports
    Controllers = {c1}
    MaxActive <- TwoActive
    Times = {0, 2}
    Forever <- Never
    Validities = {9}
    Expiries = {9}
    DecisionKinds = {}
SPECIFICATION Spec
INVARIANTS
    SealedUnderClaim
    AcceptanceGrounded
    ExclusiveAccess
CHECK_DEADLOCK FALSE
