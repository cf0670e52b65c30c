SPECIFICATION Spec
CONSTANTS
    Procs = {p1, p2}
    Contents = {"good", "bad"}
    PatchChecks = {"artifact_exists", "base_matches"}
    Required <- MCRequired
    Passes <- MCPasses
    MaxAttempts = 3
    MaxVerifiers = 3
    MaxDeaths = 1
    p1 = p1
    p2 = p2
INVARIANTS
    TypeOK
    AcceptedPasses
    ArtifactAsSealed
    VerdictIsReported
CONSTRAINT Explored
SYMMETRY MCSymmetry
CHECK_DEADLOCK FALSE
