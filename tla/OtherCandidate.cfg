SPECIFICATION Spec
CONSTANTS
    Procs = {p1}
    Contents = {"good", "bad"}
    PatchChecks = {"artifact_exists", "base_matches"}
    Required <- MCRequired
    Passes <- MCPasses
    MaxAttempts = 2
    MaxVerifiers = 2
    MaxDeaths = 0
    p1 = p1
INVARIANTS
    SameCandidate
CHECK_DEADLOCK FALSE
