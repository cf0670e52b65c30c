CONSTANTS
    N = 3
    Dependable = {0, 1, 2, 3}
    ProofScopes <- OneProof
    GateScopes <- OneGate
SPECIFICATION Spec
INVARIANTS
    TypeOK
    ProducersFirst
    AdmitsExactly
    CycleIsReal
PROPERTIES
    AdmissionEnds
CHECK_DEADLOCK FALSE
