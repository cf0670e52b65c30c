CONSTANTS
    child = child
    helper = helper
    check = check
    Child = child
    Helpers = {helper}
    Checks = {check}
    Limit = 2
    PipeSize = 1
    MaxOutput = 3
SPECIFICATION Spec
INVARIANTS
    TypeOK
    VerdictEarned
PROPERTIES
    TalkersDrained
    RunReturns
CHECK_DEADLOCK FALSE
