SPECIFICATION Spec
CONSTANTS
    Procs = {p1, p2}
    Nobody = nobody
    Builds = {1, 2}
    Versions = {0, 1, 2}
    Refs = {g1, g2}
    Contents = {a, b}
    NoRow = noRow
    Runs = {r1}
    MaxStops = 2
    p1 = p1
    p2 = p2
    nobody = nobody
    g1 = g1
    g2 = g2
    a = a
    b = b
    noRow = noRow
    r1 = r1
INVARIANTS
    TypeOK
    VersionMatchesTables
    OneGraphPerRun
SYMMETRY MCSymmetry
