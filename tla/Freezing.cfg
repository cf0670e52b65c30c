CONSTANTS
    PortOrder <- ByName
    Kind <- KindOf
    Required <- CodeAndProof
    Scope <- ScopeOf
    WellTyped = {"patch"}
    Repositories = {"top", "sub"}
    Directories = {"logs"}
    Below = {"sub"}
    Slashed = {}
    Attested <- Vouched
    Until <- Stale
    Producers = {"n1"}
    Receipts = {1}
    Contents = {1, 2, 3}
    MaxFile = 2
    MaxTotal = 2
    Revisions = {1, 2}
    Offers <- SomeOffers
    Narrowings <- SomeNarrowings
    Moments = {0, 1, 2}
    Forever = 9
    MaxChanges = 2
SPECIFICATION Spec
INVARIANTS
    TypeOK
    ManifestComplete
    WithinTotal
    ChangeReported
    HoldsWhileUnchanged
CHECK_DEADLOCK FALSE
