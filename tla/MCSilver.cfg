SPECIFICATION Spec
CONSTANTS
    a1 = a1
    a2 = a2
    b1 = b1
    c1 = c1
    r1 = r1
    r2 = r2
    None = None
    Snapshots = {a1, a2, b1, c1}
    Runs = {r1, r2}
    RunOf <- MCRunOf
    Chain <- MCChain
    CapturedAt <- MCCapturedAt
    Payload <- MCPayload
    GeoAnswers = {"exact"}
    Workers = {w1, w2}
    Operators = {o1, o2}
    MaxAttempts = 2
CONSTRAINTS
    ThreeAttempts
    DecisionsApart
SYMMETRY Symmetry
INVARIANTS
    MergesAreJustified
    NormalizedIsComplete
    LinksNeverCollide
CHECK_DEADLOCK FALSE
