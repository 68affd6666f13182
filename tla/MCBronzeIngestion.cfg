SPECIFICATION Spec
CONSTANTS
    f1 = f1
    f2 = f2
    f3 = f3
    Batches = {b1, b2}
    Files = {f1, f2, f3}
    Malformed = {f3}
    MaxRecords = 3
    Records <- MCRecords
    ParseErrors <- MCParseErrors
    Valid <- MCValid
    Clients = {c1, c2}
    Workers = {w1, w2}
    Nobody = Nobody
    MaxAttempts = 2
CONSTRAINT MCTwoAttempts
SYMMETRY Symmetry
INVARIANTS
    SucceededRunIsComplete
    NormalizeAfterCapture
    NeverOvercounts
CHECK_DEADLOCK FALSE
