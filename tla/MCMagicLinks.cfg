SPECIFICATION Spec
CONSTANTS
    Emails = {e1, e2}
    Origins = {o1, o2}
    Subjects = {s1, s2}
    Ids = {1, 2}
    Workers = {w1, w2}
    Browsers = {b1, b2}
    Nobody = Nobody
    Window = 1
    EmailLimit = 2
    OriginLimit = 1
    MaxDelay = 1
    MaxTime = 1
SYMMETRY Symmetry
INVARIANTS
    SessionMatchesLink
    NewerLinkWins
    RequestsLimited
PROPERTIES
    NeverRevived
CHECK_DEADLOCK FALSE
