SPECIFICATION Spec
CONSTANTS
    None = None
    Neighborhoods = {"palermo", "recoleta"}
    Clients = {c1, c2}
    Workers = {w1, w2}
    MaxAttempts = 2
    Drafts <- MCDrafts
    Feeds <- MCFeeds
    Policy <- MCPolicy
    MaxVersions = 2
    MaxSubmits = 2
    MaxSaves = 2
CONSTRAINTS NewSearch OneChange TwoAttempts
SYMMETRY Symmetry
INVARIANTS
    JobSuccessMeansResults
PROPERTIES
    PublishedIsFrozen
    ArchivedIsFinal
CHECK_DEADLOCK FALSE
