SPECIFICATION Spec
CONSTANTS
    None = None
    Clients = {c1, c2}
    Workers = {"old", "new"}
    MaxAttempts = 2
    Release <- MCRelease
    Keys = {"balcon", "tipo_cocina", "ambientes", "luminosidad"}
    Listings <- MCListings
    Answers <- MCAnswers
    Work <- MCWork
    ConceptDrafts <- MCConcepts
    FactDrafts <- MCFacts
    EditDrafts <- MCEdits
    Seed <- MCSeed
    Owner = "ana"
    MaxVersions = 2
    MaxBatches = 2
    MaxFacts = 3
    MaxCompilations = 2
CONSTRAINTS OneSide JobsFirst TwoAttempts
SYMMETRY Symmetry
INVARIANTS
    ObservationsAreGrounded
    SucceededWorkIsComplete
    OnePreference
PROPERTIES
    RecomputeKeepsCoverage
CHECK_DEADLOCK FALSE
