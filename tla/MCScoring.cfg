SPECIFICATION ScoringSpec
CONSTANTS
    None = None
    Neighborhoods = {"palermo", "recoleta"}
    Listings <- MCListings
    Observed <- MCObserved
    Searches <- MCSearches
    Documents <- MCDocuments
    Seed <- MCSeed
    Callers = {c1, c2}
    ListingSets <- MCListingSets
    MaxPolicies = 2
    MaxRuns = 2
    MaxListings = 2
SYMMETRY Symmetry
INVARIANTS
    CheaperRanksFirst
    BudgetIsRespected
    ReasonsHaveEvidence
    ShortlistWasOffered
CHECK_DEADLOCK FALSE
