SPECIFICATION ReleaseSpec
CONSTANTS
    p1 = p1
    back = back
    op = op
    r1 = r1
    r2 = r2
    None = None
    Promotions <- MCPromotions
    Rollbacks <- MCRollbacks
    Operators <- MCOperators
    Migrators <- MCMigrators
    ReleaseOf <- MCReleaseOf
    ManifestRevision <- MCManifestRevision
    StartReleases <- MCStartReleases
    Surfaces <- MCSurfaces
    Checkouts <- MCRadarCheckout
    StartRevisions <- MCFromNothing
    DataTables <- MCDataTables
CONSTRAINTS MCUndecided MCOneSide MCFailsOutside MCRowsAreRead
INVARIANT DeclaredDowngradeRuns
CHECK_DEADLOCK FALSE
