SPECIFICATION ReleaseSpec
CONSTANTS
    p1 = p1
    back = back
    op = op
    r1 = r1
    r2 = r2
    None = None
    Promotions <- MCPromotions
    Rollbacks <- MCRollbacks
    Operators <- MCOperators
    Migrators <- MCMigrators
    ReleaseOf <- MCReleaseOf
    ManifestRevision <- MCManifestRevision
    StartReleases <- MCStartReleases
    Surfaces <- MCSurfaces
    Checkouts <- MCCheckouts
    StartRevisions <- MCStartRevisions
    DataTables <- MCDataTables
CONSTRAINTS MCUndecided MCOneSide MCFailsOutside MCRowsAreRead
INVARIANTS
    SchemaIsARevision
PROPERTIES
    ImplementsHistory
    PassIsComplete
CHECK_DEADLOCK FALSE
