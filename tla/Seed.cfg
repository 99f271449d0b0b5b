\* Two runs of the script at a time, over what was there before.
SPECIFICATION SeedFairSpec
CONSTANTS
    r1 = r1
    r2 = r2
    Runs = {r1, r2}
    Past = Past
    Script <- TwoCategories
    Requests <- ThreeRequests
    CategorySlugs = {"parts", "rental"}
    TagSlugs = {"delay"}
    Unknown = Unknown
CHECK_DEADLOCK FALSE
INVARIANTS
    SeedTypeOK
    FiledAsScripted
    RerunRepairs
PROPERTIES
    RunEnds
    ClientOfTaxonomy
