\* Does a single run over empty tables create every item?
SPECIFICATION SeedSpec
CONSTANTS
    r1 = r1
    r2 = r2
    Runs = {r1}
    Past = Past
    Script <- OneOfEach
    Requests <- ThreeRequests
    CategorySlugs = {"parts", "rental"}
    TagSlugs = {"delay"}
    Unknown = Unknown
CHECK_DEADLOCK FALSE
INVARIANT CreatesFullTaxonomy
