\* Four requests of any kind about one category slug and one tag slug.
SPECIFICATION Spec
CONSTANTS
    q1 = q1
    q2 = q2
    q3 = q3
    q4 = q4
    Requests = {q1, q2, q3, q4}
    CategorySlugs = {"parts"}
    TagSlugs = {"delay"}
    Unknown = Unknown
SYMMETRY Interchangeable
CHECK_DEADLOCK FALSE
INVARIANTS
    TypeOK
    OneCreator
    CategoryConflictIsDuplicate
PROPERTIES
    ImplementsCatalogue
    LaterGetsComplete
