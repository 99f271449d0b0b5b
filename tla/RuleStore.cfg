\* Two editors of one rule with two conditions, every pair of requests.
SPECIFICATION FairSpec
CONSTANTS
    e1 = e1
    e2 = e2
    Editors = {e1, e2}
    OldConditions = {1, 2}
    NewConditions <- TwoEditors
    Unused = Unused
    Deleted = Deleted
CHECK_DEADLOCK FALSE
INVARIANTS
    TypeOK
    RuleIntact
    ReplacingNeverDeadlocks
PROPERTIES
    FailsOnlyOnConflict
    EditEnds
    ImplementsTable
