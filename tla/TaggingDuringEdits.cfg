\* One request, two editors of a rule with one condition.
SPECIFICATION LiveSpec
CONSTANTS
    e1 = e1
    e2 = e2
    q1 = q1
    Editors = {e1, e2}
    OldConditions = {1}
    NewConditions <- OneConditionEach
    Unused = Unused
    Deleted = Deleted
    Requests = {q1}
    TaggingMode = "hybrid"
    Holds = {1, 2}
    NoResponse = NoResponse
CHECK_DEADLOCK FALSE
INVARIANT OnlyCommittedDeleteStarves
PROPERTY ImplementsSession
