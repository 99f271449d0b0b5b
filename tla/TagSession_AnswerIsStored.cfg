\* One request: are the results of every answer in the database at the end?
SPECIFICATION Spec
CONSTANTS
    t1 = t1
    t2 = t2
    r1 = r1
    r2 = r2
    q1 = q1
    c1 = c1
    c2 = c2
    TagIds = {t1, t2}
    RuleIds = {r1, r2}
    TagOf <- TwoTagOf
    Conditions = {c1, c2}
    TaggingMode = "hybrid"
    Holds = {c1}
    Unused = Unused
    Deleted = Deleted
    Requests = {q1}
    NoResponse = NoResponse
CHECK_DEADLOCK FALSE
INVARIANT AnswerIsStored
