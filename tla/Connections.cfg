\* Three requests, two connections, a provider that may never answer.
SPECIFICATION FairSpec
CONSTANTS
    q1 = q1
    q2 = q2
    q3 = q3
    Requests = {q1, q2, q3}
    ServerLimit = 2
CHECK_DEADLOCK FALSE
INVARIANT TypeOK
PROPERTIES
    EditsEnd
    
