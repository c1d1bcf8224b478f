SPECIFICATION FairSpec
CONSTANTS
    Call = {c1, c2}
    MaxOutages = 1
INVARIANT TypeOK
INVARIANT PassedIsEarned
INVARIANT UntestedNeverRan
INVARIANT LeftoversAreExplained
PROPERTY CallsReturn
CHECK_DEADLOCK FALSE
