SPECIFICATION Spec
CONSTANTS
    Call = {c1, c2, c3}
    Nobody = Nobody
PROPERTY ExistingPullReturned
CHECK_DEADLOCK FALSE
