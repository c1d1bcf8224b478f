SPECIFICATION Spec
CONSTANTS
    Call = {c1, c2, c3}
    Nobody = Nobody
SYMMETRY Symmetry
INVARIANT TypeOK
INVARIANT GitHubIsTraceable
INVARIANT RecordedPullExists
INVARIANT FailedLeftNothing
PROPERTY ImplementsPromise
CHECK_DEADLOCK FALSE
