SPECIFICATION Spec
CONSTANTS
    Task = {t1, t2, t3}
    Incident = {i1, i2}
    NoIncident = NoIncident
    Resubmits = TRUE
    Faults = {"raise", "escape", "ack", "crash"}
SYMMETRY Symmetry
INVARIANT TypeOK
INVARIANT PrIsAuthorised
INVARIANT MutatedOnce
INVARIANT CompletedHasPr
INVARIANT WaitingIsResumable
INVARIANT OneOwner
CHECK_DEADLOCK FALSE
