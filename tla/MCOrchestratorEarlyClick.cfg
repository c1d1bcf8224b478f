SPECIFICATION FairSpec
CONSTANTS
    Task = {t1}
    Incident = {i1}
    NoIncident = NoIncident
    Resubmits = FALSE
    Faults = {}
PROPERTY ApprovalResumes
CHECK_DEADLOCK FALSE
