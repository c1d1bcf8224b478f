SPECIFICATION FairSpec
CONSTANTS
    Task = {t1, t2}
    Incident = {i1, i2}
    NoIncident = NoIncident
    Resubmits = TRUE
    Faults = {"raise"}
PROPERTY StatusAdvances
PROPERTY PipelineSettles
PROPERTY WaitingResumeFinishes
PROPERTY ImplementsRemediation
CHECK_DEADLOCK FALSE
