SPECIFICATION Spec
CONSTANTS
    Call = {c1}
    Nobody = Nobody
PROPERTY StaleTargetHalts
CHECK_DEADLOCK FALSE
