CONSTANTS
    Requests <- MCRequests
    Plan <- MCPlan
    None = None
    Disturbances = {"chaining", "failures", "refusals"}
SPECIFICATION Spec
INVARIANTS
    TypeOK
    NobodyWaits
    NotAnsweredEarly
PROPERTIES
    OneCopyPerTarget
    Answered
\* All requests may have been made and answered.
CHECK_DEADLOCK FALSE
