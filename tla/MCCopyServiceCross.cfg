CONSTANTS
    Requests <- MCRequestsCross
    Plan <- MCPlanCross
    None = None
    Disturbances = {}
SPECIFICATION Spec
PROPERTIES
    OneCopyPerTarget
\* All requests may have been made and answered.
CHECK_DEADLOCK FALSE
