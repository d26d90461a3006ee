CONSTANTS
    Requests <- MCRequestsEmpty
    Plan <- MCPlanEmpty
    None = None
    Disturbances = {}
SPECIFICATION Spec
PROPERTIES
    Answered
\* All requests may have been made and answered.
CHECK_DEADLOCK FALSE
