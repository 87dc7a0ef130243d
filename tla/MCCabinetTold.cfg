SPECIFICATION Spec
CONSTANTS
    CommandId = {c1}
    MaxOutage = 0
CHECK_DEADLOCK FALSE
INVARIANTS
    HandlersAreTold
