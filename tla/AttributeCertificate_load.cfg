CONSTANTS
    MaxLoads = 2
    MaxNames = 2
SPECIFICATION Spec
INVARIANT WellFormedLoads
CHECK_DEADLOCK FALSE
