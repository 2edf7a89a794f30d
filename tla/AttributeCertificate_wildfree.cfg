CONSTANTS
    MaxLoads = 2
    MaxNames = 2
SPECIFICATION Spec
INVARIANT NoWildFree
CHECK_DEADLOCK FALSE
