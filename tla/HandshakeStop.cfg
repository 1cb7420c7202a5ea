SPECIFICATION Spec
CONSTANTS
    Pieces = 3
    Capacity = 2
CHECK_DEADLOCK FALSE
INVARIANT StopEndsContainer
