SPECIFICATION Spec
CONSTANTS
    Scenario <- MCUpdate
    NByte = 8
    Garbage = {0, 255}
INVARIANT EntryArrives
CHECK_DEADLOCK FALSE
