SPECIFICATION Spec
CONSTANTS
    Scenario <- MCScenario
    NByte = 8
    Garbage = {0, 255}
INVARIANT KeysAgree
INVARIANT ParasExact
INVARIANT AssignExact
CHECK_DEADLOCK FALSE
