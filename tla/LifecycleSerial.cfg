SPECIFICATION Spec
CONSTANTS
    Ids = {1, 2}
    Existing = {1}
    Reqs = {r1}
    Names = {n1, n2}
    Pids = {1, 2}
    Menus <- SerialMenus
    NoRecord = NoRecord
CHECK_DEADLOCK FALSE
PROPERTY KeepsPromise
