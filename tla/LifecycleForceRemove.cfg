SPECIFICATION Spec
CONSTANTS
    Ids = {1}
    Existing = {1}
    Reqs = {r1}
    Names = {n1}
    Pids = {1}
    Menus <- ForceMenus
    NoRecord = NoRecord
CHECK_DEADLOCK FALSE
PROPERTY ForceRemoves
