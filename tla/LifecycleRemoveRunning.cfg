SPECIFICATION Spec
CONSTANTS
    Ids = {1}
    Existing = {1}
    Reqs = {r1, r2}
    Names = {n1}
    Pids = {1}
    Menus <- StartRemoveMenus
    NoRecord = NoRecord
CHECK_DEADLOCK FALSE
SYMMETRY ReqSymmetry
PROPERTY RunningNotRemoved
