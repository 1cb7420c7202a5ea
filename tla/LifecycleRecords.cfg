SPECIFICATION Spec
CONSTANTS
    Ids = {1, 2}
    Existing = {1}
    Reqs = {r1, r2}
    Names = {n1}
    Pids = {1, 2}
    Menus <- SafetyMenus
    NoRecord = NoRecord
CHECK_DEADLOCK FALSE
SYMMETRY ReqSymmetry
INVARIANTS TypeOK RecordSound ChildrenWatched StopTakesEffect
