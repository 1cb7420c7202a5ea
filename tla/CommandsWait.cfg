SPECIFICATION Spec
CONSTANTS
    Ids = {1}
    Existing = {}
    Cmds = {c1, c2}
    Names = {n1}
    Pids = {1}
    Menus <- WaitMenus
    MaxDeaths = 0
    NoCmd = NoCmd
    NoRecord = NoRecord
    Torn = Torn
CHECK_DEADLOCK FALSE
PROPERTY WaitReports
