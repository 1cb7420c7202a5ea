SPECIFICATION FairSpec
CONSTANTS
    Ids = {1, 2}
    Existing = {1}
    Cmds = {c1, c2}
    Names = {n1}
    Pids = {1, 2}
    Menus <- CommandsMenus
    MaxDeaths = 1
    NoCmd = NoCmd
    NoRecord = NoRecord
    Torn = Torn
CHECK_DEADLOCK FALSE
INVARIANTS TypeOK RecordSound Orderly
PROPERTIES ExitRecorded WaitEnds
