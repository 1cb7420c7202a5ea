SPECIFICATION FairSpec
CONSTANTS
    Ids = {1}
    Existing = {1}
    Reqs = {r1, r2}
    Names = {n1}
    Pids = {1, 2}
    Menus <- RecoveryMenus
    NoRecord = NoRecord
CHECK_DEADLOCK FALSE
PROPERTIES RequestsEnd ZombiesReaped ExitRecorded PollingRepairs
