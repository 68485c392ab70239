SPECIFICATION Spec
CONSTANTS
    Dirs <- McDirs
    WdOf <- McWdOf
    WatchDirs <- McOneDir
    fire_on = {"OPEN", "CLOSE"}
    type = {"CONTENT"}
    MAX_WATCH = 2
    BUFF_EVENTS = 1
    Names = {n1}
    max_delay_before_fire = 1
    HasOpenCmd = TRUE
    HasCloseCmd = TRUE
    AllocMayFail = FALSE
    MsPerSec = 2
    TicksPerSec = 10
    MaxSec = 0
    MaxHandles = 2
    MaxQueued = 2
    MaxOps = 4
INVARIANTS
    HeldFileIsTracked
CHECK_DEADLOCK FALSE
