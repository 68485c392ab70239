SPECIFICATION FairSpec
CONSTANTS
    Dirs <- McDirs
    WdOf <- McWdOf
    WatchDirs <- McWatchDirs
    fire_on = {"OPEN", "CLOSE"}
    type = {"CONTENT"}
    MAX_WATCH = 2
    BUFF_EVENTS = 1
    Names = {n1}
    max_delay_before_fire = 0
    HasOpenCmd = TRUE
    HasCloseCmd = TRUE
    AllocMayFail = TRUE
    MsPerSec = 2
    TicksPerSec = 10
    MaxSec = 0
    MaxHandles = 1
    MaxQueued = 2
    MaxOps = 4
INVARIANTS
    IInv
    NoPhantomOpen
    HeldFileIsTracked
PROPERTIES
    
    EventsAreHandled
    HeldFileIsOpened
CHECK_DEADLOCK FALSE
