SPECIFICATION FairSpec
CONSTANTS
    Files = {f1}
    max_delay_before_fire = 0
    HasOpenCmd = FALSE
    HasCloseCmd = TRUE
    AllocMayFail = FALSE
    MsPerSec = 3
    TicksPerSec = 10
    MaxSec = 0
PROPERTIES
    ClosedFileGetsCloseCommand
