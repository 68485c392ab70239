SPECIFICATION Spec
CONSTANTS
    Files = {f1}
    max_delay_before_fire = 1
    HasOpenCmd = TRUE
    HasCloseCmd = TRUE
    AllocMayFail = FALSE
    MsPerSec = 5
    TicksPerSec = 10
    MaxSec = 0
PROPERTIES
    CloseOfOpenedFileIsKept
