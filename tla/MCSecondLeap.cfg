SPECIFICATION Spec
CONSTANTS
    Files = {f1}
    max_delay_before_fire = 2
    HasOpenCmd = TRUE
    HasCloseCmd = TRUE
    AllocMayFail = FALSE
    MsPerSec = 3
    TicksPerSec = 10
    MaxSec = 1
INVARIANTS
    MinReadCloseElapses
