SPECIFICATION TimedSpec
CONSTANTS
    Files = {f1, f2}
    max_delay_before_fire = 1
    HasOpenCmd = TRUE
    HasCloseCmd = FALSE
    AllocMayFail = FALSE
    MsPerSec = 3
    TicksPerSec = 10
    MaxSec = 1
    IdleWait = 7
    UsPerSec = 6
    NsPerMs = 4
    NsPerSec = 12
INVARIANTS
    DeadlineIsValid
    NoOversleep
    SleepIsBounded
    WaitInv
