SPECIFICATION FairSpec
CONSTANTS
    Files = {f1, f2}
    max_delay_before_fire = 1
    HasOpenCmd = TRUE
    HasCloseCmd = TRUE
    AllocMayFail = TRUE
    MsPerSec = 3
    TicksPerSec = 10
    MaxSec = 1
INVARIANTS
    UniqueEntries
    EntriesConsistent
    NoLostWakeup
    DelayNeverOverstated
    IInv
    EveryReferenceIsReplaced
PROPERTIES
    EntryStaysUnderCommand
    ImplementsCommandCycle
    DueFileIsOpened
    ClosedFileSettles
