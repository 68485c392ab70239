SPECIFICATION FairSpec
CONSTANTS
    d1 = d1
    d2 = d2
    d3 = d3
    d4 = d4
    f1 = f1
    root = root
    Dirs = {d1, d2, d3, d4}
    Plain = {f1}
    Parent <- McParent
    Settings <- McSettings
    NULL = NULL
    AllocMayFail = TRUE
    MaxOps = 2
    MAX_WATCH = 5
    SyscallMayFail = TRUE
INVARIANTS
    IInv
    ArrayIsLongEnough
    WatchingIsComplete
    QuietTreeIsWatched
    
    ExitHasReason
PROPERTIES
    StartsOrStops
CHECK_DEADLOCK FALSE
