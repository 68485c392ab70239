SPECIFICATION StartSpec
CONSTANTS
    d1 = d1
    d2 = d2
    d3 = d3
    d4 = d4
    f1 = f1
    root = root
    Dirs = {d1, d2, d3, d4}
    Plain = {f1}
    Parent <- McParent
    Settings <- McRecursive
    NULL = NULL
    AllocMayFail = FALSE
    MaxOps = 1
    MAX_WATCH = 5
    SyscallMayFail = FALSE
INVARIANTS
    WatchesAllContents
CHECK_DEADLOCK FALSE
