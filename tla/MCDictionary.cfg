SPECIFICATION Spec
CONSTANTS
    s1 = s1
    s2 = s2
    k1 = k1
    k2 = k2
    Keys = {s1, s2, k1, k2}
    Vals = {v1}
    HashOf <- McHashOf
    Sections = {s1, s2}
    SectionOf <- McSectionOf
    NULL = NULL
    DICT_INVALID_KEY = DICT_INVALID_KEY
    DICTMINSZ = 2
    AllocMayFail = TRUE
    MaxSize = 4
INVARIANTS
    KeyOnce
    IInv
    SectionsAreNumbered
    SectionKeysFill
    DumpIsComplete
PROPERTIES
    ImplementsMap
CHECK_DEADLOCK FALSE
