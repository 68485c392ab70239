SPECIFICATION Spec
CONSTANTS
    a = a
    A = A
    Words = {a, A}
    Lwc <- McLwc
    NoSection = NoSection
    Vals = {v1, v2}
    NULL = NULL
    DICT_INVALID_KEY = DICT_INVALID_KEY
    AllocMayFail = TRUE
    MaxLines = 4
SYMMETRY McSymmetry
INVARIANTS
    IInv
    RefusedForLastError
    DictionaryHasOwner
PROPERTIES
    FileIsFoundAgain
CHECK_DEADLOCK FALSE
