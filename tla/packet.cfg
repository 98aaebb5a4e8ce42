SPECIFICATION Spec
CONSTANTS
    a = a
    b = b
    nul = nul
    NUL <- nul
    Chars <- MCChars
    ByteMod = 3
    ShortMod = 8
    NameMax = 3
    ValueMax = 2
    Names <- MCNames
    Values <- MCValues
INVARIANTS
    TypeOK
    DecodesWhatWasSent
CHECK_DEADLOCK FALSE
