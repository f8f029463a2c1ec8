\* Registry calls, the Unicode variants this build runs: strings of 511 and
\* 512 WCHARs, which do and do not fit value[] with their NUL.
CONSTANTS
    HKCU = HKCU
    HKLM = HKLM
    badType = badType
    k1 = k1
    k2 = k2
    v = v
    root = root
    jnull = jnull
    NonUnicode = FALSE
    Hives <- TwoHives
    BadTypes = {badType}
    ReadOnly <- Machine
    Keys <- NestedKeys
    Parent <- Nesting
    KeyLen <- ShortKeyLens
    ValueNames <- NoNames
    VNameLen <- NoNameLen
    Words = {1}
    StrLens = {511, 512}
    ExpandLens = {20, 2047}
    InitVals <- FoundVals
    Root <- root
    JNull <- jnull
    ExcClassLoaded = TRUE
    MaxOther = 1
SPECIFICATION Spec
INVARIANT StringReadMatchesStored
