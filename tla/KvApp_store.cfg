SPECIFICATION Spec
CONSTANTS
    NSec = 3
    SecSize = 10
    SecHdr = 1
    KvHdr = 1
    KvLen = 2
    Threshold = 3
    SecCacheSize = 2
    LoadRounds = 3
    MaxCuts = 2
    None = "none"
    A = A
    B = B
    Passwords = {A, B}
    Keys <- MCKeys
    Values <- MCValues
    NotText <- MCNotText
    Defaults <- MCDefaults
SYMMETRY MCSymmetry
INVARIANTS
    TypeOK
    CachesAgree
    CollectorHasRoom
    CollectsWhenAsked
    FindsStored
PROPERTY KeepsStore
