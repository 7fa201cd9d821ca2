SPECIFICATION FairSpec
CONSTANTS
    k1 = k1
    k2 = k2
    a1 = a1
    a2 = a2
    Keys = {k1}
    Accesses = {a1, a2}
    Window = 1
    Thresholds = {1}
    Default = 2
    MaxCount = 2
INVARIANTS
    TypeOK
    ImmortalOnlyByLoss
    HotKeysAreFound
    SeldomMissedAreNot
PROPERTIES
    ColdKeysAreForgotten
