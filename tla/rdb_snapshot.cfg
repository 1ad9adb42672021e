CONSTANTS
    k1 = k1
    k2 = k2
    f1 = f1
    Keys <- KeysTwo
    StrVals <- StrValsOne
    PushArgs <- PushOne
    ExpireSecs <- ExpireOne
    ExpireAts <- NoInts
    Fields <- FieldsOne
    HashVals <- HashValsNone
    FieldBytes = 1
    RangeArgs <- RangeNone
    KeyBytes = 2
    MaxBytes = 1000
    CheckBudget <- Unbounded
    Commands <- StringsAndSaves
    MaxTime = 2
    MaxServed = 4
    MaxRestarts = 1
    Crashes = TRUE
    RenameFails = TRUE
    SaveFails = TRUE
SPECIFICATION FairSpec
INVARIANTS
    TypeOK
    RdbRecoveredWithinLive
PROPERTIES
    BgSaveEnds
