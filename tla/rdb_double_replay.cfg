CONSTANTS
    k1 = k1
    k2 = k2
    f1 = f1
    Keys <- KeysTwo
    StrVals <- StrValsOneTwo
    PushArgs <- PushOne
    ExpireSecs <- ExpireOne
    ExpireAts <- NoInts
    Fields <- FieldsOne
    HashVals <- HashValsNone
    FieldBytes = 1
    RangeArgs <- RangeNone
    KeyBytes = 2
    MaxBytes = 1000
    CheckBudget <- Unbounded
    Commands <- PushAndSave
    MaxTime = 0
    MaxServed = 2
    MaxRestarts = 1
    Crashes = FALSE
    RenameFails = FALSE
    SaveFails = FALSE
SPECIFICATION Spec
INVARIANTS
    RdbRecoveredWithinLive
