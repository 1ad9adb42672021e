CONSTANTS
    k1 = k1
    k2 = k2
    f1 = f1
    Keys <- KeysTwo
    StrVals <- StrValsOne
    PushArgs <- PushOne
    ExpireSecs <- NoInts
    ExpireAts <- NoInts
    Fields <- FieldsOne
    HashVals <- HashValsNone
    FieldBytes = 1
    RangeArgs <- RangeNone
    KeyBytes = 2
    MaxBytes = 1000
    CheckBudget <- Unbounded
    Commands <- WritesAndRewrites
    MaxTime = 0
    MaxServed = 4
    MaxRestarts = 1
    Crashes = TRUE
    IoFails = FALSE
    RenameFails = FALSE
SPECIFICATION Spec
INVARIANTS
    SyncedWritesSurvive
