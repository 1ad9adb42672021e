CONSTANTS
    k1 = k1
    k2 = k2
    k3 = k3
    f1 = f1
    f2 = f2
    Fields <- FieldsTwo
    HashVals <- HashValsOne
    FieldBytes = 1
    RangeArgs <- RangeWhole
    Keys <- KeysTwo
    StrVals <- StrValsSmallLarge
    PushArgs <- PushOne
    ExpireSecs <- ExpireZeroOne
    ExpireAts <- PExpireAtOne
    KeyBytes = 2
    MaxBytes = 40
    CheckBudget <- Unbounded
    Commands <- WriteCommandsOnly
    MaxTime = 0
    MaxServed = 3
    MaxRestarts = 1
    Crashes = FALSE
    ExitBeforeClose = TRUE
SPECIFICATION Spec
INVARIANT
    RecoveredWithinLive
