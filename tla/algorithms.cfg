CONSTANTS
    Elems = {1, 2}
    MaxLen = 3
    Idx = 4
    NodeNames = {"a", "b"}
    VNodes = 2
    HashRange = 4
    CacheKeys = {"w", "x", "y", "z"}
    ValueLens = {1, 2, 4}
    KeyLen = 1
    MaxBytes = 8
    MaxFreq = 4
    ArgBytesMax = 3
    Pipelines <- PipelineShapes
    e1 = e1
    e2 = e2
    e3 = e3
    e4 = e4
    ExpKeys = {e1, e2, e3, e4}
    ExpLens = {1, 2}
    ExpTtls = {0, 1, 2}
    ExpKeyBytes = 1
    ExpMaxBytes = 8
    ExpMaxTime = 3
SYMMETRY ExpKeySymmetry
SPECIFICATION Spec
INVARIANTS
    LRangeMatchesSpec
    RingOwnerMatchesSpec
    PipelineRoundTrip
    TruncatedStreamKeepsWholeCommands
    HeapMatchesEntries
PROPERTIES
    LfuImplementsPolicy
    SweepRemovesAllExpired
