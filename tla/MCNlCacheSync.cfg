SPECIFICATION Spec
CONSTANTS
    k1 = k1
    k2 = k2
    Keys = {k1, k2}
    Vals = {v1, v2}
    None = None
    Families <- TwoFamilies
    FamilyOf <- OneEach
    Types <- CacheTypes
    MayFail = TRUE
    MaxChanges = 2
    MaxCalls = 2
    MaxDumps = 10
INVARIANTS
    SyncExact
    NothingMissing
    ResyncFresh
    CallbacksMirrorCache
PROPERTIES
    SyncReturns
CHECK_DEADLOCK FALSE
