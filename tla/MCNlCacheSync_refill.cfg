SPECIFICATION Spec
CONSTANTS
    k1 = k1
    k2 = k2
    Keys = {k1, k2}
    Vals = {v1, v2}
    None = None
    Families <- OneFamily
    FamilyOf <- BothInOne
    Types <- Replacing
    MayFail = FALSE
    MaxChanges = 1
    MaxCalls = 2
    MaxDumps = 12
INVARIANTS
    RefillCurrent
CHECK_DEADLOCK FALSE
