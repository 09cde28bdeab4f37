SPECIFICATION Spec
CONSTANTS
    Objs = {o1, o2, o3}
    Types <- SoundTypes
    Defective <- KnownDefects
    FailTypes <- ResettingTypes
    Unsafe <- KnownUnsafe
    Shareable <- Addresses
    MaxFields = 2
    MaxShared = 2
SYMMETRY Symmetry
INVARIANTS
    Owned
PROPERTIES
    CloneIsDeep
    FailureHarmless
