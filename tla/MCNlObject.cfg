SPECIFICATION Spec
CONSTANTS
    Objs = {o1, o2, o3}
    Caches = {c1, c2}
    Keys = {k1, k2}
    NoCache = NoCache
    MaxHeld = 2
    MaxLeaks = 1
SYMMETRY Symmetry
INVARIANTS
    RefsCounted
    NoBug
    HashMatchesList
