SPECIFICATION Spec
CONSTANTS
    Sizes = {28, 48}
    HdrLen = 1
    StructLen <- Structs
    AttrTypes = {"attr"}
    PayloadLens = {0, 1, 4}
    U16 = 20
INVARIANTS
    Readable
    InBuffer
PROPERTIES
    CancelRestores
