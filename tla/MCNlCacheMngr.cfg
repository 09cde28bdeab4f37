SPECIFICATION Spec
CONSTANTS
    k1 = k1
    k2 = k2
    Keys = {k1, k2}
    Vals = {"v1", "v2"}
    None = None
    Types <- AddrAndNetconf
    ObjOf <- OwnObjs
    NoType = NoType
    RegOrder <- AddrNetconf
    OpsOf <- Ops
    GroupsOf <- OwnGroups
    MsgOf <- OwnMsgs
    TypeOf <- TypeOfKey
    GroupOf <- GroupOfKey
    NAssocInit = 1
    NAssocExpand = 1
    InitTables <- AllPresent
    RcvBuf = 2
    MaxChanges = 3
    MaxFails = 1
    MaxUnregs = 1
    MaxAllocs = 1
INVARIANTS
    RegistrySafe
    Mirrors
    QueueLeadsToTable
    KeepsSubscribed
    RequireFindsProvided
PROPERTIES
    MirrorSpec
    Converges
CHECK_DEADLOCK FALSE
