SPECIFICATION Spec
CONSTANTS
    StartSeq = 1
    MaxReq = 2
    MaxEvents = 0
    MaxParts = 1
    RxCap = 3
    Kinds = {"get"}
    HookSets <- NoHooks
    HookVerdicts = {"OK"}
    Hazards = {}
PROPERTIES
    WaitSeesAck
