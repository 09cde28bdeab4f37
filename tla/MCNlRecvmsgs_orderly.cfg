SPECIFICATION Spec
CONSTANTS
    StartSeq = 1
    MaxReq = 3
    MaxEvents = 1
    MaxParts = 2
    RxCap = 3
    Kinds = {"set", "get", "dump"}
    HookSets <- OrderlyHooks
    HookVerdicts = {"OK", "SKIP"}
    Hazards = {}
INVARIANTS
    SeqAccounting
    NoHalfDump
    InterruptReported
PROPERTIES
    RepliesMatched
    WaitReturns
