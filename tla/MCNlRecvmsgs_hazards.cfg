SPECIFICATION Spec
CONSTANTS
    StartSeq = 1
    MaxReq = 2
    MaxEvents = 1
    MaxParts = 1
    RxCap = 2
    Kinds = {"set", "dump"}
    HookSets <- FreeHooks
    HookVerdicts = {"OK", "SKIP", "STOP", "ERR"}
    Hazards = {"send_fails", "drop_reply", "overlap", "options", "stray", "trunc", "nomem"}
INVARIANTS
    SeqNeverAhead
    SyncVerdict
CHECK_DEADLOCK FALSE
