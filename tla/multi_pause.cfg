CONSTANTS
    Handle = {e1, e2}
    NoHandle = NoHandle
    MaxWorkers = 2
    MaxSockets = 2
    MaxQueue = 1
    MaxPushes = 0
    Callbacks = {"socket"}
    Failing = {}
    AppCalls = {"init", "setopt", "add", "perform", "assign", "info_read", "easy_init", "easy_pause", "write_pause"}
    CallbackCalls = {}
SPECIFICATION FairSpec
PROPERTIES UnpausedEnds
