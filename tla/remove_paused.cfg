CONSTANTS
    Handle = {e1}
    NoHandle = NoHandle
    MaxWorkers = 2
    MaxSockets = 1
    MaxQueue = 0
    MaxPushes = 0
    Callbacks = {}
    Failing = {}
    AppCalls = {"init", "add", "remove", "perform", "easy_init", "write_pause"}
    CallbackCalls = {}
SPECIFICATION FairSpec
PROPERTIES CallsReturn
CHECK_DEADLOCK FALSE
