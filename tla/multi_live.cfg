CONSTANTS
    Handle = {e1, e2}
    NoHandle = NoHandle
    MaxWorkers = 3
    MaxSockets = 2
    MaxQueue = 0
    MaxPushes = 0
    Callbacks = {}
    Failing = {}
    AppCalls = {"init", "add", "remove", "perform", "poll", "info_read", "multi_cleanup", "easy_init"}
    CallbackCalls = {}
SPECIFICATION FairSpec
PROPERTIES ContractSpec CallsReturn
