CONSTANTS
    Handle = {e1, e2}
    NoHandle = NoHandle
    MaxWorkers = 3
    MaxSockets = 2
    MaxQueue = 1
    MaxPushes = 0
    Callbacks = {"socket", "timer"}
    Failing = {"socket", "timer"}
    AppCalls = {"init", "fdset", "setopt", "add", "remove", "perform", "poll", "info_read", "wakeup", "multi_cleanup", "easy_init", "easy_cleanup"}
    CallbackCalls = {}
SPECIFICATION Spec
SYMMETRY Symmetry
INVARIANTS AttachedHaveRecords WorkersHeld TimerAnnounced EndIsHeard
PROPERTIES OwnResult ContractSafety
