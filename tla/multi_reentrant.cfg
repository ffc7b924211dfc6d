CONSTANTS
    Handle = {e1, e2}
    NoHandle = NoHandle
    MaxWorkers = 2
    MaxSockets = 2
    MaxQueue = 1
    MaxPushes = 1
    Callbacks = {"socket", "push"}
    Failing = {"socket", "push"}
    AppCalls = {"init", "setopt", "add", "perform", "easy_init"}
    CallbackCalls = {"add", "remove"}
SPECIFICATION Spec
SYMMETRY Symmetry
\* Workers nobody holds any more keep their ids: TLC runs out of them, the
\* program would not.
CHECK_DEADLOCK FALSE
INVARIANTS EasiesUnique MessagesUnique CallbackExclusive FreedIsForgotten
