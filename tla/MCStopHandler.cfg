CONSTANTS
    Handlers = {h1, h2}
    PatchMayFail = TRUE
SPECIFICATION Spec
INVARIANT NoListenerLeak
INVARIANT SessionIdleOnlyWhenStopped
PROPERTY StopReturns
CHECK_DEADLOCK FALSE
