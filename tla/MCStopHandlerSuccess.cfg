CONSTANTS
    Handlers = {h1, h2}
    PatchMayFail = TRUE
SPECIFICATION Spec



INVARIANT SuccessMeansIdle
CHECK_DEADLOCK FALSE
